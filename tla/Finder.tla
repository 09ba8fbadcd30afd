------------------------------- MODULE Finder -------------------------------
(***************************************************************************)
(* The search of examples/cutebot-formation (leak.choreo.toml): robots     *)
(* drive a script of timed legs; the one whose line sensors confirm the    *)
(* marker stops, publishes where it is as a TARGET fact, and drives again  *)
(* when the script has left the step it was found on.  Every robot that    *)
(* holds the fact goes on to "found" and from there to "ring".             *)
(*                                                                         *)
(* Choreo and the facts are reduced to what this loop sees of them: the    *)
(* step, the step whose directive is the current one, whether the script   *)
(* is suspended, whether a TARGET fact is held and the table synchronised. *)
(***************************************************************************)
EXTENDS Naturals

CONSTANTS
    Robots,
    Legs,        \* timed FORM steps
    Confirm,     \* DEMO_DISCOVERY_CONFIRM_POLLS
    SyncTicks,   \* FACT_SYNC_TIMEOUT_MS in ticks
    MaxRestarts  \* bound: restarts in all

ASSUME FinderAssumption ==
    /\ Legs \in Nat \ {0} /\ Confirm \in Nat \ {0}
    /\ SyncTicks \in Nat \ {0} /\ MaxRestarts \in Nat

VARIABLES
    step,       \* choreo_script_step()
    directive,  \* the step choreo_get_directive() was computed for
    suspended,  \* Choreo is SUSPENDED
    known,      \* wm_fact_find(TARGET)
    unsynced,   \* ticks until the fact table may publish whatever it heard
    polls,      \* consecutive_dark_polls
    discovered, foundOn,   \* discovery.discovered, discovery_step
    pending,    \* target_pending
    released,   \* discovery_released_ticks
    driving,    \* the step whose directive the wheels follow, NoLeg at rest
    thawing,    \* history: the last tick began suspended
    restarts

finderVars == <<step, directive, suspended, known, unsynced, polls, discovered,
                foundOn, pending, released, driving, thawing, restarts>>

NoLeg    == 0
Searched == Legs + 1   \* HOLD: the legs are over, still listening
Found    == Legs + 2   \* HOLD
Ringing  == Legs + 3   \* FORM around the fact
Holds(s) == s \in {Searched, Found}

-----------------------------------------------------------------------------
(* Detection: armed while no target is known, in forward motion only.      *)
PollsAfter(r, knows, dark) ==
    IF discovered[r] THEN polls[r]
    ELSE IF dark /\ ~knows /\ driving[r] # NoLeg THEN polls[r] + 1 ELSE 0

(* wm_fact_publish() refuses until the table has heard a peer or waited;   *)
(* any other answer ends the attempt.  Variant: one attempt only.          *)
StillPendingOnce(wanted, synced) == FALSE
StillPending(wanted, synced) == wanted /\ ~synced

(* choreo_tick(): running, the directive is that of the step before it     *)
(* advances; suspended, only a HOLD's is renewed and only isolation lets   *)
(* the step's time run.                                                    *)
DirectiveAfter(r) ==
    IF suspended[r] /\ ~Holds(step[r]) THEN directive[r] ELSE step[r]

StepAfter(r, knows, timed) ==
    IF ~suspended[r] /\ knows /\ step[r] <= Searched THEN Found
    ELSE IF timed /\ step[r] < Ringing THEN step[r] + 1 ELSE step[r]

(* The stop on discovery lasts until the script has left the step, plus    *)
(* one tick.  Variant: without that tick.                                  *)
StopsWhileOnStep(found, on, now, ticks) == found /\ now = on
Stops(found, on, now, ticks) == found /\ (now = on \/ ticks < 1)

(* Tracking: a FORM only with quorum, a HOLD always.                       *)
Tracks(now, quorum) == quorum \/ Holds(now)

-----------------------------------------------------------------------------
FinderInit ==
    /\ step = [r \in Robots |-> 1] /\ directive = [r \in Robots |-> 1]
    /\ suspended = [r \in Robots |-> FALSE]
    /\ known = [r \in Robots |-> FALSE]
    /\ unsynced = [r \in Robots |-> SyncTicks]
    /\ polls = [r \in Robots |-> 0]
    /\ discovered = [r \in Robots |-> FALSE] /\ foundOn = [r \in Robots |-> NoLeg]
    /\ pending = [r \in Robots |-> FALSE] /\ released = [r \in Robots |-> 0]
    /\ driving = [r \in Robots |-> NoLeg] /\ thawing = [r \in Robots |-> FALSE]
    /\ restarts = 0

(* One pass of the loop: heard is a fact frame of a peer, or none.         *)
Loop(r, heard, dark, quorum, timed) ==
    LET got    == known[r] \/ \E q \in heard : known[q]
        left   == IF heard # {} \/ unsynced[r] = 0 THEN 0 ELSE unsynced[r] - 1
        run    == PollsAfter(r, got, dark)
        found  == discovered[r] \/ run >= Confirm
        on     == IF found /\ ~discovered[r] THEN step[r] ELSE foundOn[r]
        wanted == pending[r] \/ (found /\ ~discovered[r])
        knows  == got \/ (wanted /\ left = 0)
        next   == StepAfter(r, knows, timed)
        dir    == DirectiveAfter(r)
    IN  /\ suspended' = [suspended EXCEPT ![r] = ~quorum]
        /\ thawing' = [thawing EXCEPT ![r] = suspended[r]]
        /\ known' = [known EXCEPT ![r] = knows]
        /\ unsynced' = [unsynced EXCEPT ![r] = left]
        /\ polls' = [polls EXCEPT ![r] = run]
        /\ discovered' = [discovered EXCEPT ![r] = found]
        /\ foundOn' = [foundOn EXCEPT ![r] = on]
        /\ pending' = [pending EXCEPT ![r] = StillPending(wanted, left = 0)]
        /\ step' = [step EXCEPT ![r] = next]
        /\ directive' = [directive EXCEPT ![r] = dir]
        /\ released' = [released EXCEPT ![r] =
               IF found /\ next # on THEN 1 ELSE @]
        /\ driving' = [driving EXCEPT ![r] =
               IF Tracks(next, quorum) /\ ~Stops(found, on, next, released[r])
               THEN dir ELSE NoLeg]
        /\ UNCHANGED restarts

(* What may be seen, and whether the step's time is over, where it matters.*)
Sights(r) == IF discovered[r] \/ known[r] \/ driving[r] = NoLeg THEN {FALSE} ELSE BOOLEAN
Times(r)  == IF step[r] = Ringing THEN {FALSE} ELSE BOOLEAN

Hearing(r, heard) == \E dark \in Sights(r), timed \in Times(r), quorum \in BOOLEAN :
                         Loop(r, heard, dark, quorum, timed)

Ticks(r) == \E heard \in SUBSET (Robots \ {r}) : Hearing(r, heard)

(* The radio lets a frame of every peer through, again and again.          *)
Hears(r) == Hearing(r, Robots \ {r})

(* The robot is switched off and on: nothing is kept.                      *)
Restarts(r) ==
    /\ restarts < MaxRestarts /\ restarts' = restarts + 1
    /\ step' = [step EXCEPT ![r] = 1] /\ directive' = [directive EXCEPT ![r] = 1]
    /\ suspended' = [suspended EXCEPT ![r] = FALSE]
    /\ known' = [known EXCEPT ![r] = FALSE]
    /\ unsynced' = [unsynced EXCEPT ![r] = SyncTicks]
    /\ polls' = [polls EXCEPT ![r] = 0]
    /\ discovered' = [discovered EXCEPT ![r] = FALSE]
    /\ foundOn' = [foundOn EXCEPT ![r] = NoLeg]
    /\ pending' = [pending EXCEPT ![r] = FALSE]
    /\ released' = [released EXCEPT ![r] = 0]
    /\ driving' = [driving EXCEPT ![r] = NoLeg]
    /\ thawing' = [thawing EXCEPT ![r] = FALSE]

FinderNext == \E r \in Robots : Ticks(r) \/ Restarts(r)

FinderSpec == FinderInit /\ [][FinderNext]_finderVars

-----------------------------------------------------------------------------
(* A robot that has confirmed the marker does not drive on under the       *)
(* directive of the step it was found on (main.c, the stop on discovery),  *)
(* however that step ends: by its own fact, a peer's, or its time.  Ticks  *)
(* that begin suspended are excepted: the directive then is the one from   *)
(* before the suspension, the one tick of grace is spent, and the wheels   *)
(* follow it for a tick when the quorum returns or the time of isolation   *)
(* carries the script into a HOLD.                                         *)
FinderStands == \A r \in Robots :
    discovered[r] /\ driving[r] = foundOn[r] => thawing[r]

(* What one robot has found all come to know, though its table may not be  *)
(* ready to publish at the time and robots restart, unless the finder      *)
(* itself restarts.                                                        *)
FindIsShared == \A r \in Robots :
    discovered[r] ~> ((\A q \in Robots : known[q]) \/ ~discovered[r])
=============================================================================
