------------------------------ MODULE FixGate ------------------------------
(***************************************************************************)
(* The jump gate of the Lighthouse driver (cf21bl_lighthouse.c,            *)
(* process_frame): a position fix farther from the last accepted one than  *)
(* the airframe could have flown in the time since is discarded, until     *)
(* LH2_JUMP_REJECT_N of them have come in a row; then the driver believes  *)
(* it has re-acquired.  Fixes are those that have passed the pairing, the  *)
(* angle, the miss and the median filters; some are still phantoms.        *)
(*                                                                         *)
(* Places are on a line.  The drone flies within Field, one place a tick;  *)
(* phantoms are seen at Ghosts.                                            *)
(***************************************************************************)
EXTENDS Integers

CONSTANTS
    Field,     \* where the drone may be
    Ghosts,    \* where phantom solutions lie
    Floor,     \* LH2_JUMP_M
    Speed,     \* LH2_MAX_SPEED_MPS, places a tick
    RejectN,   \* LH2_JUMP_REJECT_N
    MaxQuiet   \* bound: ticks since the last accepted fix

ASSUME FixGateAssumption ==
    /\ Field \subseteq Int /\ Ghosts \subseteq Int
    /\ Floor \in Nat /\ Speed \in Nat \ {0} /\ RejectN \in Nat \ {0}
    /\ MaxQuiet \in Nat \ {0}

VARIABLES
    place,     \* where the drone is
    seeded,    \* g_jump_seeded
    fix,       \* g_prev, g_pos: the last accepted fix
    far,       \* g_jump_far_n
    quiet,     \* ticks since it was accepted: g_vel_t_ms, g_pos_ms
    fooled,    \* history: the accepted fix is a phantom
    ghosts,    \* history: phantoms since the last genuine fix
    truths     \* history: genuine fixes since the last phantom

gateVars == <<place, seeded, fix, far, quiet, fooled, ghosts, truths>>

Distance(p, q) == IF p < q THEN q - p ELSE p - q
UpTo(n, cap) == IF n < cap THEN n + 1 ELSE cap

-----------------------------------------------------------------------------
(* The limit is a speed times the time since, but never below the floor.   *)
Limit(since) == IF Speed * since < Floor THEN Floor ELSE Speed * since
Far(m, since) == Distance(m, fix) > Limit(since)

(* Discarded: the first RejectN - 1 far fixes in a row.                    *)
Discards(m, since) == seeded /\ Far(m, since) /\ far + 1 < RejectN

(* An accepted fix ends the row.  Variant: it does not.                    *)
FarCountKept(discarded) == IF discarded THEN far + 1 ELSE far
FarCount(discarded) == IF discarded THEN far + 1 ELSE 0

-----------------------------------------------------------------------------
GateInit ==
    /\ place \in Field /\ seeded = FALSE /\ fix = 0 /\ far = 0 /\ quiet = 0
    /\ fooled = FALSE /\ ghosts = 0 /\ truths = 0

Flies == place' \in {p \in Field : Distance(p, place) <= 1}

Publish(m, phantom) ==
    LET since == quiet + 1
        out   == Discards(m, since)
    IN  /\ quiet < MaxQuiet
        /\ far' = FarCount(out)
        /\ seeded' = TRUE
        /\ fix' = IF out THEN fix ELSE m
        /\ quiet' = IF out THEN since ELSE 0
        /\ fooled' = IF out THEN fooled ELSE phantom
        /\ ghosts' = IF phantom THEN UpTo(ghosts, RejectN) ELSE 0
        /\ truths' = IF phantom THEN 0 ELSE UpTo(truths, RejectN)

GenuineFix == Flies /\ Publish(place', FALSE)
PhantomFix == Flies /\ \E g \in Ghosts : Publish(g, TRUE)
NoFix == /\ Flies /\ quiet < MaxQuiet /\ quiet' = quiet + 1
         /\ UNCHANGED <<seeded, fix, far, fooled, ghosts, truths>>

GateNext == GenuineFix \/ PhantomFix \/ NoFix

GateSpec == GateInit /\ [][GateNext]_gateVars

-----------------------------------------------------------------------------
(* A phantom takes over only when it could have been flown to since, or    *)
(* after RejectN phantoms without a genuine fix between them; and RejectN  *)
(* genuine fixes in a row always bring the driver back: a run of either    *)
(* kind that the other interrupts convinces it of nothing                  *)
(* (cf21bl_lighthouse.c: "sustained flip-flopping never re-seeds onto the  *)
(* wrong branch").                                                         *)
FlipFlopSeedsNothing ==
    [][/\ seeded /\ ~fooled /\ fooled' =>
              \/ ghosts' = RejectN
              \/ Distance(fix, fix') <= Limit(quiet + 1)
       /\ truths' = RejectN => ~fooled']_gateVars
=============================================================================
