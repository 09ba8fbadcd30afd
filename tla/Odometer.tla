------------------------------ MODULE Odometer ------------------------------
(***************************************************************************)
(* The encoder odometry of examples/cutebot-formation (Cutebot Pro): a     *)
(* wheel's cumulative counter is read once a tick and differenced against  *)
(* the last accepted reading.  A read may fail, or complete with nonsense; *)
(* the guard ignores a difference no wheel could have made in the time and *)
(* takes the third in a row for a counter that was reset.                  *)
(*                                                                         *)
(* One wheel, forwards only.  What a read returns is the counter or, from  *)
(* a chassis that browns out, nonsense: the replies bear no checksum.      *)
(***************************************************************************)
EXTENDS Integers

CONSTANTS
    Turn,       \* what a wheel turns in a tick, at PRO_ENC_MAX_CMS
    Rate,       \* 1.5 times that, the guard's limit a tick
    Slack,      \* PRO_ENC_SLACK_CM
    Rebase,     \* PRO_ENC_REBASE_STREAK
    Nonsense,   \* what a bad read may return
    MaxTicks,   \* bound: ticks of a run
    MaxSpan     \* bound: ticks without an accepted read

ASSUME OdometerAssumption ==
    /\ Turn \in Nat /\ Rate \in Nat /\ Turn <= Rate
    /\ Slack \in Nat /\ Rebase \in Nat \ {0}
    /\ Nonsense \subseteq Int
    /\ MaxTicks \in Nat /\ MaxSpan \in Nat \ {0}

VARIABLES
    count,      \* the counter in the chassis
    baseline,   \* prev_left_dist, with enc_prev_valid
    accepted,   \* ticks since enc_good_ms, Never while that is 0
    streak,     \* implausible reads in a row
    estimate,   \* what odometry has added up
    verdict,    \* history: "NONE", "FAILED", "BASELINE", "OK", "REJECTED", "REBASED"
    genuine,    \* history: the last read returned the counter
    sound,      \* history: the baseline is a genuine reading
    rebased,    \* history: a baseline was dropped, or nonsense was the first
    origin,     \* history: the counter at the first baseline
    ticks

odometerVars == <<count, baseline, accepted, streak, estimate, verdict, genuine,
                  sound, rebased, origin, ticks>>

Never == -1
Unset == [set |-> FALSE, at |-> 0]

-----------------------------------------------------------------------------
(* span_ms: the time since the last accepted read; that of the tick alone  *)
(* before the first.  Variant: always the tick alone.                      *)
SpanOfTick == 1
Span == IF accepted = Never THEN 1 ELSE accepted + 1

Magnitude(n) == IF n < 0 THEN -n ELSE n
Plausible(delta) == Magnitude(delta) <= Span * Rate + Slack

(* pro_wheel_deltas_cm()                                                   *)
Verdict(reading) ==
    IF ~baseline.set THEN "BASELINE"
    ELSE IF Plausible(reading - baseline.at) THEN "OK"
    ELSE IF streak + 1 < Rebase THEN "REJECTED"
    ELSE "REBASED"

-----------------------------------------------------------------------------
(* The read before the loop, which may fail.                               *)
OdometerInit ==
    /\ count = 0
    /\ baseline \in {Unset, [set |-> TRUE, at |-> 0]}
    /\ accepted = Never /\ streak = 0 /\ estimate = 0
    /\ verdict = "NONE" /\ genuine = TRUE /\ sound = baseline.set /\ rebased = FALSE
    /\ origin = 0 /\ ticks = 0

Aged == IF accepted = Never THEN Never ELSE accepted + 1

Reads(turn, reading) ==
    LET v == Verdict(reading)
    IN  /\ verdict' = v
        /\ baseline' = IF v = "REJECTED" THEN baseline ELSE [set |-> TRUE, at |-> reading]
        /\ estimate' = IF v = "OK" THEN estimate + reading - baseline.at ELSE estimate
        /\ streak' = IF v = "REJECTED" THEN streak + 1
                     ELSE IF v = "BASELINE" THEN streak ELSE 0
        /\ accepted' = IF v \in {"OK", "REBASED"} THEN 0 ELSE Aged
        /\ genuine' = (reading = count')
        /\ sound' = IF v = "REJECTED" THEN sound ELSE genuine'
        /\ rebased' = (rebased \/ v = "REBASED" \/ (v = "BASELINE" /\ ~genuine'))
        /\ origin' = IF v = "BASELINE" THEN count' ELSE origin

Pass(turn) ==
    /\ ticks < MaxTicks /\ ticks' = ticks + 1
    /\ accepted < MaxSpan
    /\ count' = count + turn

GoodRead == \E turn \in {0, Turn} : Pass(turn) /\ Reads(turn, count + turn)
BadRead  == \E turn \in {0, Turn}, n \in Nonsense : Pass(turn) /\ Reads(turn, n)
NoRead   == \E turn \in {0, Turn} :
    /\ Pass(turn)
    /\ verdict' = "FAILED" /\ genuine' = FALSE /\ accepted' = Aged
    /\ UNCHANGED <<baseline, streak, estimate, sound, rebased, origin>>

OdometerNext == GoodRead \/ BadRead \/ NoRead

OdometerSpec == OdometerInit /\ [][OdometerNext]_odometerVars

-----------------------------------------------------------------------------
(* Once a first difference has been accepted, a genuine reading over a     *)
(* genuine baseline is never taken for nonsense: it brings the estimate to *)
(* all the wheel has turned since the first baseline, whatever reads have  *)
(* failed or been ignored before it (main.c: "the next good read measures  *)
(* the whole interval").  Not after a rebase, which drops the difference.  *)
MotionMadeUp ==
    genuine /\ sound /\ accepted # Never /\ ~rebased =>
        estimate = count - origin
=============================================================================
