---------------------------- MODULE QuorumSignal ----------------------------
(***************************************************************************)
(* What L5 promises L6 and L7 about quorum, after the words of             *)
(* scr_set_quorum_hold_ms in scr.h and the code of scr_tick: a run of Need *)
(* good readings raises the signal, one bad reading drops it, and once it  *)
(* has been raised its absence is an abort.                                *)
(***************************************************************************)
EXTENDS Naturals

CONSTANT Need  \* readings a recovery must last

VARIABLES
    run,   \* good readings in a row, up to Need
    ever   \* the signal has been up

Held  == run = Need
Alarm == ever /\ ~Held

SignalInit == run = 0 /\ ever = FALSE

Good ==
    /\ run' = IF run < Need THEN run + 1 ELSE Need
    /\ ever' = (ever \/ run' = Need)

Bad ==
    /\ run' = 0
    /\ ever' = ever

SignalNext == Good \/ Bad

SignalSpec == SignalInit /\ [][SignalNext]_<<run, ever>>
=============================================================================
