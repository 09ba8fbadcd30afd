---------------------------- MODULE MCExchange -----------------------------
(***************************************************************************)
(* Two elements that change places, their scripts out of step.             *)
(***************************************************************************)
EXTENDS Swap

Ends == (1 :> 0 @@ 2 :> 10)

(* Neither a shape nor bounds play a part in an exchange. *)
Nothing == <<>>
=============================================================================
