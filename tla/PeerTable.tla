----------------------------- MODULE PeerTable -----------------------------
(***************************************************************************)
(* What the world model (L4) promises the coordination runtime (L5): for   *)
(* every peer, how many cycles ago a frame of it was last accepted, and    *)
(* whether that frame said the peer had departed.  The clocks that decide  *)
(* acceptance, the radio and the peers themselves are hidden: WorldModel   *)
(* is the detailed specification and implements this one.  Scr is built on *)
(* it.                                                                     *)
(*                                                                         *)
(* Time is counted in cycles (WM_CYCLE_MS).                                *)
(***************************************************************************)
EXTENDS Naturals

CONSTANTS
    Peers,      \* the identifiers of the other elements
    StaleAge,   \* WM_STALE_THRESHOLD_MS in cycles
    ExpireAge   \* WM_EXPIRE_THRESHOLD_MS in cycles

ASSUME AgesAssumption ==
    /\ StaleAge \in Nat
    /\ ExpireAge \in Nat
    /\ 0 < StaleAge
    /\ StaleAge < ExpireAge

VARIABLE table

(* A row of the table.  The age stops at ExpireAge: an inactive entry is   *)
(* not aged any more.                                                      *)
Row == [known: BOOLEAN, age: 0..ExpireAge, departed: BOOLEAN]

NeverHeard == [known |-> FALSE, age |-> 0, departed |-> FALSE]

Active(t, p) == t[p].known /\ t[p].age < ExpireAge
Fresh(t, p)  == t[p].known /\ t[p].age < StaleAge

Aged(row) == IF row.known /\ row.age < ExpireAge
             THEN [row EXCEPT !.age = @ + 1]
             ELSE row

Older(t) == [p \in Peers |-> Aged(t[p])]

-----------------------------------------------------------------------------

TableTypeOK == table \in [Peers -> Row]

TableInit == table = [p \in Peers |-> NeverHeard]

(* A frame of p was accepted; d is its DEPARTED health flag. *)
Accept(p, d) ==
    table' = [table EXCEPT ![p] = [known |-> TRUE, age |-> 0, departed |-> d]]

(* One cycle passes. *)
Age == table' = Older(table)

TableNext == Age \/ \E p \in Peers, d \in BOOLEAN : Accept(p, d)

TableSpec == TableInit /\ [][TableNext]_table
=============================================================================
