------------------------------- MODULE Slots -------------------------------
(***************************************************************************)
(* The geometry of L6 (bse/bse.c).  Which slot of a shape an element       *)
(* takes: the slots about the frame's origin, slid into the arena, and the *)
(* assignment of participants to slots with the least total distance,      *)
(* found by successive shortest augmenting paths.  Where an element waits  *)
(* for the station it exchanges with.  Space is a line of integers: a slot *)
(* of any shape is its offset along it.                                    *)
(***************************************************************************)
EXTENDS Integers, Sequences, FiniteSets, FiniteSetsExt, SequencesExt

CONSTANTS
    Layout,   \* [1..n -> the n offsets of the shape with n participants]
    Arena,    \* <<low, high>>, or <<>>: bse_set_form_bounds
    Occupied, \* TAPESTRY_BSE_EXCHANGE_OCCUPIED_M
    Standoff  \* TAPESTRY_BSE_EXCHANGE_STANDOFF_M

Dist(a, b) == IF a < b THEN b - a ELSE a - b

(* form_slot_offset; a spin has turned the shape by half turns. *)
SlotOffset(k, n, turned) == IF turned THEN -Layout[n][k] ELSE Layout[n][k]

(* form_fit_axis: what slides the slots into [low, high], or centres those *)
(* that are wider. *)
Slide(slots) ==
    LET low  == Min({slots[k] : k \in DOMAIN slots})
        high == Max({slots[k] : k \in DOMAIN slots})
    IN CASE Arena = <<>> -> 0
         [] Arena # <<>> /\ high - low > Arena[2] - Arena[1] ->
               (Arena[1] + Arena[2] - low - high) \div 2
         [] Arena # <<>> /\ high - low <= Arena[2] - Arena[1] ->
               IF low < Arena[1] THEN Arena[1] - low
               ELSE IF high > Arena[2] THEN Arena[2] - high ELSE 0

FitAxis(slots) == [k \in DOMAIN slots |-> slots[k] + Slide(slots)]

Infinite == 1000000

(* The list of the values of f: TLC evaluates each once. *)
Listed(f) == f \o <<>>

(* One participant joins: the tree of cheapest alternating paths grows     *)
(* from the door, the slot n + 1 it comes in by, until it meets a free     *)
(* one.  holds[j] is the participant slot j has (0: none), way[j] the slot *)
(* the path came from.                                                     *)
Trees == [holds: Seq(Nat), u: Seq(Int), v: Seq(Int), at: Nat, used: SUBSET Nat,
          way: Seq(Nat), least: Seq(Int)]

Grown(start, cost) ==
    LET grown[t \in Trees] ==
        IF t.holds[t.at] = 0 THEN t
        ELSE
        LET used    == t.used \cup {t.at}
            who     == t.holds[t.at]
            free    == DOMAIN t.least \ used
            through == [j \in free |-> cost[who][j] - t.u[who] - t.v[j]]
            nearer  == {j \in free : through[j] < t.least[j]}
            least   == Listed([j \in DOMAIN t.least |->
                                  IF j \in nearer THEN through[j] ELSE t.least[j]])
            delta   == Min({least[j] : j \in free})
        IN grown[[holds |-> t.holds, used |-> used,
                  at    |-> Min({j \in free : least[j] = delta}),
                  way   |-> Listed([j \in DOMAIN t.way |->
                                       IF j \in nearer THEN t.at ELSE t.way[j]]),
                  least |-> Listed([j \in DOMAIN least |->
                                       IF j \in free THEN least[j] - delta ELSE least[j]]),
                  u     |-> Listed([i \in DOMAIN t.u |->
                                       IF \E j \in used : t.holds[j] = i THEN t.u[i] + delta
                                       ELSE t.u[i]]),
                  v     |-> Listed([j \in DOMAIN t.v |->
                                       IF j \in used THEN t.v[j] - delta ELSE t.v[j]])]]
    IN grown[start]

(* ... and the slots on the path change hands. *)
Passed(holds, way, last, door) ==
    LET passed[p \in Seq(Nat) \X Nat] ==
        LET now == p[1]
            j   == p[2]
        IN IF j = door THEN now
           ELSE passed[<<Listed([k \in DOMAIN now |-> now[IF k = j THEN way[j] ELSE k]]),
                         way[j]>>]
    IN passed[<<holds, last>>]

(* form_assign_slot, for all: participants 1..n join those before them.    *)
Joined(n, cost) ==
    LET door == n + 1
        zero == [j \in 1..door |-> 0]
        joined[i \in 0..n] ==
            IF i = 0 THEN [holds |-> zero, u |-> zero, v |-> zero]
            ELSE
            LET s == joined[i - 1]
                t == Grown([holds |-> Listed([j \in 1..door |-> IF j = door THEN i ELSE s.holds[j]]),
                            u |-> s.u, v |-> s.v, at |-> door, used |-> {},
                            way |-> [j \in 1..door |-> door],
                            least |-> [j \in 1..door |-> Infinite]], cost)
            IN [holds |-> Passed(t.holds, t.way, t.at, door), u |-> t.u, v |-> t.v]
    IN joined[n].holds

Holders(pos, spots) ==
    LET n == Len(pos)
    IN Joined(n, Listed([i \in 1..n |-> Listed([j \in 1..n |-> Dist(pos[i], spots[j])])]))

AssignSlot(pos, spots, who) ==
    CHOOSE j \in DOMAIN spots : Holders(pos, spots)[j] = who

-----------------------------------------------------------------------------
(* EXCHANGE on the direct path: a station somebody is on, and where to     *)
(* wait for it.                                                            *)
On(p, station) == Dist(p, station) < Occupied

StandoffFrom(own, station) ==
    IF own = station THEN station
    ELSE IF own > station THEN station + Standoff ELSE station - Standoff

-----------------------------------------------------------------------------
(* The reference: the least total over all ways to hand out the slots. *)
Total(pos, taken) ==
    FoldLeft(LAMBDA sum, i : sum + Dist(pos[i], taken[i]), 0,
             [i \in 1..Len(pos) |-> i])

LeastTotal(pos, spots) ==
    LET n == Len(pos)
    IN Min({Total(pos, [i \in 1..n |-> spots[w[i]]]) :
               w \in {f \in [1..n -> 1..n] : {f[i] : i \in 1..n} = 1..n}})
=============================================================================
