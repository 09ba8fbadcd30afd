-------------------------------- MODULE Swap --------------------------------
(***************************************************************************)
(* Elements that EXCHANGE stations on the direct path (bse/bse.c).  Each   *)
(* holds its place until its own script comes to the step; in its first    *)
(* tick with a peer it captures, from what it has heard, where it is to    *)
(* go; from then on it drives there, and stands off while it hears         *)
(* somebody on that place.  Nothing is agreed by message and the scripts   *)
(* are not in step, so the snapshots two elements take may differ by all   *)
(* the way one of them has gone.  Two may pass one another (the platform's *)
(* repulsion is left out); after its capture an element hears everybody.   *)
(***************************************************************************)
EXTENDS Slots

CONSTANTS
    Pair,      \* identifiers, natural numbers
    Stations,  \* [Pair -> Int]: where they are when the first comes to the step
    Shift      \* slot_shift, or 1

ASSUME SwapAssumption ==
    /\ IsFiniteSet(Pair) /\ Pair \subseteq Nat
    /\ Stations \in [Pair -> Int]
    /\ Shift \in Nat \ {0}
    /\ Occupied \in Nat /\ Standoff \in Nat

VARIABLES
    where,     \* where each element is
    hears,     \* hears[i][j]: where i last heard j to be
    captured,  \* those with ex_captured
    dest       \* their ex_dest

swapVars == <<where, hears, captured, dest>>

(* What i knows of j's place: its own, and what it has heard of others.    *)
PlaceOf(i, j) == IF i = j THEN where[i] ELSE hears[i][j]

(* Variant: the element counts itself. *)
TakenByAnyone(i) == \E j \in Pair : On(PlaceOf(i, j), dest[i])

Taken(i) == \E j \in Pair \ {i} : On(hears[i][j], dest[i])

(* Before the capture an element holds. *)
Target(i) ==
    IF i \notin captured THEN where[i]
    ELSE IF Taken(i) THEN StandoffFrom(where[i], dest[i])
    ELSE dest[i]

SwapInit ==
    /\ where = Stations
    /\ hears = [i \in Pair |-> Stations]
    /\ captured = {}
    /\ dest = Stations

(* exchange_capture: i and the peers it has fresh, in the order of their   *)
(* identifiers, each take the place of the one Shift further on.           *)
RankIn(ring, j) == Cardinality({k \in ring : k < j})

Capture(i) ==
    /\ i \notin captured
    /\ \E fresh \in SUBSET (Pair \ {i}) : \E j \in fresh \cup {i} :
          LET ring == fresh \cup {i}
          IN /\ fresh # {}
             /\ RankIn(ring, j) = (RankIn(ring, i) + Shift) % Cardinality(ring)
             /\ dest' = [dest EXCEPT ![i] = PlaceOf(i, j)]
    /\ captured' = captured \cup {i}
    /\ UNCHANGED <<where, hears>>

(* A tick of i and the way its tracker makes until the next. *)
Track(i) ==
    /\ Target(i) # where[i]
    /\ where' = [where EXCEPT ![i] = IF Target(i) > @ THEN @ + 1 ELSE @ - 1]
    /\ UNCHANGED <<hears, captured, dest>>

(* A frame of j reaches i. *)
HearFrom(i, j) ==
    /\ i # j /\ hears[i][j] # where[j]
    /\ hears' = [hears EXCEPT ![i][j] = where[j]]
    /\ UNCHANGED <<where, captured, dest>>

SwapNext ==
    \E i \in Pair : Capture(i) \/ Track(i) \/ \E j \in Pair : HearFrom(i, j)

(* Every script comes to the step, trackers track, frames get through.     *)
SwapSpec ==
    /\ SwapInit /\ [][SwapNext]_swapVars
    /\ \A i \in Pair : WF_swapVars(Capture(i)) /\ WF_swapVars(Track(i))
    /\ \A i, j \in Pair : WF_swapVars(HearFrom(i, j))

-----------------------------------------------------------------------------
Arrived == captured = Pair /\ \A i \in Pair : where[i] = dest[i]

(* What the elements captured leaves each room to wait for another: nobody *)
(* who stands off from a place is on a second one.                         *)
RoomToWait ==
    /\ captured = Pair
    /\ \A i \in Pair : \A j \in Pair \ {i} : Occupied + Standoff <= Dist(dest[i], dest[j])

(* Everybody waits for the place it is to take to be free, which somebody  *)
(* else holds or passes, on stale news; and yet, however late each came to *)
(* the step, the exchange completes if the captured places leave room to   *)
(* wait: if "the snapshots differ by at most one gossip interval of peer   *)
(* motion" (bse.c:654).                                                    *)
SwapCompletes == <>RoomToWait => <>[]Arrived

(* "When the owner vacates (its own exchange moves it), the approach       *)
(* completes" (bse.h:229): whatever the skew of the scripts.               *)
ApproachCompletes == <>[]Arrived
=============================================================================
