----------------------------- MODULE Formation -----------------------------
(***************************************************************************)
(* A swarm in a FORM step: each element drives at the slot it computes for *)
(* itself from its own position and from where it last heard the others to *)
(* be.  Nothing is agreed by message.                                      *)
(***************************************************************************)
EXTENDS Slots

CONSTANTS
    Team,      \* 1..n, in the order of their identifiers
    Places,    \* where they may start
    Origin     \* the frame's origin

ASSUME FormationAssumption ==
    /\ Team = 1..Cardinality(Team) /\ Team # {} /\ Team \subseteq DOMAIN Layout
    /\ Places \subseteq Int /\ Origin \in Int
    /\ \A p, q \in Places : p..q \subseteq Places

VARIABLES
    at,       \* where each element is
    heard     \* heard[i][j]: where i last heard j to be

formationVars == <<at, heard>>

(* The FORM case of bse_tick, all participants known. *)
FormSlots ==
    LET n == Cardinality(Team)
    IN FitAxis([k \in 1..n |-> Origin + SlotOffset(k, n, FALSE)])

(* The slot each takes, for every view of where all are; a table, so that  *)
(* TLC computes it once. *)
Assignments ==
    {[view |-> seen,
      slots |-> Listed([i \in Team |-> FormSlots[AssignSlot(seen, FormSlots, i)]])] :
        seen \in [Team -> Places]}

(* Variant: everybody the nearest slot. *)
NearestSlot(i, seen) ==
    FormSlots[CHOOSE k \in DOMAIN FormSlots :
        \A l \in DOMAIN FormSlots :
            Dist(seen[i], FormSlots[k]) <= Dist(seen[i], FormSlots[l])]

OwnSlot(i, seen) == (CHOOSE a \in Assignments : a.view = seen).slots[i]

(* What i knows: the others as heard, itself as it is. *)
View(i) == [j \in Team |-> IF j = i THEN at[i] ELSE heard[i][j]]

FormationTypeOK ==
    /\ at \in [Team -> Int]
    /\ heard \in [Team -> [Team -> Int]]

FormationInit ==
    /\ at \in [Team -> Places]
    /\ heard = [i \in Team |-> at]

(* A tick of i and the way its tracker makes until the next. *)
Drive(i) ==
    /\ OwnSlot(i, View(i)) # at[i]
    /\ at' = [at EXCEPT ![i] = IF OwnSlot(i, View(i)) > @ THEN @ + 1 ELSE @ - 1]
    /\ UNCHANGED heard

(* A frame of j reaches i. *)
HearOf(i, j) ==
    /\ i # j /\ heard[i][j] # at[j]
    /\ heard' = [heard EXCEPT ![i][j] = at[j]]
    /\ UNCHANGED at

FormationNext == \E i \in Team : Drive(i) \/ \E j \in Team : HearOf(i, j)

FormationSpec ==
    /\ FormationInit /\ [][FormationNext]_formationVars
    /\ \A i \in Team : WF_formationVars(Drive(i))
    /\ \A i, j \in Team : WF_formationVars(HearOf(i, j))

-----------------------------------------------------------------------------
(* The assignment found is the cheapest there is, for every element's      *)
(* view, and gives every participant a slot of its own.                    *)
AssignmentIsBest ==
    \A i \in Team :
        LET taken == [p \in Team |-> OwnSlot(p, View(i))]
        IN /\ {taken[p] : p \in Team} = {FormSlots[k] : k \in DOMAIN FormSlots}
           /\ Total(View(i), taken) = LeastTotal(View(i), FormSlots)

(* Whatever the frames' delays, the swarm comes to stand in the shape, one *)
(* element in each slot.                                                   *)
ShapeFormed ==
    <>[]({at[i] : i \in Team} = {FormSlots[k] : k \in DOMAIN FormSlots})
=============================================================================
