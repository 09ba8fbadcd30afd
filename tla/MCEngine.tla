----------------------------- MODULE MCEngine -----------------------------
(***************************************************************************)
(* The runtime of one element; its behaviour engine, in scenes; a swarm    *)
(* that forms a shape; two elements that change places.  They share no     *)
(* state, so a behaviour is one of them alone (under), and the states to   *)
(* explore are a sum and not a product.                                    *)
(***************************************************************************)
EXTENDS Runtime, Bse, Formation, MCExchange

VARIABLE under

engineVars == <<under, runtimeVars, bseVars, formationVars, swapVars>>

Shapes == <<<<0>>, <<-2, 2>>, <<-2, 0, 2>>>>
Fence  == <<0, 4>>

Charge  == (1 :> 2 @@ 2 :> 1 @@ 3 :> 1)
MarksAt == (1 :> 0 @@ 2 :> 6)

goal(type, target) == [Idle EXCEPT !.type = type, !.target = target]
about(type, anchor) == [goal(type, 0) EXCEPT !.frame = "ELEMENT", !.anchor = anchor]

(* A leader is the element or a participant; without quorum there is none. *)
Ledby(see) == {None, Me} \cup {i \in Others : see[i] = "FRESH" /\ i \notin Untrusted}

Views(ats, sees, tracks, marks) ==
    UNION {{[at |-> spots, see |-> see, track |-> [i \in Others |-> t], leader |-> l,
             marks |-> m] : spots \in ats, t \in tracks, l \in Ledby(see), m \in marks} :
           see \in sees}

Still3 == {(1 :> 0 @@ 2 :> 2 @@ 3 :> 6)}

(* Anchors: nobody moves; leaders, peers and landmarks come and go. *)
AnchorScene ==
    [intents |-> {about("CONVERGE", "LEADER"), about("CONVERGE", "LOWEST_ENERGY"),
                  about("FORM", "LEADER")},
     interrupts |-> {goal("HOLD", 0)}, tracks |-> {0},
     views |-> Views(Still3, [Others -> {"FRESH", "DEPARTED"}], {0}, {{}})]

LandmarkScene ==
    [intents |-> {about("CONVERGE", "LANDMARK"),
                  [about("FORM", "LANDMARK") EXCEPT !.rank = 1, !.spin = TRUE]},
     interrupts |-> {goal("HOLD", 0)}, tracks |-> {0},
     views |-> Views(Still3, {[i \in Others |-> "FRESH"]}, {0}, SUBSET Marks)]

(* Stations: the element moves about; one peer stays, the other is away. *)
StationScene ==
    [intents |-> {goal("HOLD", 0), goal("MOVE", 4), goal("CONVERGE", 0), goal("EXCHANGE", 0),
                  [goal("EXCHANGE", 0) EXCEPT !.direct = TRUE], goal("DISPERSE", 0)},
     interrupts |-> {goal("HOLD", 0), goal("CONVERGE", 3)}, tracks |-> {0, 1},
     views |-> {v \in Views({(1 :> 1 @@ 2 :> p @@ 3 :> 6) : p \in 0..4},
                            {(1 :> s @@ 3 :> "GONE") : s \in {"FRESH", "STALE"}}, {1}, {{}}) :
                v.leader = None}]

AllScenes == [ANCHORS |-> AnchorScene, LANDMARKS |-> LandmarkScene, STATIONS |-> StationScene]

(* Everything but what the behaviour is of stays as it is. *)
EngineInit ==
    /\ under \in {"RUNTIME", "ENGINE", "FORM", "EXCHANGE"}
    /\ RuntimeInit /\ BseInit /\ FormationInit /\ SwapInit
    /\ under # "FORM" => at = FormSlots
    /\ under # "ENGINE" => scene = "ANCHORS" /\ view.leader = None
                            /\ \A i \in Others : view.see[i] = "FRESH"

InRuntime  == under = "RUNTIME" /\ UNCHANGED <<under, bseVars, formationVars, swapVars>>
InEngine   == under = "ENGINE" /\ UNCHANGED <<under, runtimeVars, formationVars, swapVars>>
InForm     == under = "FORM" /\ UNCHANGED <<under, runtimeVars, bseVars, swapVars>>
InExchange == under = "EXCHANGE" /\ UNCHANGED <<under, runtimeVars, bseVars, formationVars>>

EngineNext ==
    \/ InRuntime /\ RuntimeNext
    \/ InEngine /\ BseNext
    \/ InForm /\ FormationNext
    \/ InExchange /\ SwapNext

(* The application calls the tick; the elements drive, and their frames    *)
(* get through; every script comes to the exchange.                        *)
EngineSpec ==
    /\ EngineInit /\ [][EngineNext]_engineVars
    /\ WF_runtimeVars(under = "RUNTIME" /\ Tick)
    /\ \A i \in Team : /\ WF_formationVars(under = "FORM" /\ Drive(i))
                       /\ \A j \in Team : WF_formationVars(under = "FORM" /\ HearOf(i, j))
    /\ \A i \in Pair : /\ WF_swapVars(under = "EXCHANGE" /\ Capture(i))
                       /\ WF_swapVars(under = "EXCHANGE" /\ Track(i))
                       /\ \A j \in Pair : WF_swapVars(under = "EXCHANGE" /\ HearFrom(i, j))
=============================================================================
