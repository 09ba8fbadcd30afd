------------------------------- MODULE MCCsm -------------------------------
(***************************************************************************)
(* L4's two halves in one run: the world model of one element, and the     *)
(* facts its swarm shares.  They share no state, so a behaviour is one of  *)
(* them alone (under), and the states to explore are a sum.                *)
(***************************************************************************)
EXTENDS Facts, WorldModel

VARIABLE under

csmVars == <<under, vars, factsVars>>

target(p, i) == [type |-> "TARGET", prio |-> p, immutable |-> i]

PlainTarget == {target(0, FALSE)}
TwoKinds    == {target(0, FALSE), target(1, TRUE)}

CsmInit ==
    /\ under \in {"PEERS", "FACTS"}
    /\ Init /\ FactsInit
    /\ under # "FACTS" => \A e \in Elements : epoch[e] = 1

InFacts == under = "FACTS" /\ UNCHANGED <<under, vars>>

CsmNext ==
    \/ under = "PEERS" /\ Next /\ UNCHANGED <<under, factsVars>>
    \/ InFacts /\ FactsNext

CsmSpec ==
    /\ CsmInit /\ [][CsmNext]_csmVars
    /\ \A d, e \in Elements : WF_factsVars(InFacts /\ Teach(d, e))

(* The facts by themselves, the elements' loops in step. *)
BounceSpec == /\ CsmInit /\ [][InFacts /\ LockstepNext]_csmVars
              /\ WF_factsVars(InFacts /\ FactTick(Elements))
              /\ WF_factsVars(InFacts /\ Exchange)
=============================================================================
