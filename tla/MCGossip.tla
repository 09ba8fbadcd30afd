------------------------------ MODULE MCGossip ------------------------------
(***************************************************************************)
(* What gossip.c and transport.c do that is not in WorldModel or Facts:    *)
(* relayed gossip, directives, and the negotiation of identifiers.  They   *)
(* share no state, so a behaviour is one of the three alone (under), and   *)
(* the states to explore are a sum and not a product.                      *)
(***************************************************************************)
EXTENDS Relay, Directive, AutoId

VARIABLE under

vars == <<under, relayVars, directiveVars, autoIdVars>>

linked(links) == [e \in Elements |-> {n \in Elements : {e, n} \in links}]

(* Who hears whom: a line, where frames echo between neighbours and run    *)
(* out of hops before the far end.                                         *)
Line == linked({{1, 2}, {2, 3}, {3, 4}, {4, 5}})

(* Those that join are numbered by their nonces. *)
nonces0 == [e \in Joiners |-> e]

Init ==
    /\ under \in {"RELAY", "DIRECTIVES", "IDENTIFIERS"}
    /\ RelayInit /\ DirectiveInit /\ AutoIdInit

Next ==
    /\ UNCHANGED under
    /\ \/ under = "RELAY" /\ RelayNext /\ UNCHANGED <<directiveVars, autoIdVars>>
       \/ under = "DIRECTIVES" /\ DirectiveNext /\ UNCHANGED <<relayVars, autoIdVars>>
       \/ under = "IDENTIFIERS" /\ AutoIdNext /\ UNCHANGED <<relayVars, directiveVars>>

(* Joining: time passes (what is asked is only about behaviours in which   *)
(* rounds lose nothing in the end); preparations end; the retry interval   *)
(* elapses.                                                                *)
Spec ==
    /\ Init /\ [][Next]_vars
    /\ WF_autoIdVars(under = "IDENTIFIERS" /\ Round({}))
    /\ \A e \in Joiners :
           /\ WF_autoIdVars(under = "IDENTIFIERS" /\ Ready(e))
           /\ WF_autoIdVars(under = "IDENTIFIERS" /\ Renegotiate(e))
=============================================================================
