------------------------------- MODULE AutoId -------------------------------
(***************************************************************************)
(* How elements that are switched on at any time take their identifiers    *)
(* (transport/transport.c): a window in which each broadcasts its hardware *)
(* nonce and collects the nonces of others and the identifiers of those    *)
(* already gossiping, then the rank-th identifier nobody claims.  One that *)
(* heard nobody stays grounded, gossips under the identifier it took, and  *)
(* opens another window from time to time (transport_negotiate_id_retry).  *)
(*                                                                         *)
(* Time goes in rounds, long enough for every element that transmits to do *)
(* so once; the radio lets any of the others hear it or not.  After its    *)
(* window an element prepares in silence before it gossips: the            *)
(* applications wait for a position fix and count down first.              *)
(* Stationary elements, which everybody leaves out, are left out here.     *)
(***************************************************************************)
EXTENDS Naturals, FiniteSets

CONSTANTS
    Joiners,   \* the elements
    Nonce,     \* [Joiners -> Nat]: hw_nonce, different for each
    MaxIds,    \* MAX_ELEMENTS
    Window,    \* TAPESTRY_AUTO_ID_WINDOW_MS in rounds
    MaxOffs    \* bound: power-offs in all

ASSUME AutoIdAssumption ==
    /\ IsFiniteSet(Joiners)
    /\ Nonce \in [Joiners -> Nat]
    /\ \A e, f \in Joiners : Nonce[e] = Nonce[f] => e = f
    /\ MaxIds \in Nat /\ MaxIds > 2 * Cardinality(Joiners)
    /\ Window \in Nat \ {0} /\ MaxOffs \in Nat

VARIABLES
    phase,     \* "OFF", "WINDOW", "RETRY", "SETUP" (decided, silent), "RUN"
    left,      \* rounds the window still has
    nonces,    \* peer_nonces[]
    claimed,   \* claimed[]
    id,        \* the identifier, None before the first window has ended
    total,     \* *n_total_out
    offs

autoIdVars == <<phase, left, nonces, claimed, id, total, offs>>

Ids == 0..(MaxIds - 1)
None == MaxIds

On      == {e \in Joiners : phase[e] # "OFF"}
Decided == {e \in Joiners : phase[e] \in {"SETUP", "RUN"}}

-----------------------------------------------------------------------------
(* The end of a window: the rank of the own nonce among those heard, and   *)
(* the identifier of that rank among the unclaimed.                        *)
Rank(e, heard) == Cardinality({n \in heard : n < Nonce[e]})

(* Variant: claims are not looked at. *)
PickIgnoringClaims(rank, taken) == rank

Pick(rank, taken) ==
    IF Cardinality(Ids \ taken) > rank
    THEN CHOOSE i \in Ids \ taken : Cardinality({j \in Ids \ taken : j < i}) = rank
    ELSE rank

(* n_total: oneself, the nonces and the claims. *)
Count(heard, taken) == Cardinality(heard) + 1 + Cardinality(taken)

(* A total that says that somebody else is there. *)
Company(n) == n >= 2

-----------------------------------------------------------------------------

AutoIdTypeOK ==
    /\ phase \in [Joiners -> {"OFF", "WINDOW", "RETRY", "SETUP", "RUN"}]
    /\ left \in [Joiners -> 0..Window]
    /\ \A e \in Joiners : nonces[e] \subseteq {Nonce[f] : f \in Joiners \ {e}}
    /\ claimed \in [Joiners -> SUBSET Ids]
    /\ id \in [Joiners -> Ids \cup {None}]
    /\ \A e \in Decided : id[e] # None /\ total[e] > 1
    /\ offs \in 0..MaxOffs

AutoIdInit ==
    /\ phase = [e \in Joiners |-> "OFF"]
    /\ left = [e \in Joiners |-> 0]
    /\ nonces = [e \in Joiners |-> {}]
    /\ claimed = [e \in Joiners |-> {}]
    /\ id = [e \in Joiners |-> None]
    /\ total = [e \in Joiners |-> 0]
    /\ offs = 0

(* transport_negotiate_id begins. *)
OpensWindow(e) ==
    /\ phase' = [phase EXCEPT ![e] = "WINDOW"]
    /\ left' = [left EXCEPT ![e] = Window]
    /\ nonces' = [nonces EXCEPT ![e] = {}]
    /\ claimed' = [claimed EXCEPT ![e] = {}]

PowerOn(e) ==
    /\ phase[e] = "OFF"
    /\ OpensWindow(e)
    /\ UNCHANGED <<id, total, offs>>

(* The jittered interval of transport_negotiate_id_retry has elapsed. *)
Renegotiate(e) ==
    /\ phase[e] = "RETRY"
    /\ OpensWindow(e)
    /\ UNCHANGED <<id, total, offs>>

(* The application is prepared and begins to gossip. *)
Ready(e) ==
    /\ phase[e] = "SETUP"
    /\ phase' = [phase EXCEPT ![e] = "RUN"]
    /\ UNCHANGED <<left, nonces, claimed, id, total, offs>>

PowerOff(e) ==
    /\ phase[e] # "OFF"
    /\ offs < MaxOffs
    /\ offs' = offs + 1
    /\ phase' = [phase EXCEPT ![e] = "OFF"]
    /\ left' = [left EXCEPT ![e] = 0]
    /\ nonces' = [nonces EXCEPT ![e] = {}]
    /\ claimed' = [claimed EXCEPT ![e] = {}]
    /\ id' = [id EXCEPT ![e] = None]
    /\ total' = [total EXCEPT ![e] = 0]

(* What e has heard in a round: nonces from those in their windows,        *)
(* identifiers from those that gossip.                                     *)
NoncesIn(h) == {Nonce[f] : f \in {g \in h : phase[g] = "WINDOW"}}
ClaimsIn(h) == {id[f] : f \in {g \in h : phase[g] \in {"RETRY", "RUN"}}}

(* In a window every identifier counts, the one taken before included: it  *)
(* is another's.  Variant: it is left out, as an echo of oneself.          *)
OthersClaimsIn(e, h) == ClaimsIn(h) \ {id[e]}
WindowClaims(e, h) == ClaimsIn(h)

(* A window ends with what the round h added to it; an element that is     *)
(* still alone keeps the identifier of its first window.                   *)
AfterWindow(e, h) ==
    LET heard == nonces[e] \cup NoncesIn(h)
        taken == claimed[e] \cup WindowClaims(e, h)
        n == Count(heard, taken)
        rank == Rank(e, heard)
    IN IF left[e] > 1
       THEN [phase |-> "WINDOW", id |-> id[e], total |-> total[e]]
       ELSE IF Company(n)
       THEN [phase |-> "SETUP", id |-> Pick(rank, taken), total |-> n]
       ELSE [phase |-> "RETRY", total |-> n,
             id |-> IF id[e] = None THEN Pick(rank, taken) ELSE id[e]]

(* The retry loop returns when somebody else is visible; frames with the   *)
(* own identifier do not count (transport_drain leaves them out).           *)
Visible(e, h) == ClaimsIn(h) \ {id[e]}

AfterRetry(e, h) ==
    IF Visible(e, h) = {}
    THEN [phase |-> "RETRY", id |-> id[e], total |-> total[e]]
    ELSE [phase |-> "SETUP", id |-> id[e], total |-> 1 + Cardinality(Visible(e, h))]

After(e, h) ==
    IF phase[e] = "WINDOW" THEN AfterWindow(e, h)
    ELSE IF phase[e] = "RETRY" THEN AfterRetry(e, h)
    ELSE [phase |-> phase[e], id |-> id[e], total |-> total[e]]

Listening == {e \in Joiners : phase[e] \in {"WINDOW", "RETRY"}}
Talking   == {e \in Joiners : phase[e] \in {"WINDOW", "RETRY", "RUN"}}

(* Who may tell whom something: beacons only matter in a window.           *)
Links ==
    {link \in Talking \X Listening :
        /\ link[1] # link[2]
        /\ phase[link[1]] = "WINDOW" => phase[link[2]] = "WINDOW"}

(* One round, in which the links in lost carry nothing. *)
Round(lost) ==
    LET inWindow == {e \in Joiners : phase[e] = "WINDOW"}
    IN \E hears \in {[e \in Joiners |-> {f \in On \ {e} : <<f, e>> \notin lost}]} :
       \E after \in {[e \in Joiners |-> After(e, hears[e])]} :
       /\ On # {}
       /\ phase' = [e \in Joiners |-> after[e].phase]
       /\ id' = [e \in Joiners |-> after[e].id]
       /\ total' = [e \in Joiners |-> after[e].total]
       /\ left' = [e \in Joiners |-> IF e \in inWindow THEN left[e] - 1 ELSE left[e]]
       /\ nonces' = [e \in Joiners |->
                        nonces[e] \cup IF e \in inWindow THEN NoncesIn(hears[e]) ELSE {}]
       /\ claimed' = [e \in Joiners |->
                        claimed[e] \cup IF e \in inWindow THEN WindowClaims(e, hears[e]) ELSE {}]
       /\ UNCHANGED offs

AutoIdNext ==
    \/ \E e \in Joiners : PowerOn(e) \/ Renegotiate(e) \/ Ready(e) \/ PowerOff(e)
    \/ \E lost \in SUBSET Links : Round(lost)

AutoIdSpec == AutoIdInit /\ [][AutoIdNext]_autoIdVars

(* The same over a radio that loses nothing. *)
LosslessNext ==
    \/ \E e \in Joiners : PowerOn(e) \/ Renegotiate(e) \/ Ready(e) \/ PowerOff(e)
    \/ Round({})

-----------------------------------------------------------------------------
(* Joiners that have heard the same swarm take different identifiers, and *)
(* none takes one that it has heard in use, through whatever losses, late  *)
(* starts and repeated windows; those that heard differently may collide.  *)
View(e) == <<nonces[e] \cup {Nonce[e]}, claimed[e]>>

EqualViewsDiffer ==
    \A e \in Decided :
        /\ id[e] \notin claimed[e]
        /\ \A f \in Decided \ {e} : View(e) = View(f) => id[e] # id[f]

(* Once the radio works for good and another element stays on, nobody      *)
(* stays grounded, not even two that took the same identifier while they   *)
(* could not hear each other (transport_negotiate_id_retry's two ways out).*)
IsolationResolves ==
    <>[][LosslessNext]_autoIdVars /\ <>[](Cardinality(On) > 1) => <>[](On \subseteq Decided)
=============================================================================
