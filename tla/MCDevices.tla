----------------------------- MODULE MCDevices -----------------------------
(***************************************************************************)
(* Six small machines of the applications and drivers, side by side in one *)
(* run: the start barrier, the search, the odometry, the jump gate, the    *)
(* serial parsers and the handshake with the radio processor.  They share  *)
(* no state, so a behaviour is one of them alone (under), and the states   *)
(* to explore are a sum and not a product.                                 *)
(***************************************************************************)
EXTENDS Barrier, Finder, Odometer, FixGate, SerialLink, Handshake

VARIABLE under

vars == <<under, barrierVars, finderVars, odometerVars, gateVars, serialVars, handshakeVars>>

NonsenseReads == {-1, 20}

(* Frames of two bytes, one of them a preamble. *)
PeerPayloads == {<<Magic0, Magic1>>, <<1, 3>>}
PreambleLike == {<<Magic0, Magic1>>}
OwnFrame     == <<2, 2>>

Init ==
    /\ under \in {"BARRIER", "FINDER", "ODOMETER", "GATE", "SERIAL", "HANDSHAKE"}
    /\ BarrierInit /\ FinderInit /\ OdometerInit /\ GateInit
    /\ SerialInit /\ HandshakeInit
    /\ under # "ODOMETER" => baseline.set
    /\ under # "GATE" => place = 0
    /\ under # "SERIAL" => bus = "UART"
    /\ under # "HANDSHAKE" => booting = 0

InBarrier   == under = "BARRIER"
               /\ UNCHANGED <<under, finderVars, odometerVars, gateVars, serialVars, handshakeVars>>
InFinder    == under = "FINDER"
               /\ UNCHANGED <<under, barrierVars, odometerVars, gateVars, serialVars, handshakeVars>>
InOdometer  == under = "ODOMETER"
               /\ UNCHANGED <<under, barrierVars, finderVars, gateVars, serialVars, handshakeVars>>
InGate      == under = "GATE"
               /\ UNCHANGED <<under, barrierVars, finderVars, odometerVars, serialVars, handshakeVars>>
InSerial    == under = "SERIAL"
               /\ UNCHANGED <<under, barrierVars, finderVars, odometerVars, gateVars, handshakeVars>>
InHandshake == under = "HANDSHAKE"
               /\ UNCHANGED <<under, barrierVars, finderVars, odometerVars, gateVars, serialVars>>

Next ==
    \/ InBarrier   /\ BarrierNext
    \/ InFinder    /\ FinderNext
    \/ InOdometer  /\ OdometerNext
    \/ InGate      /\ GateNext
    \/ InSerial    /\ SerialNext
    \/ InHandshake /\ HandshakeNext

(* The robots' loops and timers run on; the radio is not silent for good;  *)
(* a request for the battery repeated for ever gets through at last.       *)
Spec ==
    /\ Init /\ [][Next]_vars
    /\ WF_barrierVars(under = "BARRIER" /\ CalmTick)
    /\ \A r \in Robots : WF_finderVars(under = "FINDER" /\ Hears(r))
    /\ SF_handshakeVars(under = "HANDSHAKE" /\ Asked)
    /\ WF_handshakeVars(under = "HANDSHAKE" /\ Reported)
=============================================================================
