----------------------------- MODULE SerialLink -----------------------------
(***************************************************************************)
(* The receiving end of the two serial transceivers, byte by byte as their *)
(* interrupt handlers see it: the shared bus of transceiver_uart.c and the *)
(* link to the nRF51 of transceiver_syslink_p2p.c.  One element listens;   *)
(* transmissions, its own among them on the bus, pass one after another,   *)
(* back to back or after a silence, and some are damaged or cut short.     *)
(*                                                                         *)
(* A byte is a value and, for a checksum byte, what was summed; no other   *)
(* byte is ever taken for a checksum, so a sum that fits is the frame's.   *)
(* The port and the RSSI that precede a frame on syslink are taken as its  *)
(* first bytes; fact frames, on a port and in a queue of their own, are    *)
(* left out.                                                               *)
(***************************************************************************)
EXTENDS Integers, Sequences

CONSTANTS
    Payloads,     \* what peers send, each of length Wire
    Odd,          \* the payloads that no link but the bus carries here: at least
                  \* those in which a preamble can be read
    OwnPayload,   \* what this element sends
    Wire,         \* TAPESTRY_GOSSIP_WIRE_SIZE
    Mtu,          \* UART_BUS_MTU
    MaxByte,      \* bound: a byte is 0..MaxByte
    Depth,        \* RX_QUEUE_DEPTH
    EchoDepth,    \* ECHO_RING_DEPTH
    MaxFaults     \* bound: damaged transmissions

Magic0 == 5
Magic1 == 6
P2P    == 4       \* SYSLINK_RADIO_P2P_BROADCAST

ASSUME SerialAssumption ==
    /\ {Wire, Mtu, MaxByte} \subseteq Nat
    /\ Wire \in 1..Mtu /\ Mtu < MaxByte /\ MaxByte >= Magic1 + 2
    /\ Payloads \cup {OwnPayload} \subseteq [1..Wire -> 0..MaxByte]
    /\ OwnPayload \notin Payloads /\ Odd \subseteq Payloads
    /\ \A payload \in Payloads \ Odd :
          LET bytes == <<Wire>> \o payload
          IN \A i \in 1..Wire : ~(bytes[i] = Magic0 /\ bytes[i + 1] = Magic1)
    /\ Depth \in Nat \ {0} /\ EchoDepth \in Nat \ {0} /\ MaxFaults \in Nat

VARIABLES
    bus,      \* "UART" or "SYSLINK"
    wire,     \* the bytes of the current transmission still to come
    parser,   \* g_state, g_type, g_len, the bytes summed, g_cka
    silent,   \* more than FRAME_GAP_MS since the last byte
    echo,     \* g_echo: payloads sent, and whether within ECHO_WINDOW_MS
    rxq,      \* uart_rx_msgq or rx_msgq
    passing,  \* history: of what passes, whether it is whole and follows a silence
    fate,     \* history: what became of it: "PASSING", "QUEUED", "ECHO", "FULL"
    missed,   \* history: whole transmissions in a row that were not heard
    faults

serialVars == <<bus, wire, parser, silent, echo, rxq, passing, fate, missed, faults>>

Plain(v)   == [v |-> v, of |-> <<>>]
Check(sum, v) == [v |-> v, of |-> sum]

(* bus_send and syslink_send: preamble, head, payload, two check bytes,    *)
(* the last of which may look like the first of a preamble.                *)
Head_(kind) == IF kind = "UART" THEN <<Wire>> ELSE <<P2P, Wire>>

Framed(kind, payload, last) ==
    LET sum == Head_(kind) \o payload
    IN <<Plain(Magic0), Plain(Magic1)>> \o [i \in 1..Len(sum) |-> Plain(sum[i])]
          \o <<Check(<<"A">> \o sum, 0), Check(<<"B">> \o sum, last)>>

Hunting == [at |-> "MAGIC1", type |-> 0, len |-> 0, sum |-> <<>>, cka |-> <<>>]

-----------------------------------------------------------------------------
(* bus_rx_byte and syslink_rx_byte *)

(* A gap longer than a frame abandons what was being parsed, on the bus    *)
(* only.  Variant: it does not.                                            *)
NeverResynced(p, gap) == p
Resynced(p, gap) == IF gap /\ bus = "UART" THEN Hunting ELSE p

(* A second first byte of the preamble keeps the bus parser armed.         *)
AfterMagic1(p, b) ==
    IF b.v = Magic1 THEN [Hunting EXCEPT !.at = IF bus = "UART" THEN "LEN" ELSE "TYPE"]
    ELSE IF bus = "UART" /\ b.v = Magic0 THEN p ELSE Hunting

(* A length the bus cannot have is garbage; syslink takes any.             *)
AfterLen(p, b) ==
    IF bus = "UART" /\ (b.v = 0 \/ b.v > Mtu) THEN Hunting
    ELSE [p EXCEPT !.len = b.v, !.sum = Append(@, b.v),
                   !.at = IF b.v = 0 THEN "CKA" ELSE "DATA"]

Collected(p) == Len(p.sum) - (IF bus = "UART" THEN 1 ELSE 2)

AfterData(p, b) ==
    LET q == [p EXCEPT !.sum = Append(@, b.v)]
    IN IF Collected(q) >= p.len THEN [q EXCEPT !.at = "CKA"] ELSE q

Parsed(p, b) ==
    CASE p.at = "MAGIC1" -> IF b.v = Magic0 THEN [p EXCEPT !.at = "MAGIC2"] ELSE p
      [] p.at = "MAGIC2" -> AfterMagic1(p, b)
      [] p.at = "TYPE"   -> [p EXCEPT !.type = b.v, !.sum = <<b.v>>, !.at = "LEN"]
      [] p.at = "LEN"    -> AfterLen(p, b)
      [] p.at = "DATA"   -> AfterData(p, b)
      [] p.at = "CKA"    -> [p EXCEPT !.cka = b.of, !.at = "CKB"]
      [] p.at = "CKB"    -> Hunting

(* The last byte of a frame that adds up. *)
Complete(p, b) ==
    p.at = "CKB" /\ p.cka = <<"A">> \o p.sum /\ b.of = <<"B">> \o p.sum

Body(p) == LET data == SubSeq(p.sum, Len(p.sum) - p.len + 1, Len(p.sum))
           IN SubSeq(data, 1, Wire)

(* What is not a gossip frame, by type or by length, is not queued.        *)
Gossip(p) == IF bus = "UART" THEN p.len = Wire ELSE p.type = P2P /\ p.len >= Wire

EchoMatch(p) == \E i \in DOMAIN echo : echo[i].of = Body(p) /\ echo[i].recent

-----------------------------------------------------------------------------
(* Sending.  The echo is recorded before the first byte leaves.  Variant:  *)
(* after the last, too late for a frame that is clocked back meanwhile.    *)
EchoAfter(ring, payload) == ring
EchoRecorded(ring, payload) ==
    LET all == <<[of |-> payload, recent |-> TRUE]>> \o ring
    IN SubSeq(all, 1, IF Len(all) > EchoDepth THEN EchoDepth ELSE Len(all))

Passing(payload) ==
    /\ wire = <<>>
    /\ \E last \in IF bus = "UART" THEN {0, Magic0} ELSE {0} :
           wire' = Framed(bus, payload, last)
    /\ passing' = [whole |-> TRUE, after |-> silent]
    /\ fate' = "PASSING"
    /\ UNCHANGED <<bus, parser, silent, rxq, missed, faults>>

PeerSends(payload) ==
    /\ bus = "SYSLINK" => payload \notin Odd
    /\ Passing(payload)
    /\ UNCHANGED echo

OwnSends ==
    /\ bus = "UART"
    /\ Passing(OwnPayload)
    /\ echo' = EchoRecorded(echo, OwnPayload)

(* A byte arrives, damaged or not; the handler parses it.                  *)
Arrives(b) ==
    LET p    == Resynced(parser, silent)
        kept == Complete(p, b) /\ Gossip(p)
        mine == bus = "UART" /\ EchoMatch(p)
        over == Tail(wire) = <<>>
        end  == IF ~kept THEN fate
                ELSE IF mine THEN "ECHO"
                ELSE IF Len(rxq) < Depth THEN "QUEUED" ELSE "FULL"
    IN /\ parser' = Parsed(p, b)
       /\ rxq' = IF kept /\ ~mine /\ Len(rxq) < Depth THEN Append(rxq, Body(p)) ELSE rxq
       /\ fate' = end
       /\ missed' = IF ~over \/ ~passing'.whole THEN missed
                    ELSE IF end = "PASSING" THEN missed + 1 ELSE 0
       /\ wire' = Tail(wire)
       /\ silent' = FALSE
       /\ UNCHANGED <<bus, echo>>

Byte == wire # <<>> /\ UNCHANGED <<passing, faults>> /\ Arrives(Head(wire))

Damaged ==
    /\ wire # <<>> /\ faults < MaxFaults
    /\ faults' = faults + 1
    /\ passing' = [passing EXCEPT !.whole = FALSE]
    /\ \E v \in 0..MaxByte : v # Head(wire).v /\ Arrives(Plain(v))

(* The sender stops in mid-frame. *)
CutShort ==
    /\ wire # <<>> /\ faults < MaxFaults
    /\ faults' = faults + 1
    /\ passing' = [passing EXCEPT !.whole = FALSE]
    /\ wire' = <<>>
    /\ UNCHANGED <<bus, parser, silent, echo, rxq, fate, missed>>

(* Nothing is sent for a while, or for so long that no echo is recent.     *)
Silence ==
    /\ wire = <<>> /\ silent' = TRUE
    /\ echo' \in {echo, [i \in DOMAIN echo |-> [echo[i] EXCEPT !.recent = FALSE]]}
    /\ UNCHANGED <<bus, wire, parser, rxq, passing, fate, missed, faults>>

(* uart_bus_rx and syslink_rx *)
Receive ==
    /\ rxq # <<>> /\ rxq' = Tail(rxq)
    /\ UNCHANGED <<bus, wire, parser, silent, echo, passing, fate, missed, faults>>

SerialInit ==
    /\ bus \in {"UART", "SYSLINK"}
    /\ wire = <<>> /\ parser = Hunting /\ silent = TRUE /\ echo = <<>> /\ rxq = <<>>
    /\ passing = [whole |-> FALSE, after |-> FALSE]
    /\ fate = "PASSING" /\ missed = 0 /\ faults = 0

SerialNext ==
    \/ Byte \/ Damaged \/ CutShort \/ Silence \/ Receive \/ OwnSends
    \/ \E payload \in Payloads : PeerSends(payload)

SerialSpec == SerialInit /\ [][SerialNext]_serialVars

-----------------------------------------------------------------------------
(* On the bus a frame that passes whole after a silence is heard, whatever *)
(* was damaged before it: it is queued, or the queue is full, or it is the *)
(* element's own (FRAME_GAP_MS).                                           *)
BusHears ==
    bus = "UART" /\ wire = <<>> /\ passing.whole /\ passing.after => fate # "PASSING"

(* On syslink, which waits out any length, a phantom frame takes with it   *)
(* the frames it reaches into, and no more in a row for each glitch ("one  *)
(* glitch silently eats several good frames", transceiver_uart.c), as long *)
(* as no frame's own bytes look like a preamble.                           *)
Reach == LET length == Wire + 6 IN (MaxByte + 2 + length - 1) \div length

GlitchesEatFew == bus = "SYSLINK" => missed <= Reach * faults

(* "An element hears its own transmission, which the rest of the stack     *)
(* does not expect": what is queued was sent whole by a peer.              *)
PeersQueued == \A i \in DOMAIN rxq : rxq[i] \in Payloads

(* What the link promises the gossip layer. *)
FramesGetThrough == BusHears /\ GlitchesEatFew /\ PeersQueued
=============================================================================
