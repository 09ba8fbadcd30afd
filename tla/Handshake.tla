------------------------------ MODULE Handshake ------------------------------
(***************************************************************************)
(* How the Crazyflie's link to its radio processor comes up                *)
(* (transceiver_syslink_p2p.c): the nRF51 sends nothing before it has been *)
(* sent something, applies and echoes the channel, and reports the battery *)
(* once it has been asked.  After a cold power-up it is still booting when *)
(* syslink_init() runs, and what it is sent then is gone; messages are     *)
(* lost afterwards too.  A tick is SYSLINK_HANDSHAKE_RETRY_MS.             *)
(***************************************************************************)
EXTENDS Naturals

CONSTANTS
    Tries,      \* SYSLINK_HANDSHAKE_TRIES
    KickEvery,  \* PM_AUTOUPDATE_RETRY_MS in ticks
    MaxBoot,    \* bound: ticks the nRF51 takes to boot
    MaxLost     \* bound: messages lost after that

ASSUME HandshakeAssumption ==
    Tries \in Nat \ {0} /\ KickEvery \in Nat \ {0} /\ MaxBoot \in Nat /\ MaxLost \in Nat

VARIABLES
    booting,    \* ticks until the nRF51 listens
    tries,
    handshake,  \* handshake_work is scheduled
    kick,       \* ticks until pm_kick_fn runs, Off when it does not again
    chanOk,     \* g_chan_ok
    chanSet,    \* the nRF51 has applied the channel
    vbat,       \* cf21bl_pm_vbat() > 0: a battery packet has come
    reporting,  \* the nRF51 sends battery packets
    wasted,     \* history: messages lost after the nRF51 has booted
    late        \* history: messages sent before it had

handshakeVars == <<booting, tries, handshake, kick, chanOk, chanSet, vbat, reporting,
                   wasted, late>>

Off == KickEvery + 1

HandshakeInit ==
    /\ booting \in 0..MaxBoot
    /\ tries = 0 /\ handshake = TRUE /\ kick = 0
    /\ chanOk = FALSE /\ chanSet = FALSE /\ vbat = FALSE /\ reporting = FALSE
    /\ wasted = 0 /\ late = 0

(* handshake_fn goes on until the echo has come or the tries are used up.  *)
(* Variant: it is run once, as when the message was sent inline.           *)
AgainOnce == tries = 0
Again == ~chanOk /\ tries < Tries

(* A message is sent; it and its echo arrive if the nRF51 has booted and   *)
(* neither is lost.                                                        *)
Channel(there, back) ==
    /\ handshake' = Again
    /\ tries' = IF chanOk THEN tries ELSE tries + 1
    /\ IF handshake /\ Again
       THEN /\ chanSet' = (chanSet \/ (booting = 0 /\ there))
            /\ chanOk' = (chanOk \/ (booting = 0 /\ there /\ back))
            /\ wasted' = IF booting = 0 /\ ~(there /\ back) THEN wasted + 1 ELSE wasted
            /\ late' = IF booting > 0 THEN late + 1 ELSE late
       ELSE UNCHANGED <<chanSet, chanOk, wasted, late>>

(* pm_kick_fn: without a bound, until a packet has come. *)
Kick(there) ==
    /\ kick' = IF kick = Off \/ (kick = 0 /\ vbat) THEN Off
               ELSE IF kick = 0 THEN KickEvery - 1 ELSE kick - 1
    /\ reporting' = (reporting \/ (kick = 0 /\ ~vbat /\ booting = 0 /\ there))

Tick250(there, back, asked, heard) ==
    /\ IF handshake THEN Channel(there, back)
       ELSE UNCHANGED <<tries, handshake, chanOk, chanSet, wasted, late>>
    /\ Kick(asked)
    /\ vbat' = (vbat \/ (reporting /\ heard))
    /\ booting' = IF booting > 0 THEN booting - 1 ELSE 0

HandshakeNext ==
    \E there, back, asked, heard \in BOOLEAN :
        /\ wasted = MaxLost => there /\ back
        /\ Tick250(there, back, asked, heard)

HandshakeSpec == HandshakeInit /\ [][HandshakeNext]_handshakeVars

(* Of the requests for the battery one gets through, and a packet later.   *)
Asked    == kick = 0 /\ Tick250(TRUE, TRUE, TRUE, TRUE)
Reported == Tick250(TRUE, TRUE, TRUE, TRUE)

-----------------------------------------------------------------------------
(* "This resends until the echo arrives rather than guessing at a safe     *)
(* boot delay": once begun, the channel is confirmed unless as many        *)
(* messages were wasted as there are tries, and the battery is reported,   *)
(* however late the nRF51 boots.                                           *)
LinkComesUp == tries > 0 ~> vbat /\ (chanOk \/ wasted + late >= Tries)
=============================================================================
