----------------------------- MODULE Directive -----------------------------
(***************************************************************************)
(* Remote steering: a host streams directive frames (L3, gossip.c), the    *)
(* element filters them, the runtime hands the newest one of a poll to L7, *)
(* and L7 adopts the stream once it has been fresh long enough and drops   *)
(* it the moment it is stale (choreo.c).  The local behaviour engine goes  *)
(* on all the while and is not modelled here.                              *)
(*                                                                         *)
(* Time is counted in cycles.  The age counter is an unsigned integer that *)
(* nothing stops while no frame comes: it wraps, after Wrap cycles here.   *)
(***************************************************************************)
EXTENDS Naturals, Sequences, FiniteSets

CONSTANTS
    Hosts,        \* src_id of those that send
    MaxSeq,       \* bound: the largest sequence number used
    MaxReboots,     \* bound: restarts of the element
    MaxRestarts,  \* bound: restarts of hosts
    MaxPoll,      \* bound: frames received in one poll
    StaleTicks,   \* CHOREO_REMOTE_STALE_MS in cycles
    AdoptTicks,   \* CHOREO_REMOTE_ADOPT_HOLD_MS in cycles
    Wrap          \* 2^32 ms in cycles

ASSUME DirectiveAssumption ==
    /\ MaxSeq \in Nat \ {0} /\ MaxPoll \in Nat
    /\ MaxReboots \in Nat /\ MaxRestarts \in Nat
    /\ StaleTicks \in Nat \ {0}
    /\ AdoptTicks \in Nat /\ AdoptTicks > StaleTicks
    /\ Wrap \in Nat /\ Wrap > StaleTicks

(* What a frame is to this element: for it (its own identifier or ALL) and *)
(* of a known type, or else dropped before the filter looks at it.         *)
Kinds == {"MINE", "OTHERS"}
DirectiveFrame == [src: Hosts, seq: 1..MaxSeq, kind: Kinds]

VARIABLES
    hostSeq,   \* the last sequence number each host used
    sent,      \* the frames sent, which may arrive late, twice or never
    last,      \* s_dir_last_seq[], 0 while s_dir_seq_seen[] is false
    seen,      \* s_remote_seen
    age,       \* s_remote_age_ms
    streak,    \* s_remote_fresh_ms, which is only compared with AdoptTicks
    adopted,   \* s_remote_adopted
    life,      \* s_state of choreo.c
    reading,   \* the quorum the last tick found: "UP", "LOST"; "NONE" since
    quiet,     \* history: cycles since a frame was accepted, up to StaleTicks
    fed,       \* history: frames accepted since the stream was last stale, to 2
    wrapped,   \* history: the age went round since the stream was last stale
    taken,     \* history: the frames accepted in this life
    reboots, restarts

host == <<hostSeq, sent, restarts>>
remote == <<seen, age, streak, adopted>>
history == <<quiet, fed, wrapped, taken>>
directiveVars == <<host, last, remote, life, reading, history, reboots>>

-----------------------------------------------------------------------------
(* gossip_poll_directive: the frames of a poll pass the filter in turn.    *)

(* Variant: equal is new enough. *)
PassesReplay(l, f) == f.kind = "MINE" /\ f.seq >= l[f.src]
Passes(l, f) == f.kind = "MINE" /\ f.seq > l[f.src]

(* The table after the first n frames of a poll: the largest number of     *)
(* each host, whatever their order.                                        *)
TableAfter(s, n) ==
    [h \in Hosts |->
        LET mine == {i \in 1..n : s[i].src = h /\ s[i].kind = "MINE"}
            numbers == {last[h]} \cup {s[i].seq : i \in mine}
        IN CHOOSE m \in numbers : \A k \in numbers : k <= m]

(* The frames of a poll that pass, each the table as those before left it. *)
Accepted(s) == {i \in DOMAIN s : Passes(TableAfter(s, i - 1), s[i])}

(* remote_fresh, of an age. *)
FreshAt(isSeen, a) == isSeen /\ a < StaleTicks

(* choreo_remote_active *)
Active == adopted /\ FreshAt(seen, age) /\ life = "RUNNING"

(* remote_directive_tick, on what choreo_remote_directive left: a fresh    *)
(* stream earns its adoption, a stale one loses it and starts anew.        *)
(* Variant: a stale stream keeps what it had earned. *)

StreakKept(fresh) ==
    IF ~fresh THEN streak
    ELSE IF streak < AdoptTicks THEN streak + 1 ELSE streak

Streak(fresh) ==
    IF ~fresh THEN 0
    ELSE IF streak < AdoptTicks THEN streak + 1 ELSE streak

RemoteTick(got) ==
    LET isSeen == seen \/ got
        now == ((IF got THEN 0 ELSE age) + 1) % Wrap
        fresh == FreshAt(isSeen, now)
    IN /\ seen' = isSeen
       /\ age' = IF isSeen THEN now ELSE age
       /\ streak' = IF isSeen THEN Streak(fresh) ELSE streak
       /\ adopted' = IF ~isSeen THEN adopted
                     ELSE fresh /\ (adopted \/ Streak(fresh) >= AdoptTicks)

(* The quorum check of choreo_tick, on what scr_tick found. *)
Lifecycle ==
    life' = IF life = "RUNNING" /\ reading' = "LOST" THEN "SUSPENDED"
            ELSE IF life = "SUSPENDED" /\ reading' = "UP" THEN "RUNNING"
            ELSE life

-----------------------------------------------------------------------------

DirectiveTypeOK ==
    /\ hostSeq \in [Hosts -> 0..MaxSeq]
    /\ sent \subseteq DirectiveFrame
    /\ last \in [Hosts -> 0..MaxSeq]
    /\ seen \in BOOLEAN /\ adopted \in BOOLEAN
    /\ age \in 0..(Wrap - 1)
    /\ streak \in 0..AdoptTicks
    /\ life \in {"IDLE", "RUNNING", "SUSPENDED"}
    /\ reading \in {"NONE", "UP", "LOST"}

DirectiveInit ==
    /\ last = [h \in Hosts |-> 0]
    /\ seen = FALSE
    /\ age = 0
    /\ streak = 0
    /\ adopted = FALSE
    /\ life = "IDLE"
    /\ reading = "NONE"
    /\ quiet = StaleTicks
    /\ fed = 0
    /\ wrapped = FALSE
    /\ taken = {}
    /\ hostSeq = [h \in Hosts |-> 0]
    /\ sent = {}
    /\ reboots = 0
    /\ restarts = 0

(* gossip_send_directive of a host. *)
HostSends(h, kind) ==
    /\ hostSeq[h] < MaxSeq
    /\ hostSeq' = [hostSeq EXCEPT ![h] = @ + 1]
    /\ sent' = sent \cup {[src |-> h, seq |-> hostSeq[h] + 1, kind |-> kind]}
    /\ UNCHANGED <<restarts, last, remote, life, reading, history, reboots>>

(* A host restarts and, against wire.h's requirement, counts from the      *)
(* beginning.                                                              *)
HostRestarts(h) ==
    /\ restarts < MaxRestarts
    /\ restarts' = restarts + 1
    /\ hostSeq' = [hostSeq EXCEPT ![h] = 0]
    /\ UNCHANGED <<sent, last, remote, life, reading, history, reboots>>

(* One runtime tick: the poll received s, scr_tick found q.                *)
Tick(s, q) ==
    LET new == Accepted(s)
        got == new # {}
    IN /\ last' = TableAfter(s, Len(s))
       /\ RemoteTick(got)
       /\ reading' = q
       /\ Lifecycle
       /\ taken' = taken \cup {s[i] : i \in new}
       /\ quiet' = IF got THEN 1 ELSE IF quiet < StaleTicks THEN quiet + 1 ELSE quiet
       /\ wrapped' = IF seen /\ age' < age /\ ~got THEN TRUE
                     ELSE wrapped /\ age' < StaleTicks
       /\ fed' = IF ~got /\ quiet + 1 >= StaleTicks THEN 0
                 ELSE IF Cardinality(new) + fed > 2 THEN 2 ELSE Cardinality(new) + fed
       /\ UNCHANGED <<host, reboots>>

(* choreo_deploy and choreo_terminate, by the application. *)
Deploy ==
    /\ life = "IDLE"
    /\ life' = "RUNNING"
    /\ reading' = "NONE"
    /\ UNCHANGED <<host, last, remote, history, reboots>>

Terminate ==
    /\ life # "IDLE"
    /\ life' = "IDLE"
    /\ reading' = "NONE"
    /\ UNCHANGED <<host, last, remote, history, reboots>>

ElementReboots ==
    /\ reboots < MaxReboots
    /\ reboots' = reboots + 1
    /\ last' = [h \in Hosts |-> 0]
    /\ seen' = FALSE /\ age' = 0 /\ streak' = 0 /\ adopted' = FALSE
    /\ life' = "IDLE"
    /\ reading' = "NONE"
    /\ quiet' = StaleTicks /\ fed' = 0 /\ wrapped' = FALSE /\ taken' = {}
    /\ UNCHANGED host

Polls == UNION {[1..n -> sent] : n \in 0..MaxPoll}

DirectiveNext ==
    \/ \E h \in Hosts : HostRestarts(h) \/ \E kind \in Kinds : HostSends(h, kind)
    \/ \E s \in Polls, q \in {"UP", "LOST"} : Tick(s, q)
    \/ Deploy
    \/ Terminate
    \/ ElementReboots

DirectiveSpec == DirectiveInit /\ [][DirectiveNext]_directiveVars

-----------------------------------------------------------------------------
(* The remote directive steers only while frames are really arriving, even *)
(* when the age counter has gone round, because a wrapped counter looks    *)
(* fresh for less time than adoption takes; and only after more than one   *)
(* of them, save that the round may count for the first.  A tick that      *)
(* finds quorum lost never leaves a remote host steering, and one that     *)
(* finds it never holds back a stream already adopted.                     *)
SteersWhileFed ==
    /\ Active => quiet < StaleTicks /\ (fed > 1 \/ wrapped)
    /\ reading = "LOST" => ~Active
    /\ reading = "UP" /\ life # "IDLE" /\ adopted => Active

(* A repeated frame feeds nothing: the staleness clock is restarted only   *)
(* by a frame never taken before, and what is taken of a host is in the    *)
(* order of its numbers, however late, often or mixed frames arrive.       *)
Ticked == reading' # "NONE" /\ UNCHANGED host

ReplaysAreInert ==
    [][/\ \A f \in taken' \ taken : \A g \in taken : g.src = f.src => g.seq < f.seq
       /\ Ticked /\ seen /\ taken' = taken => age' = (age + 1) % Wrap]_directiveVars
=============================================================================
