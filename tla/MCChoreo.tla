------------------------------ MODULE MCChoreo ------------------------------
(* Values for the constants of Choreo. *)
EXTENDS Choreo

on(event, goto) == [event |-> event, goto |-> goto]

step(goal, untilAchieved, all, max, transitions, departure) ==
    [goal |-> goal, untilAchieved |-> untilAchieved, all |-> all, max |-> max,
     on |-> transitions, departure |-> departure]

(* A move all must complete, with a way to the hold at the end when quorum *)
(* is lost; a form that a world event cuts short; a timed hold.            *)
Show ==
    << step("MOVE", TRUE, TRUE, 2, <<on("QUORUM_LOST", 3), on("ACHIEVED", 2)>>, "HOLD"),
       step("MOVE", TRUE, FALSE, 1, <<on("WORLD", 4)>>, "RECALL"),
       step("HOLD", FALSE, FALSE, 1, <<>>, "UNSET") >>

(* Refused: nothing can end its step; goto beyond the end. *)
Stuck == << step("MOVE", FALSE, FALSE, 0, <<>>, "UNSET") >>
Astray == << step("MOVE", TRUE, FALSE, 1, <<on("WORLD", 3)>>, "UNSET") >>

(* Charge on a low battery, which has a way to give up; otherwise the      *)
(* brief show; and a track for hardware this element lacks, whose step is  *)
(* not checked.  The steps outlast the hold of a change of track.          *)
Charge == << step("CONVERGE", TRUE, FALSE, 3, <<>>, "HOLD"),
             step("HOLD", FALSE, FALSE, 1, <<>>, "CONTINUE") >>
Lift   == << step("FORM", FALSE, FALSE, 1, <<>>, "UNSET") >>
Brief  == << step("MOVE", TRUE, FALSE, 3, <<>>, "RECALL") >>
Top    == << step("CONVERGE", TRUE, FALSE, 1, <<>>, "UNSET") >>

track(caps, low, script) == [caps |-> caps, low |-> low, script |-> script]

Tracked  == {<<track(FALSE, FALSE, Lift), track(TRUE, TRUE, Charge), track(TRUE, FALSE, Brief)>>}
Tracking == {<<track(FALSE, FALSE, Lift), track(TRUE, TRUE, Charge)>>}  \* nothing for a full battery
AllShows == Tracked \cup {<<track(TRUE, TRUE, Top)>>}
NoTracks == {}

AllScripts == {Show, Stuck, Astray}
Bounded    == {Show}
=============================================================================
