----------------------------- MODULE MCRoomEnd -----------------------------
(* A room that is advanced by two requests at a time, in which songs end   *)
(* as soon as their slack lets them.                                       *)
EXTENDS Room

CONSTANTS s1, s2, host, guest, r1, r2

MCDuration == [s \in Song |-> 1]

(* A song is only added while nothing else but reports is under way.       *)
AddsApart ==
    \A r \in Busy : req[r].kind = "add" => \A q \in Busy \ {r} : req[q].after # NoSong

=============================================================================
