----------------------------- MODULE MCRoomPage -----------------------------
(* A page opened while a short song plays, with a song of unknown length   *)
(* next, or that and the first one again.                                  *)
EXTENDS RoomPage

CONSTANTS s1, s2, host, guest

MCDuration == [s \in Song |-> IF s = s1 THEN 2 ELSE 0]
MCPos == {0, 2}
NextIsSecond == <<Fresh(s2)>>
NextAreBoth == <<Fresh(s2), Fresh(s1)>>

=============================================================================
