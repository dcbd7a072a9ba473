------------------------------- MODULE MCRoom -------------------------------
(* Small instances of Room.  In each behaviour two requests at a time      *)
(* either fill and rank the queue, or advance it, or play, while somebody  *)
(* follows the queue or the song and the permission.                       *)
EXTENDS Room, TLC

CONSTANTS s1, s2, host, guest, r1, r2

VARIABLE focus

MCDuration == [s \in Song |-> 2]
MCPos == {1}
MCFollower == {{}} \cup {{p} : p \in Parts}

FocusInit ==
    /\ Init
    /\ \/ focus = "queue" /\ DOMAIN view = {}
       \/ focus = "next" /\ DOMAIN view # {}
       \/ focus = "playback" /\ DOMAIN view = {"state"}

FocusNext ==
    /\ \E r \in Req :
         \/ PlaybackControl(r) \/ Finishing(r)
         \/ focus = "queue" /\ Queueing(r)
         \/ focus = "next" /\ (AddQueueItem(r) \/ NextQueueItem(r))
         \/ focus = "playback" /\ (PlayNowSong(r) \/ PlaybackEvent(r))
    /\ UNCHANGED focus

FocusSpec == FocusInit /\ [][FocusNext]_<<vars, focus>>

(* What is advanced to is one song at a time, and what is played one song. *)
FocusBound ==
    LET all == Copies \cup {room} IN
    CASE focus = "queue" -> TRUE
      [] focus = "next" -> \A data \in all : Len(data.queue) <= 1
      [] focus = "playback" -> Cardinality({data.song : data \in all} \ {NoSong}) <= 1

Symmetry == Permutations(Req) \cup Permutations(Song)

=============================================================================
