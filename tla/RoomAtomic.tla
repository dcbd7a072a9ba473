----------------------------- MODULE RoomAtomic -----------------------------
(***************************************************************************)
(* What the API promises of a room: every operation takes effect on the    *)
(* room as it is, all at once, at some time not later than now, and for    *)
(* somebody who is entitled to it.                                         *)
(***************************************************************************)
EXTENDS RoomOps

CONSTANT MaxBatch

VARIABLES room, now

(* What anybody may do.                                                    *)
FreeOp ==
    \/ \E song \in Song : CanAdd(room, song) /\ room' = Add(room, song)
    \/ \E n \in 1..MaxBatch : \E songs \in [1..n -> Song] :
         \E kept \in InOrder(Kept(room, songs)) : room' = AddBatch(room, songs, kept)
    \/ \E user \in User, i \in DOMAIN room.queue : room' = Vote(room, i, user)
    \/ \E user \in User : CanJoin(room, user) /\ room' = Join(room, user)

(* What takes the right to control playback, or a song that has ended.     *)
PlaybackOp(user, t) ==
    \/ \E after \in Song \cup {NoSong} :
         CanNext(room, user, after, t) /\ room' = Advance(room, t)
    \/ /\ MayControl(room, user)
       /\ \/ \E i \in DOMAIN room.queue : room' = Delete(room, i)
          \/ \E song \in Song : room' = PlayNow(room, song, t)
          \/ \E action \in {"play", "pause", "seek"}, pos \in Pos :
               room' = Playback(room, action, pos, t)

(* What only the host may do.                                              *)
HostOp ==
    \/ \E everyone \in BOOLEAN : room' = Control(room, everyone)
    \/ \E target \in User : CanRemove(Host, target) /\ room' = RemoveUser(room, target)

(* An operation for which the authority of the users in `by` suffices.     *)
Operate(by) ==
    /\ \/ FreeOp
       \/ \E user \in by, t \in 0..now : PlaybackOp(user, t)
       \/ Host \in by /\ HostOp
    /\ UNCHANGED now

=============================================================================
