-------------------------------- MODULE Room --------------------------------
(***************************************************************************)
(* One room in Redis and the handlers that change it: the REST handlers of *)
(* api/queue.go, api/playback.go, api/people.go, api/rooms.go and the      *)
(* playback events of ws/client_events.go.  Every one of them reads the    *)
(* whole room, changes its copy, writes the whole copy back and then       *)
(* announces what it wrote.  Nothing keeps two of them apart: the reads,   *)
(* writes and announcements of requests interleave.                        *)
(*                                                                         *)
(* A request that is refused, or that finds nothing to change, leaves no   *)
(* trace and is not modelled.                                              *)
(***************************************************************************)
EXTENDS RoomOps

CONSTANTS
    Req,          \* slots for requests
    MaxInFlight,  \* bound on the requests that overlap
    MaxClock,     \* bound on the clock
    MaxBatch,     \* bound on the songs of a batch
    Kinds,        \* the handlers a run exercises
    Follower      \* the parts of the room that a follower may follow

ASSUME BoundAssumption ==
    /\ IsFiniteSet(Req) /\ MaxInFlight \in Nat /\ MaxClock \in Nat
    /\ MaxBatch \in Nat

VARIABLES
    room,       \* the blob under room:<id>
    req,        \* what each request is about to do
    now,        \* the wall clock
    overtaken,  \* history: what others have saved over since a request read it
    view,       \* history: what a follower was last told of each part it follows
    news,       \* history: the request with the newest announcement of a part
    doubt,      \* history: the parts that announcements do not tell
    opened      \* history: the host has opened control to everyone

follower == <<view, news, doubt>>
vars == <<room, req, now, overtaken, follower, opened>>

Idle == [phase |-> "idle"]

(* Announcements: "queue:updated", "state:updated", the playback event     *)
(* itself, and "kicked".                                                   *)
Events == {"queue", "state", "play", "pause", "seek", "kicked"}

(* What a page keeps of the first two, and takes from nothing else: play,  *)
(* pause and seek move its player and leave the room it shows alone.       *)
Parts == {"queue", "state"}

Part(p, data) == IF p = "queue" THEN <<data.queue>> ELSE <<data.song, data.everyone>>

ASSUME FollowerAssumption == Follower \subseteq SUBSET Parts

Anchor(data) == <<data.song, data.playing, data.syncTime, data.updatedAt>>

Init ==
    /\ room = NewRoom(0)
    /\ req = [r \in Req |-> Idle]
    /\ now = 0
    /\ overtaken = [r \in Req |-> {}]
    /\ \E parts \in Follower : /\ view = [p \in parts |-> Part(p, NewRoom(0))]
                               /\ news = [p \in parts |-> {}]
    /\ doubt = {}
    /\ opened = FALSE

Busy == {r \in Req : req[r].phase # "idle"}

(* GetRoom, and the handler's work on its copy up to SaveRoom.  `by` holds *)
(* the user whose authority the handler has checked, if it checks any.     *)
Prepare(r, kind, by, copy, events, after) ==
    /\ kind \in Kinds
    /\ req[r].phase = "idle"
    /\ Cardinality(Busy) < MaxInFlight
    /\ req' = [req EXCEPT ![r] =
                 [phase |-> "saving", kind |-> kind, by |-> by, copy |-> copy,
                  events |-> events, after |-> after]]
    /\ opened' = (opened \/ (kind = "control" /\ by = {Host} /\ copy.everyone))
    /\ UNCHANGED <<room, now, overtaken, follower>>

Plainly(r, kind, by, copy, events) == Prepare(r, kind, by, copy, events, NoSong)

AddQueueItem(r) ==
    \E song \in Song :
        /\ CanAdd(room, song)
        /\ Plainly(r, "add", {}, Add(room, song), <<"queue">>)

AddQueueBatch(r) ==
    \E n \in 1..MaxBatch : \E songs \in [1..n -> Song] :
        \E kept \in InOrder(Kept(room, songs)) :
            Plainly(r, "batch", {}, AddBatch(room, songs, kept), <<"queue">>)

VoteQueueItem(r) ==
    \E user \in User, i \in DOMAIN room.queue :
        Plainly(r, "vote", {}, Vote(room, i, user), <<"queue">>)

DeleteQueueItem(r) ==
    \E user \in User, i \in DOMAIN room.queue :
        /\ MayControl(room, user)
        /\ Plainly(r, "delete", {user}, Delete(room, i), <<"queue">>)

NextSaysOnlyState(r) == \* mutant
    \E user \in User, after \in Song \cup {NoSong} :
        /\ CanNext(room, user, after, now)
        /\ Prepare(r, "next", {user}, Advance(room, now), <<"state">>, after)

NextQueueItem(r) ==
    \E user \in User, after \in Song \cup {NoSong} :
        /\ CanNext(room, user, after, now)
        /\ Prepare(r, "next", {user}, Advance(room, now), <<"state", "queue">>, after)

PlayNowSong(r) ==
    \E user \in User, song \in Song :
        /\ MayControl(room, user)
        /\ Plainly(r, "playNow", {user}, PlayNow(room, song, now), <<"state">>)

ControlByAnyone(r) == \* mutant
    \E user \in User, everyone \in BOOLEAN :
        Plainly(r, "control", {user}, Control(room, everyone), <<"state">>)

PlaybackControl(r) ==
    \E user \in User, everyone \in BOOLEAN :
        /\ user = Host
        /\ Plainly(r, "control", {user}, Control(room, everyone), <<"state">>)

PlaybackEvent(r) ==
    \E user \in User, action \in {"play", "pause", "seek"}, pos \in Pos :
        /\ MayControl(room, user)
        /\ Plainly(r, "event", {user}, Playback(room, action, pos, now), <<action>>)

JoinRoom(r) ==
    \E user \in User :
        /\ CanJoin(room, user)
        /\ Plainly(r, "join", {}, Join(room, user), <<>>)

RemoveFromRoom(r) ==
    \E user, target \in User :
        /\ CanRemove(user, target)
        /\ Plainly(r, "remove", {user}, RemoveUser(room, target), <<"kicked">>)

(* What a write means to the copies that others still hold...              *)
Overtakes(r) ==
    LET copy == req[r].copy
        what == {w \in {"room", "anchor"} :
                   IF w = "room" THEN copy # room ELSE Anchor(copy) # Anchor(room)}
    IN overtaken' = [q \in Req |-> IF q # r /\ req[q].phase = "saving"
                                    THEN overtaken[q] \cup what ELSE {}]

(* ... and to a follower: a part it will announce is news.  One that it    *)
(* changes and does not announce is in doubt, if the copy is out of date.  *)
Concerns(r) ==
    LET copy == req[r].copy
        told == DOMAIN view \cap ToSet(req[r].events)
        hidden == {p \in DOMAIN view \ told :
                     "room" \in overtaken[r] /\ Part(p, copy) # Part(p, room)}
    IN /\ news' = [p \in DOMAIN view |-> IF p \in told THEN {r} ELSE news[p]]
       /\ doubt' = (doubt \ told) \cup hidden
       /\ UNCHANGED view

(* SaveRoom: the whole blob is replaced by the copy.                       *)
Save(r) ==
    /\ req[r].phase = "saving"
    /\ room' = req[r].copy
    /\ req' = [req EXCEPT ![r] = IF @.events = <<>> THEN Idle ELSE [@ EXCEPT !.phase = "publishing"]]
    /\ Overtakes(r) /\ Concerns(r)
    /\ UNCHANGED <<now, opened>>

(* The write fails: the caller gets an error and nothing is announced.     *)
SaveFails(r) ==
    /\ req[r].phase = "saving"
    /\ req' = [req EXCEPT ![r] = Idle]
    /\ overtaken' = [overtaken EXCEPT ![r] = {}]
    /\ UNCHANGED <<room, now, follower, opened>>

Announced(r) ==
    LET left == Tail(req[r].events) IN
    req' = [req EXCEPT ![r] = IF left = <<>> THEN Idle ELSE [@ EXCEPT !.events = left]]

(* A follower hears of a part.  What comes after the newest announcement   *)
(* of it is older.                                                         *)
Hear(r, p) ==
    IF p \in DOMAIN view
    THEN /\ view' = [view EXCEPT ![p] = Part(p, req[r].copy)]
         /\ news' = [news EXCEPT ![p] = @ \ {r}]
         /\ doubt' = IF news[p] = {} THEN doubt \cup {p} ELSE doubt
    ELSE UNCHANGED follower

(* The next announcement of a request that has saved...                    *)
Publish(r) ==
    /\ req[r].phase = "publishing"
    /\ Hear(r, Head(req[r].events))
    /\ Announced(r)
    /\ UNCHANGED <<room, now, overtaken, opened>>

(* ... which is logged and forgotten if it fails.                          *)
PublishFails(r) ==
    /\ req[r].phase = "publishing"
    /\ LET lost == {p \in DOMAIN view : p = Head(req[r].events) /\ news[p] = {r}} IN
       /\ news' = [p \in DOMAIN view |-> IF p \in lost THEN {} ELSE news[p]]
       /\ doubt' = doubt \cup lost
    /\ Announced(r)
    /\ UNCHANGED <<room, now, overtaken, view, opened>>

Tick ==
    /\ now < MaxClock
    /\ now' = now + 1
    /\ UNCHANGED <<room, req, overtaken, follower, opened>>

Queueing(r) == AddQueueItem(r) \/ AddQueueBatch(r) \/ VoteQueueItem(r) \/ DeleteQueueItem(r)

Playing(r) == NextQueueItem(r) \/ PlayNowSong(r) \/ PlaybackControl(r) \/ PlaybackEvent(r)

Gathering(r) == JoinRoom(r) \/ RemoveFromRoom(r)

Finishing(r) == Save(r) \/ SaveFails(r) \/ Publish(r) \/ PublishFails(r)

Next ==
    \/ Tick
    \/ \E r \in Req : Queueing(r) \/ Playing(r) \/ Gathering(r) \/ Finishing(r)

Spec == Init /\ [][Next]_vars

-----------------------------------------------------------------------------
(* Properties.                                                             *)

Copies == {req[r].copy : r \in Busy}

Request ==
    [phase : {"saving", "publishing"}, kind : Kinds, by : SUBSET User, copy : RoomData,
     events : Seq(Events), after : Song \cup {NoSong}]

(* The stored room and every copy have their types, and no anchor lies in  *)
(* the future.                                                             *)
TypeOK ==
    /\ room \in RoomData
    /\ now \in Nat
    /\ req \in [Req -> {Idle} \cup Request]
    /\ \A r \in Req : req[r].phase = "publishing" => req[r].events # <<>>
    /\ \A copy \in Copies \cup {room} : copy.updatedAt <= now
    /\ overtaken \in [Req -> SUBSET {"room", "anchor"}]
    /\ DOMAIN view \in Follower /\ doubt \subseteq DOMAIN view
    /\ news \in [DOMAIN view -> SUBSET Req]
    /\ opened \in BOOLEAN

(* However requests overlap and whatever write is lost, no stored room and *)
(* no copy about to be stored has a song queued twice, a vote count other  *)
(* than the number of its voters, or a roster without the host.            *)
AlwaysWellFormed == \A copy \in Copies \cup {room} : WellFormed(copy)

(* ... nor a queue in which a song stands before one with more votes.      *)
AlwaysRanked == \A copy \in Copies \cup {room} : Ranked(copy.queue)

(* Moving the voted song to its place is a stable sort of the whole queue, *)
(* because every queue a handler can read is ranked.                       *)
VoteSortsStably ==
    \A i \in DOMAIN room.queue, user \in User :
        IsStableSort(Toggled(room, i, user), Vote(room, i, user).queue)

(* Stale writes may bring control for everyone back, but never before the  *)
(* host has once given it away.                                            *)
OpenedByHost == \A copy \in Copies \cup {room} : copy.everyone => opened

(* Once nothing is under way, whoever has applied every announcement knows *)
(* the queue, the song and the permission as they are stored, and has no   *)
(* need to fetch the room: unless the newest announcement of a part was    *)
(* lost or an older one came after it, or a copy that was out of date      *)
(* undid the part without a word.                                          *)
Settled == Busy = {} => \A p \in DOMAIN view \ doubt : view[p] = Part(p, room)

(* Only playback handlers move the playhead: adding, voting, the roster    *)
(* and the permission leave the song, its position and its anchor as they  *)
(* are stored, whatever else has been saved since the handler read the     *)
(* room, unless that moved the playhead.                                   *)
OnlyPlaybackMovesPlayhead ==
    [][\A r \in Req : Save(r) /\ req[r].kind \notin {"next", "playNow", "event"}
         => Anchor(room') = Anchor(room) \/ "anchor" \in overtaken[r]]_vars

(* A report that a song has ended moves the queue only while that song is  *)
(* the current one, so that every client can send one and the queue still  *)
(* moves one step.                                                         *)
EndAdvancesOnce ==
    [][\A r \in Req : Save(r) /\ req[r].kind = "next" /\ req[r].after \notin {NoSong, room.song}
         => room'.song = room.song /\ room'.queue = room.queue]_vars

(* A write is an operation of the room the API promises, by somebody who   *)
(* is entitled to it as the room is, or its copy was out of date.          *)
Atomic == INSTANCE RoomAtomic
TakesEffectAtOnce ==
    [][room' # room =>
         \E r \in Req : Save(r) /\ (overtaken[r] # {} \/ Atomic!Operate(req[r].by))]_vars

=============================================================================
