------------------------------ MODULE RoomOps ------------------------------
(***************************************************************************)
(* The stored room (models.RoomData) and what each handler of api/*.go and *)
(* ws/client_events.go makes of a copy of it.  For a handler X, CanX says  *)
(* when it goes on to save and X what it saves; otherwise it answers with  *)
(* an error or with the room as it is.                                     *)
(*                                                                         *)
(* A song is its id, to which its metadata belongs: CurrentSong and        *)
(* NowPlaying are always set together and are one field.  A list without   *)
(* repetition whose order nothing depends on (Users, Voters) is a set.     *)
(***************************************************************************)
EXTENDS Integers, Sequences, FiniteSets, SequencesExt

CONSTANTS
    User, Host,
    Song, NoSong,
    Duration,   \* seconds, 0 when unknown
    Slack,      \* the "few seconds" of CurrentSongFinished
    Pos         \* positions a client may send

ASSUME HostAssumption == Host \in User /\ IsFiniteSet(User)
ASSUME SongAssumption == NoSong \notin Song
ASSUME TimeAssumption == Duration \in [Song -> Nat] /\ Slack \in Nat /\ Pos \subseteq Int

Item == [song : Song, votes : Nat, voters : SUBSET User]

RoomData ==
    [song : Song \cup {NoSong}, playing : BOOLEAN, syncTime : Int, updatedAt : Nat,
     everyone : BOOLEAN, queue : Seq(Item), users : SUBSET User]

(* What handleCreateRoom claims with SetNX.                                *)
NewRoom(now) ==
    [song |-> NoSong, playing |-> FALSE, syncTime |-> 0, updatedAt |-> now,
     everyone |-> FALSE, queue |-> <<>>, users |-> {Host}]

Playhead(room, now) ==
    IF room.playing THEN room.syncTime + (now - room.updatedAt) ELSE room.syncTime

CurrentSongFinished(room, now) ==
    /\ room.song # NoSong
    /\ Duration[room.song] > 0
    /\ Playhead(room, now) >= Duration[room.song] - Slack

MayControl(room, user) == room.everyone \/ user = Host

Queued(room, song) == \E i \in DOMAIN room.queue : room.queue[i].song = song

-----------------------------------------------------------------------------
(* The queue: handleAddQueueItem, handleAddQueueBatch, handleVoteQueueItem *)
(* and handleDeleteQueueItem.  An id in a request is a position here: a    *)
(* song is queued at most once, so that either names the other.            *)

Fresh(song) == [song |-> song, votes |-> 0, voters |-> {}]

CanAlwaysAdd(room, song) == TRUE \* mutant
CanAdd(room, song) == ~Queued(room, song)

Add(room, song) == [room EXCEPT !.queue = Append(@, Fresh(song))]

(* The positions of a batch that are kept: not queued yet, and not a       *)
(* repetition within the batch.  They are appended in their order.         *)
Kept(room, songs) ==
    {i \in DOMAIN songs : /\ ~Queued(room, songs[i])
                          /\ \A j \in 1..i-1 : songs[j] # songs[i]}

InOrder(S) ==
    {f \in [1..Cardinality(S) -> S] : \A i, j \in DOMAIN f : i < j => f[i] < f[j]}

AddBatch(room, songs, kept) ==
    [room EXCEPT !.queue = @ \o [k \in DOMAIN kept |-> Fresh(songs[kept[k]])]]

(* The order of sort.SliceStable: by votes, and as they were among equals. *)
Before(queue, j, i) ==
    \/ queue[j].votes > queue[i].votes
    \/ queue[j].votes = queue[i].votes /\ j < i

PlaceKept(queue, i) == i \* mutant

(* The place the sort gives to item i when only i is out of place: after   *)
(* all that belong before it.                                              *)
Place(queue, i) == 1 + Cardinality({j \in DOMAIN queue \ {i} : Before(queue, j, i)})

(* The queue with item i moved to place p.                                 *)
Move(queue, i, p) ==
    [k \in DOMAIN queue |->
        queue[CASE k = p -> i
                [] k # p /\ i <= k /\ k < p -> k + 1
                [] k # p /\ p < k /\ k <= i -> k - 1
                [] OTHER -> k]]

Toggle(item, user) ==
    LET voters == IF user \in item.voters THEN item.voters \ {user}
                                          ELSE item.voters \cup {user}
    IN [item EXCEPT !.voters = voters, !.votes = Cardinality(voters)]

Toggled(room, i, user) == [room.queue EXCEPT ![i] = Toggle(@, user)]

Vote(room, i, user) ==
    LET toggled == Toggled(room, i, user)
    IN [room EXCEPT !.queue = Move(toggled, i, Place(toggled, i))]

Delete(room, i) == [room EXCEPT !.queue = RemoveAt(@, i)]

-----------------------------------------------------------------------------
(* Playback: handleNextQueueItem, handlePlayNow, handlePlaybackControl and *)
(* handlePlaybackEvent.                                                    *)

(* A song starts from its beginning, playing.                              *)
Start(room, song, now) ==
    [room EXCEPT !.song = song, !.playing = TRUE, !.syncTime = 0, !.updatedAt = now]

(* `after` is afterSongID, NoSong when the caller does not send it.        *)
CanNext(room, user, after, now) ==
    /\ after \in {NoSong, room.song}
    /\ \/ after # NoSong /\ CurrentSongFinished(room, now)
       \/ MayControl(room, user)
    /\ room.queue # <<>>

Advance(room, now) ==
    [Start(room, room.queue[1].song, now) EXCEPT !.queue = Tail(@)]

PlayNow(room, song, now) == Start(room, song, now)

ControlRestarts(room, everyone) == \* mutant
    [room EXCEPT !.everyone = everyone, !.syncTime = 0]
Control(room, everyone) == [room EXCEPT !.everyone = everyone]

PlaybackSwapped(room, action, pos, now) == \* mutant
    [room EXCEPT !.playing = action = "play", !.syncTime = now, !.updatedAt = pos]

(* action is "play", "pause" or "seek"; a seek keeps the play state.       *)
Playback(room, action, pos, now) ==
    [room EXCEPT !.playing = IF action = "seek" THEN @ ELSE action = "play",
                 !.syncTime = pos, !.updatedAt = now]

-----------------------------------------------------------------------------
(* People: handleJoinRoom and handleRemoveUser.                            *)

CanJoin(room, user) == user \notin room.users

Join(room, user) == [room EXCEPT !.users = @ \cup {user}]

CanRemove(user, target) == user = Host /\ target # Host

RemoveUser(room, target) == [room EXCEPT !.users = @ \ {target}]

-----------------------------------------------------------------------------
(* What every stored room, and every copy a handler holds, must satisfy.   *)

NoDuplicates(queue) ==
    \A i, j \in DOMAIN queue : queue[i].song = queue[j].song => i = j

VotesAreVoters(queue) ==
    \A i \in DOMAIN queue : queue[i].votes = Cardinality(queue[i].voters)

Ranked(queue) ==
    \A i, j \in DOMAIN queue : i < j => queue[i].votes >= queue[j].votes

(* `sorted` is a rearrangement of `queue` in the order of the stable sort.  *)
IsStableSort(queue, sorted) ==
    \E p \in [DOMAIN queue -> DOMAIN queue] :
        /\ \A a, b \in DOMAIN queue : a < b => Before(queue, p[a], p[b])
        /\ sorted = [k \in DOMAIN queue |-> queue[p[k]]]

WellFormed(room) ==
    /\ NoDuplicates(room.queue)
    /\ VotesAreVoters(room.queue)
    /\ Host \in room.users

=============================================================================
