------------------------------ MODULE RoomPage ------------------------------
(***************************************************************************)
(* The room page of one user (pages/Room.tsx): what it shows, what it told *)
(* its player, and how it keeps up with the stored room through answers of *)
(* REST calls and events of its socket, which nothing orders against each  *)
(* other.  The server is RoomOps with operations that do not overlap; the  *)
(* socket is one that works or does not (RoomSocket, Hub); the player does *)
(* what it is told once it is ready, and may also start when it is told to *)
(* seek before it has begun its song or after its end.                     *)
(*                                                                         *)
(* Time is the server's clock, which the page is taken to know exactly.    *)
(* Every change of the room takes a moment of its own, so that `now` also  *)
(* numbers the versions of the room.                                       *)
(***************************************************************************)
EXTENDS RoomOps, FiniteSetsExt

CONSTANTS
    Call,       \* slots for the page's REST calls
    FirstSong,  \* what the room plays when the page is opened...
    FirstQueue, \* ... and its queue then
    MaxClock,   \* bound on the clock, hence on changes
    MaxLosses,  \* bound on the times the socket, or an event, is lost
    MaxActs     \* bound on what the user does

ASSUME PageAssumption ==
    /\ FirstSong \in Song \cup {NoSong}
    /\ FirstQueue \in Seq(Item) /\ Ranked(FirstQueue)
    /\ NoDuplicates(FirstQueue) /\ VotesAreVoters(FirstQueue)
    /\ MaxClock \in Nat /\ MaxLosses \in Nat /\ MaxActs \in Nat
    /\ Pos \subseteq Nat \* what the page's slider can be set to

VARIABLES
    room, now,  \* the stored room, the time
    me,         \* whose page it is
    link,       \* "down", "open", or "attached": subscribed to the room's events
    opened,     \* the socket has been open before
    wire,       \* events on their way to the page
    sent,       \* playback messages on their way to the server
    losses,
    call,       \* REST calls
    phase,      \* "loading" (room is null), "open", "kicked" or "failed"
    shown,      \* the room and the queue as the page shows them
    dirty,      \* the effect on a changed room has yet to run
    told,       \* currentSongRef
    ready,      \* the player is ready
    deck,       \* the song in the player, whether it plays, and from where
    idle,       \* the player has not begun the song or is at its end: a seek may start it
    stirs,      \* the player has yet to report that a seek has started it
    tap,        \* needsGesture
    acts,       \* how often the user has interacted with the page
    seen,       \* history: the newest version of each part the page was given
    unsure,     \* history: the parts of which the page was last given an older version
    missed,     \* history: the newest version whose announcement passed the page by
    fetched     \* history: the newest version the page has loaded

server == <<room, now, me>>
socket == <<link, opened, wire, sent, losses>>
page == <<phase, shown, dirty>>
rest == <<idle, stirs>>
player == <<told, ready, deck, rest, tap, acts>>
history == <<seen, unsure, missed, fetched>>
vars == <<server, socket, call, page, player, history>>

Parts == {"state", "queue", "deck"}

NoCall == [kind |-> "none"]

Asks(kind) ==
    [kind |-> kind, phase |-> "sent", force |-> FALSE, after |-> NoSong, ended |-> NoSong]

AsksRoom(force) == [Asks("load") EXCEPT !.force = force]

(* The end of `ended` asks for the song after `after`.                     *)
AsksNext(after, ended) ==
    [kind |-> "next", phase |-> "sent", force |-> FALSE, after |-> after, ended |-> ended]

(* A player's position moves with the clock while it plays: `origin` is    *)
(* then the time at which the song's beginning would have been.  `held`:   *)
(* the browser has refused to start it.                                    *)
Put(song, playing, position, held) ==
    [song |-> song, playing |-> playing /\ ~held, held |-> held,
     origin |-> IF playing /\ ~held THEN position - now ELSE position]

Position == IF deck.playing THEN deck.origin + now ELSE deck.origin

(* A page that nobody has touched may be refused sound.                    *)
Refusals(plays) == IF plays /\ acts = 0 THEN BOOLEAN ELSE {FALSE}

(* Whether a player that the page has told something, a song anew or not,  *)
(* is idle then.                                                           *)
Idles(anew) ==
    IF deck'.playing THEN {FALSE} ELSE IF anew THEN {TRUE} ELSE {FALSE, idle}

(* A seek leaves a playing or a paused player so, but may start an idle one.*)
Starts == IF idle THEN BOOLEAN ELSE {FALSE}

Init ==
    /\ room = [NewRoom(0) EXCEPT !.song = FirstSong, !.playing = FirstSong # NoSong,
                                 !.queue = FirstQueue, !.users = User]
    /\ now = 0
    /\ me \in User
    /\ link = "down" /\ opened = FALSE /\ wire = <<>> /\ sent = <<>> /\ losses = 0
    /\ \E first \in Call :
         call = [k \in Call |-> IF k = first THEN AsksRoom(FALSE) ELSE NoCall]
    /\ phase = "loading" /\ shown = NewRoom(0) /\ dirty = FALSE
    /\ told = NoSong /\ ready = FALSE /\ tap = FALSE /\ acts = 0
    /\ idle = FALSE /\ stirs = FALSE
    /\ deck = [song |-> NoSong, playing |-> FALSE, held |-> FALSE, origin |-> 0]
    /\ seen = [p \in Parts |-> 0] /\ unsure = {} /\ missed = 0 /\ fetched = 0

-----------------------------------------------------------------------------
(* History: the page is given `parts` of version `rev`, and those in       *)
(* `wrong` of them wrongly.                                                *)
GivenBut(parts, wrong, rev) ==
    /\ seen' = [p \in Parts |-> IF p \in parts /\ rev > seen[p] THEN rev ELSE seen[p]]
    /\ unsure' = (unsure \ parts) \cup wrong \cup {p \in parts : rev < seen[p]}

Given(parts, rev) == GivenBut(parts, {}, rev)

Doubt(parts) == unsure' = unsure \cup parts /\ UNCHANGED seen

-----------------------------------------------------------------------------
(* The server changes the room and publishes events with what it saved.    *)
Published(events, data, rev) ==
    [i \in DOMAIN events |-> [name |-> events[i], room |-> data, rev |-> rev]]

(* What of it the wire takes: publish logs an error and goes on.           *)
Deliveries(events) == {<<>>, events} \cup {<<events[i]>> : i \in DOMAIN events}

Change(new, events) == \E heard \in Deliveries(events) :
    /\ now < MaxClock
    /\ now' = now + 1
    /\ room' = new
    /\ wire' = IF link = "attached"
               THEN wire \o Published(heard, new, now + 1)
               ELSE wire
    /\ missed' = IF link = "attached" /\ heard = events THEN missed ELSE now + 1
    /\ losses' = IF heard = events THEN losses ELSE losses + 1
    /\ losses' <= MaxLosses
    /\ UNCHANGED <<me, link, opened>>

Stays == UNCHANGED <<server, wire, missed, link, opened, losses>>

(* What other people do to the room.  Of the operations on the queue alone *)
(* one is enough: to the page they are all a queue it has not seen.        *)
OtherChange ==
    /\ \E user \in User \ {me} :
         \/ \E song \in Song :
              CanAdd(room, song) /\ Change(Add(room, song), <<"queue">>)
         \/ /\ \E after \in {NoSong, room.song} : CanNext(room, user, after, now)
            /\ Change(Advance(room, now + 1), <<"state", "queue">>)
         \/ \E song \in Song :
              MayControl(room, user) /\ Change(PlayNow(room, song, now + 1), <<"state">>)
         \/ /\ user = Host
            /\ \E everyone \in BOOLEAN : Change(Control(room, everyone), <<"state">>)
         \/ \E action \in {"play", "pause", "seek"}, pos \in Pos :
              /\ MayControl(room, user)
              /\ Change(Playback(room, action, pos, now + 1), <<action>>)
         \/ CanRemove(user, me) /\ Change(RemoveUser(room, me), <<"kicked">>)
    /\ UNCHANGED <<sent, call, page, player, seen, unsure, fetched>>

Tick ==
    /\ now < MaxClock
    /\ now' = now + 1
    /\ UNCHANGED <<room, me, socket, call, page, player, history>>

-----------------------------------------------------------------------------
(* The page and its player.                                                *)

Clip(position) == IF position < 0 THEN 0 ELSE position

(* syncPlayerToState acts on a song that is new to the player, or if it is *)
(* forced to.                                                              *)
Acts(data, force) == data.song # NoSong /\ (force \/ data.song # told)

SyncUnready(data, force) == \* mutant
    IF Acts(data, force)
    THEN /\ told' = data.song
         /\ deck' = IF ready' THEN Put(data.song, data.playing, Clip(Playhead(data, now)), FALSE)
                              ELSE deck
         /\ UNCHANGED <<rest, tap>>
    ELSE UNCHANGED <<told, deck, rest, tap>>

Sync(data, force) ==
    IF ready' /\ Acts(data, force)
    THEN \E held \in Refusals(data.playing) :
           /\ told' = data.song
           /\ deck' = Put(data.song, data.playing, Clip(Playhead(data, now)), held)
           /\ idle' \in Idles(data.song # told) /\ UNCHANGED stirs
           /\ tap' = (tap \/ (held /\ data.song # told))
    ELSE UNCHANGED <<told, deck, rest, tap>>

ShownRev == IF "state" \in unsure THEN -1 ELSE seen["state"]

(* The room says something of the player's song that the player was not    *)
(* told by an event: the song was started again.                           *)
Unnoticed == shown.playing # deck.playing \/ Playhead(shown, now) # Position

(* The player now has, or had before, what the page shows, unless an event *)
(* has told it something newer.                                            *)
SyncShown ==
    /\ Sync(shown, FALSE)
    /\ IF ready' /\ shown.song # NoSong /\ (Acts(shown, FALSE) \/ ShownRev >= seen["deck"])
       THEN GivenBut({"deck"}, IF ~Acts(shown, FALSE) /\ Unnoticed THEN {"deck"} ELSE {}, ShownRev)
       ELSE UNCHANGED <<seen, unsure>>

(* The effect that runs some time after the room has changed.              *)
Effect ==
    /\ dirty /\ dirty' = FALSE
    /\ UNCHANGED ready
    /\ SyncShown
    /\ Stays
    /\ UNCHANGED <<sent, call, phase, shown, acts, fetched>>

(* The player is mounted with the room, and constructed asynchronously.    *)
OnReady ==
    /\ phase = "open" /\ ~ready /\ ready' = TRUE
    /\ SyncShown
    /\ Stays
    /\ UNCHANGED <<sent, call, page, acts, fetched>>

(* setRoom with another state, setQueue with another queue.                *)
WithState(data) == [data EXCEPT !.queue = shown.queue, !.users = shown.users]
WithQueue(data) == [shown EXCEPT !.queue = data.queue]

(* A play, a pause or a seek to a position.                                *)
PlaybackTo(e, target) ==
    /\ \/ /\ e.name = "play"
          /\ \E held \in Refusals(TRUE) : deck' = Put(deck.song, TRUE, target, held)
          /\ UNCHANGED stirs
       \/ /\ e.name = "pause"
          /\ deck' = Put(deck.song, FALSE, target, FALSE)
          /\ UNCHANGED stirs
       \/ /\ e.name = "seek"
          /\ \E starts \in Starts :
               /\ deck' = Put(deck.song, deck.playing \/ starts, target, deck.held /\ ~starts)
               /\ stirs' = (stirs \/ starts)
    /\ idle' \in Idles(FALSE)

ApplyPlaybackLate(e) == \* mutant
    PlaybackTo(e, Clip(e.room.syncTime))

ApplyRemotePlayback(e) ==
    LET elapsed == IF e.name = "play" THEN now - e.room.updatedAt ELSE 0
    IN PlaybackTo(e, Clip(e.room.syncTime + elapsed))

(* A seek is not told whether to play, and does not make up for the time   *)
(* it took to arrive.                                                      *)
SeeksAstray(e) ==
    /\ e.name = "seek"
    /\ \/ deck'.playing # e.room.playing
       \/ deck'.playing /\ now # e.room.updatedAt

(* onmessage.                                                              *)
OnMessage ==
    /\ wire # <<>>
    /\ wire' = IF Head(wire).name = "kicked" THEN <<>> ELSE Tail(wire)
    /\ LET e == Head(wire) IN
       \/ /\ e.name = "queue"
          /\ shown' = WithQueue(e.room) /\ Given({"queue"}, e.rev)
          /\ UNCHANGED <<link, phase, dirty, deck, rest>>
       \/ /\ e.name = "state"
          /\ IF phase = "open" THEN shown' = WithState(e.room) /\ dirty' = TRUE
                               ELSE UNCHANGED <<shown, dirty>>
          /\ Given({"state"}, e.rev)
          /\ UNCHANGED <<link, phase, deck, rest>>
       \/ /\ e.name \in {"play", "pause", "seek"}
          /\ IF ready THEN ApplyRemotePlayback(e) ELSE UNCHANGED <<deck, rest>>
          /\ GivenBut({"deck"}, IF ready /\ SeeksAstray(e) THEN {"deck"} ELSE {}, e.rev)
          /\ UNCHANGED <<link, page>>
       \/ /\ e.name = "kicked"
          /\ phase' = "kicked" /\ link' = "down"
          /\ UNCHANGED <<shown, dirty, deck, rest, seen, unsure>>
    /\ UNCHANGED <<server, opened, sent, losses, call, told, ready, tap, acts, missed, fetched>>

-----------------------------------------------------------------------------
(* The user.                                                               *)

CanControl == me = Host \/ shown.everyone

(* Whether the page shows the player as playing.  It polls the player, but *)
(* learns nothing from one that is not ready or was refused sound.         *)
Playing == IF ready /\ ~deck.held THEN {deck.playing} ELSE BOOLEAN

(* Where the page takes its player to be.                                  *)
GetTime == IF ready THEN Position ELSE 0

(* sendPlayback.  What is sent while there is no connection is lost.       *)
Sends(action, pos) ==
    IF link = "down"
    THEN UNCHANGED sent /\ (IF ready THEN Doubt({"deck"}) ELSE UNCHANGED <<seen, unsure>>)
    ELSE /\ sent = <<>> /\ sent' = <<[action |-> action, pos |-> pos]>>
         /\ UNCHANGED <<seen, unsure>>

(* The user drives the player, if it is ready, and through the socket the  *)
(* room.                                                                   *)
Drive(action, pos, plays) ==
    /\ phase = "open" /\ CanControl /\ shown.song # NoSong
    /\ acts < MaxActs /\ acts' = acts + 1
    /\ deck' = IF ready THEN Put(deck.song, plays, pos, FALSE) ELSE deck
    /\ idle' \in Idles(FALSE)
    /\ Sends(action, pos)
    /\ Stays
    /\ UNCHANGED <<call, page, told, ready, tap, fetched>>

TogglePlay ==
    \E playing \in Playing :
        Drive(IF playing THEN "pause" ELSE "play", GetTime, ~playing) /\ UNCHANGED stirs

(* A seek, and a play if the page shows the player as playing.             *)
CommitSeek ==
    \E pos \in Pos, playing \in Playing, starts \in Starts :
        /\ Drive("seek", pos, deck.playing \/ playing \/ starts)
        /\ stirs' = (stirs \/ (starts /\ ~playing))

(* The player's report that a seek has started it is taken for the user's, *)
(* unless the component still waits for an earlier play.                   *)
OnUserPlay ==
    /\ phase = "open" /\ stirs /\ stirs' = FALSE
    /\ \/ UNCHANGED <<sent, seen, unsure>>
       \/ CanControl /\ Sends("play", Position)
    /\ Stays
    /\ UNCHANGED <<call, page, told, ready, deck, idle, tap, acts, fetched>>

(* The tap on a player that was refused sound: a seek, and a play if the   *)
(* room plays, but never a stop.                                           *)
StartListening ==
    /\ phase = "open" /\ tap /\ shown.song # NoSong
    /\ tap' = FALSE /\ acts < MaxActs /\ acts' = acts + 1
    /\ \E starts \in Starts :
         /\ deck' = Put(deck.song, deck.playing \/ shown.playing \/ starts,
                        Clip(Playhead(shown, now)), FALSE)
         /\ stirs' = (stirs \/ (starts /\ ~shown.playing))
    /\ idle' \in Idles(FALSE)
    /\ GivenBut({"deck"}, IF deck'.playing /\ ~shown.playing THEN {"deck"} ELSE {}, ShownRev)
    /\ Stays
    /\ UNCHANGED <<sent, call, page, told, ready, fetched>>

(* The poll of the player finds that it plays.                             *)
Poll ==
    /\ tap /\ deck.playing /\ tap' = FALSE
    /\ Stays
    /\ UNCHANGED <<sent, call, page, told, ready, deck, rest, acts, seen, unsure, fetched>>

Request(k, c) == call[k] = NoCall /\ call' = [call EXCEPT ![k] = c]

Pending(kind) == \E k \in Call : call[k].kind = kind /\ call[k].after = NoSong

UserCalls ==
    /\ phase = "open"
    /\ \E k \in Call :
         \/ shown.queue # <<>> /\ CanControl /\ ~Pending("next") /\ Request(k, Asks("next"))
         \/ CanControl /\ Request(k, Asks("playNow"))
         \/ me = Host /\ ~Pending("control") /\ Request(k, Asks("control"))
         \/ Request(k, Asks("queue"))
    /\ acts < MaxActs /\ acts' = acts + 1
    /\ Stays
    /\ UNCHANGED <<sent, page, told, ready, deck, rest, tap, seen, unsure, fetched>>

(* The song in the player is over.  The page asks for the one after the    *)
(* song that it shows.                                                     *)
OnEnded ==
    /\ phase = "open" /\ deck.playing
    /\ Duration[deck.song] > 0 /\ Position >= Duration[deck.song]
    /\ deck' = Put(deck.song, FALSE, Position, FALSE) /\ idle' = TRUE
    /\ IF shown.song # NoSong /\ shown.queue # <<>>
       THEN \E k \in Call : Request(k, AsksNext(shown.song, deck.song))
       ELSE UNCHANGED call
    /\ Stays
    /\ UNCHANGED <<sent, page, told, ready, stirs, tap, acts, seen, unsure, fetched>>

-----------------------------------------------------------------------------
(* The server answers.                                                     *)

Answer(c, data, rev) ==
    [kind |-> c.kind, phase |-> "answered", force |-> c.force,
     after |-> c.after, ended |-> c.ended, room |-> data, rev |-> rev]

Answered(k, data, rev) == call' = [call EXCEPT ![k] = Answer(@, data, rev)]

Does(k, new, events) == Change(new, events) /\ Answered(k, new, now + 1)

Refuses(k) == Stays /\ call' = [call EXCEPT ![k] = NoCall]

Tells(k) == Stays /\ Answered(k, room, now)

HandleNext(k) ==
    LET after == call[k].after IN
    CASE after \notin {NoSong, room.song} -> Tells(k)
      [] CanNext(room, me, after, now) ->
           Does(k, Advance(room, now + 1), <<"state", "queue">>)
      [] OTHER -> Refuses(k)

Handle(k) ==
    /\ call[k].kind # "none" /\ call[k].phase = "sent"
    /\ \/ call[k].kind = "load" /\ Tells(k)
       \/ call[k].kind = "next" /\ HandleNext(k)
       \/ /\ call[k].kind = "playNow"
          /\ IF MayControl(room, me)
             THEN \E song \in Song : Does(k, PlayNow(room, song, now + 1), <<"state">>)
             ELSE Refuses(k)
       \/ /\ call[k].kind = "control"
          /\ \E everyone \in BOOLEAN : Does(k, Control(room, everyone), <<"state">>)
       \/ /\ call[k].kind = "queue"
          /\ \E song \in Song :
               IF CanAdd(room, song) THEN Does(k, Add(room, song), <<"queue">>) ELSE Refuses(k)
    /\ UNCHANGED <<sent, page, player, seen, unsure, fetched>>

(* handlePlaybackEvent.                                                    *)
HandlePlayback ==
    /\ sent # <<>> /\ sent' = Tail(sent)
    /\ LET m == Head(sent) IN
       IF MayControl(room, me)
       THEN /\ Change(Playback(room, m.action, m.pos, now + 1), <<m.action>>)
            /\ UNCHANGED <<seen, unsure>>
       ELSE Stays /\ Doubt({"deck"})
    /\ UNCHANGED <<call, page, player, fetched>>

(* What the page makes of an answer.                                       *)

(* setQueue(q => q.filter(...)) after an advance, or after none.           *)
Remaining(data) ==
    LET kept == {i \in DOMAIN shown.queue : shown.queue[i].song # data.song}
    IN {[k \in DOMAIN order |-> shown.queue[order[k]]] : order \in InOrder(kept)}

FiltersAstray(data, rev) == rev < seen["queue"] \/ Queued(data, data.song)

LoadedStateOnly(c) == \* mutant
    /\ shown' = WithState(c.room) /\ phase' = "open"
    /\ fetched' = IF c.rev > fetched THEN c.rev ELSE fetched
    /\ IF c.force
       THEN /\ Sync(c.room, TRUE)
            /\ Given(IF ready /\ c.room.song # NoSong THEN Parts ELSE {"state", "queue"}, c.rev)
       ELSE UNCHANGED <<told, deck, rest, tap>> /\ Given({"state", "queue"}, c.rev)

(* loadRoom, and on a reconnect the player is realigned.                   *)
Loaded(c) ==
    /\ shown' = c.room /\ phase' = "open"
    /\ fetched' = IF c.rev > fetched THEN c.rev ELSE fetched
    /\ IF c.force
       THEN /\ Sync(c.room, TRUE)
            /\ Given(IF ready /\ c.room.song # NoSong THEN Parts ELSE {"state", "queue"}, c.rev)
       ELSE UNCHANGED <<told, deck, rest, tap>> /\ Given({"state", "queue"}, c.rev)

OnAnswer(k) ==
    /\ call[k].kind # "none" /\ call[k].phase = "answered"
    /\ call' = [call EXCEPT ![k] = NoCall]
    /\ UNCHANGED <<sent, ready, acts>>
    /\ LET c == call[k] IN
       \/ c.kind = "load" /\ Loaded(c) /\ dirty' = TRUE
       \/ /\ c.kind = "next"
          /\ \E left \in Remaining(c.room) : shown' = [WithState(c.room) EXCEPT !.queue = left]
          /\ seen' = [seen EXCEPT !["state"] = IF c.rev > @ THEN c.rev ELSE @]
          /\ unsure' = (IF c.rev < seen["state"] THEN unsure \cup {"state"} ELSE unsure \ {"state"})
                         \cup (IF FiltersAstray(c.room, c.rev) THEN {"queue"} ELSE {})
          /\ dirty' = TRUE
          /\ UNCHANGED <<phase, told, deck, rest, tap, fetched>>
       \/ /\ c.kind \in {"playNow", "control"}
          /\ shown' = WithState(c.room) /\ Given({"state"}, c.rev) /\ dirty' = TRUE
          /\ UNCHANGED <<phase, told, deck, rest, tap, fetched>>
       \/ /\ c.kind = "queue"
          /\ shown' = WithQueue(c.room) /\ Given({"queue"}, c.rev)
          /\ UNCHANGED <<phase, dirty, told, deck, rest, tap, fetched>>
    /\ Stays

(* A call or its answer is lost: the page keeps what it shows, but gives   *)
(* up if it has never shown anything.                                      *)
CallFails(k) ==
    /\ call[k].kind # "none"
    /\ call' = [call EXCEPT ![k] = NoCall]
    /\ phase' = IF call[k].kind = "load" /\ ~call[k].force THEN "failed" ELSE phase
    /\ Stays
    /\ UNCHANGED <<sent, shown, dirty, player, seen, unsure, fetched>>

-----------------------------------------------------------------------------
(* The socket.                                                             *)

(* onopen: the first time the page relies on what it loads anyway, later   *)
(* it loads the room again.                                                *)
OnOpen ==
    /\ link = "down" /\ link' = "open" /\ opened' = TRUE
    /\ IF opened
       THEN \E k \in Call : Request(k, AsksRoom(TRUE))
       ELSE UNCHANGED call
    /\ UNCHANGED <<server, wire, sent, losses, page, player, history>>

(* The client is in a hub whose subscription has taken effect.             *)
Attached ==
    /\ link = "open" /\ link' = "attached"
    /\ UNCHANGED <<server, opened, wire, sent, losses, call, page, player, history>>

Disconnected ==
    /\ link # "down" /\ link' = "down"
    /\ losses < MaxLosses /\ losses' = losses + 1
    /\ wire' = <<>> /\ sent' = <<>>
    /\ missed' = IF wire # <<>> /\ Last(wire).rev > missed THEN Last(wire).rev ELSE missed
    /\ IF sent = <<>> THEN UNCHANGED <<seen, unsure>> ELSE Doubt({"deck"})
    /\ UNCHANGED <<server, opened, call, page, player, fetched>>

Calls == \E k \in Call : Handle(k) \/ OnAnswer(k) \/ CallFails(k)

UserActs == TogglePlay \/ CommitSeek \/ StartListening \/ UserCalls

Next ==
    /\ phase \in {"loading", "open"}
    /\ \/ OtherChange \/ Tick \/ Effect \/ OnReady \/ OnMessage \/ Poll \/ OnUserPlay \/ OnEnded
       \/ UserActs \/ Calls \/ HandlePlayback
       \/ OnOpen \/ Attached \/ Disconnected

Spec == Init /\ [][Next]_vars

-----------------------------------------------------------------------------
(* Properties.                                                             *)

Quiet ==
    /\ phase = "open" /\ link = "attached" /\ ~dirty
    /\ wire = <<>> /\ sent = <<>> /\ \A k \in Call : call[k] = NoCall

TypeOK ==
    /\ room \in RoomData /\ now \in 0..MaxClock /\ me \in User
    /\ link \in {"down", "open", "attached"} /\ opened \in BOOLEAN /\ losses \in 0..MaxLosses
    /\ phase \in {"loading", "open", "kicked", "failed"} /\ shown \in RoomData
    /\ told \in Song \cup {NoSong}
    /\ deck \in [song : Song \cup {NoSong}, playing : BOOLEAN, held : BOOLEAN, origin : Int]
    /\ ~(deck.playing /\ deck.held) /\ idle \in BOOLEAN /\ stirs \in BOOLEAN
    /\ (ready => phase # "loading") /\ (link # "attached" => wire = <<>>)
    /\ unsure \subseteq Parts

(* Once nothing is under way, the page shows the stored room, unless the   *)
(* announcement of a change was lost, or made while the page was not       *)
(* attached, and it has not loaded the room since, or an older answer was  *)
(* applied over newer news.                                                *)
Settles ==
    Quiet /\ missed <= fetched =>
        /\ "state" \notin unsure =>
             shown.song = room.song /\ shown.everyone = room.everyone
        /\ "queue" \notin unsure => shown.queue = room.queue

(* ... without the first of these excuses: a page that is attached never   *)
(* needs to load the room again.                                           *)
KeepsUp ==
    Quiet /\ unsure = {} => shown.song = room.song /\ shown.queue = room.queue

(* A player that is ready has the song that the page shows.                *)
DeckFollows ==
    phase = "open" /\ ready /\ ~dirty /\ shown.song # NoSong =>
        told = shown.song /\ deck.song = shown.song

(* Nothing is under way, and the page was told all there is of the song.   *)
WellInformed ==
    /\ Quiet /\ missed <= fetched /\ room.song # NoSong
    /\ unsure \cap {"state", "deck"} = {} /\ ~deck.held
    /\ Duration[room.song] > 0 => Playhead(room, now) < Duration[room.song]

(* Once nothing is under way, a player that is ready plays what the room   *)
(* plays, where the room is.  The exceptions: the page was told too little *)
(* or too late (above), a song was started again, a seek was heard late or *)
(* in another play state, or has started a player that the room does not   *)
(* play, an event came before the player was ready, the user's own doing   *)
(* did not reach the room, the browser refuses sound.                      *)
InTune ==
    WellInformed /\ ready =>
        /\ deck.song = room.song /\ deck.playing = room.playing
        /\ Position = Playhead(room, now)

(* Whoever plays or pauses on such a page leaves the playhead in its place.*)
ToggleKeepsPlace ==
    [][WellInformed /\ sent' # sent /\ Head(sent').action # "seek"
         => Head(sent').pos = Playhead(room, now)]_vars

(* The end of a song advances the room past that song and no other.        *)
EndSkipsEnded ==
    [][\A k \in Call :
         /\ call[k].kind = "next" /\ call[k].after # NoSong /\ call[k].phase = "sent"
         /\ call'[k] # call[k] /\ room' # room
         => call[k].ended = room.song]_vars

=============================================================================
