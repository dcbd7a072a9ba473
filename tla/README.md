# SongSpot in TLA+

SongSpot is a listening room: people in a room share a queue of YouTube songs and hear
the same song at the same position. A Go server keeps each room as one JSON blob in
Redis, changes it through REST handlers and playback messages, and pushes every change
over WebSockets. A React page follows the room and steers an embedded player. This
directory holds TLA+ models of that program, the TLC runs that check them and TLAPS
proofs about them. `PROJECT.json` ties every definition to the lines it models and every
property to a run; this file explains both.

Paths below are relative to `src/`.

## 1. Inventory

| Component | State | Operations | Talks to | What is hard | What makes it correct |
|---|---|---|---|---|---|
| Registry, hub, clients (`backend/internal/ws`, `api/websocket.go`) | the registry's hub per room; a hub's `refs`, `clients`, `quit`; a client's `Send`, `Done`, `Conn`; a Redis subscription | `Join`, `Leave`, the loop `run`, `listenToRedis`, `deliver`, `drop`, `broadcastPresence`, `ReadPump`, `WritePump`, `send` | Redis pub/sub; the room's handlers publish into it; browsers | four kinds of goroutines and unbuffered channels; teardown against a new join; slow and vanished peers | nobody waits for ever on a dead hub, counts are exact, no channel is closed twice, no client misses an event and goes on, everything ends |
| Room handlers (`api/queue.go`, `playback.go`, `people.go`, `rooms.go`, `ws/client_events.go`) | `room:<id>` in Redis; each request's copy of it | add, add batch, vote, delete, next, play now, permission, play/pause/seek, join, remove | store; published events | read, change and write back with nothing held in between; two announcements after the write; failures in the middle | a stored room is always well formed; a write is one permitted operation on the room, unless it was written over something newer; announcements suffice to follow the room |
| Room creation and codes (`api/rooms.go`, `models/roomcode.go`, `frontend/src/lib/roomCode.ts`) | reserved keys | claim with `SetNX`, normalise a typed code | store | two languages normalise the same code | the two normalisations agree; no room is overwritten |
| Invites (`api/invites.go`) | `invite:<token>` | create, join | store | a second read-modify-write beside the room's; a use spent before the room is saved | the count never passes its limit, and only a lost update lets more people in |
| Search (`music/`, `api/music_lookup.go`) | a cache of results | search, page through a playlist | InnerTube, oEmbed | parsing of foreign pages | limits and no duplicates |
| Socket hook (`frontend/src/hooks/useRoomSocket.ts`) | the sockets and timers of an effect, the clock offset | connect, reconnect, wake up, clean up, ping/pong, dispatch | hub; page | sockets that close late, frozen timers, clean-up at any moment; pongs of older sockets | it never gives up, has one socket, leaves none behind; its idea of the server's clock is off by half a ping's way at most |
| Room page (`frontend/src/pages/Room.tsx`) | room and queue as last heard, the song the player was told | load, resync, follow events, local control, auto-advance | REST; hook; player | answers, events and reloads in any order; a player that is ready late or refused sound | the page ends up with the stored room and its player where the room is |
| Player (`frontend/src/components/YouTubePlayer.tsx`) | the embedded player, pending commands | load, play, pause, seek, autoplay check | page; an iframe that answers late | asynchronous creation, state changes nobody signs | the user's doing, and only that, is announced to the room |
| Add-song panel (`AddSong.tsx`) | the input, its newest lookup, songs or a playlist found, an import | type, look up after a pause, add, play, import | REST; page | older answers after newer ones; an import that empties the input when it is done | it is always about one text and says of it what came out of its lookup |
| Volume (`Room.tsx`) | volume and mute; the same in `localStorage` and in the player | drag, keys, mute, reload | player | two ways to be silent, one of which storage cannot tell from nothing | the player, and the next visit, are as loud as the slider says |
| People (`Room.tsx`, `People.tsx`) | the roster shown, a removal under way | load, remove, follow "kicked" | REST; hook | snapshots overtaken by announcements; joins and removals that write over each other | who is gone leaves the list |
| Entry (`Home.tsx`, `Join.tsx`, `storage.ts`, `RoomRoute`) | the browser's own id, a session per room, calls under way in each tab | create, join, open, be removed, come back | REST; every tab of the browser | tabs that share storage, answers that arrive after the tab has gone elsewhere | one browser, one user per room; nobody is left at the door |
| Animation (`RoomAtmosphere.tsx`) | a run's import, its scene, its next frame | import, mount, draw, clean up | the browser's WebGL | a clean-up before, during or after the import | nothing is held or drawn after the clean-up |
| Other visual parts (`Queue`, `SharePanel`, `RoomPreview`, …) | what the page owns, a "copied" message | render | – | – | – |

How they interact: a REST handler, or a playback message read by a client's read pump,
changes the blob and publishes on `room_events:<id>`; every server process with a
listener in the room has a hub that takes the event from its subscription and puts it
into every client's buffer; the write pump sends it; the hook hands it to the page; the
page moves the player. Presence and pongs go into the same buffers from the hub and the
read pump.

## 2. Modules

| Module | Models | Checked by |
|---|---|---|
| `Hub` | one room in one process: registry, generations of hubs, listener, clients and both pumps | `MCHub`, proofs in `HubProofs` |
| `RoomOps` | the stored room and, as operators, what each handler makes of a copy | through `Room` and `RoomPage`, proofs in `RoomOpsProofs` |
| `RoomAtomic` | abstract specification: the operations the API promises, at once and each with the authority it takes | through `Room!TakesEffectAtOnce` |
| `Room` | requests as read-and-change, save, announce steps that interleave | `MCRoom`, `MCRoomEnd`, proofs in `RoomProofs` |
| `Invites` | `Room` with a second blob, which joins by invite read, change and write | `MCInvites`, proofs in `InvitesProofs` |
| `RoomSocket` | one run of the effect of `useRoomSocket` | `MCPageParts`, proofs in `PagePartsProofs` |
| `Clock` | ping, pong and the offset of `useRoomSocket` | `MCPageParts`, proofs in `PagePartsProofs` |
| `RoomPage` | the page of one user: answers, events, effects, its player, over `RoomOps` | `MCRoomPage`, proofs in `RoomPageProofs` |
| `Player` | the player component and the iframe behind it | itself, proofs in `PlayerProofs` |
| `Search` | abstract specification: what the add-song panel promises | – |
| `AddSong` | the add-song panel, shown to implement `Search` | `MCPageParts`, proofs in `PagePartsProofs` |
| `Sound` | the volume: page, player and storage | `MCPageParts`, proofs in `PagePartsProofs` |
| `Roster` | the host's pages and the list of people | `MCPageParts`, proofs in `PagePartsProofs` |
| `Scene` | the effect of `RoomAtmosphere` | `MCPageParts`, proofs in `PagePartsProofs` |
| `Entry` | home page, door, guard of the room page and storage, in the tabs of a browser | `MCEntry`, proofs in `EntryProofs` |

### Hub

A hub is named after the client whose `Join` created it, so `Client` is large enough for
every generation of hubs. `at[c]` follows a connection through the upgrade handler and
its read pump: `joining` (refs taken, waiting to register), `reading`, `sending` (in
`Client.send` with a pong), `leaving` (waiting to unregister), `unregistered` (waiting
for the mutex), `exited`. `write[c]` is the write pump. A rendezvous on an unbuffered
channel is one action of both sides (`JoinRegister`, `LeaveUnregister`, `Broadcast`).
`Presence` is part of the two actions that call it; `Deliver` drops every client whose
buffer is full. The subscription is asked for in `HubStart` and takes effect later, in
`Subscribed`, since the code does not wait for Redis to confirm it.

Messages are numbers of room events, or `Direct` for presence and pongs, of which only
the buffer slot matters. `MaxEvents` bounds the publications, `Pingers` the connections
whose browser pings; `BufCap` is 256 in the code.

Left out: go-redis's own reconnection and its channel's limit, the retry of a lost
Redis; other rooms, which share only a mutex held briefly; the size limits and contents
of messages.

### Room

`Prepare` is `GetRoom` plus the handler's work on its copy. The clock is read in the
same step: reading the room and taking the time are two statements apart in the code, so
an anchor can be a little newer than here, never older than the read. `Save` writes the
whole copy; `Publish` sends one announcement, and each can fail on its own. A request
that is refused or changes nothing leaves no step. Requests overlap freely.

`by` in a request is the user whose authority the handler has checked: a single user
wherever the code asks `mayControlPlayback` or compares with the host, nobody where it
asks nothing. So `opened`, which remembers that the host has opened control, is set by a
request of the host and by no other, and `TakesEffectAtOnce` can ask whether a write was
permitted. `overtaken[r]` remembers what others have saved since `r` read the room: the
room at all, and its playhead in particular.

A follower is somebody who applies the announcements the way `pages/Room.tsx` does. It
keeps what the page keeps: the queue, told by "queue:updated", and the song with the
permission, told by "state:updated". Play, pause and seek move the page's player and
leave its room alone, so the follower takes nothing from them (the player is the subject
of `RoomPage`). `view` is what it was last told of each part, `news` the request with the
newest announcement of the part that is still to come, `doubt` the parts about which the
announcements leave it wrong: the newest was lost, an older one came after it, or a copy
that was out of date undid the part and announced something else.

Data that is abstracted: a song is its id (its metadata, hence `CurrentSong` and
`NowPlaying`, belong to it, and its duration is a constant); users and voters are sets;
milliseconds and seconds are one unit. A queue entry is named by its position, which is
the same as by its id because no song is queued twice.

### Invites

`Invites` extends `Room` by `invite`, the blob, and by what each request has read of it.
A join by invite has the code's four accesses to Redis: `ReadInvite` (and the checks),
`Admit` (the room is read and the user added to the copy, which makes it a request of
`Room` like any other), `SpendUse` (the invite is written back) and `Finish`, `Room`'s
own save or failure; `SpendFails` is an error in the middle. `Elsewhere` is all the rest
of `Room`. `shared` remembers that a count was written over a newer one. The room exists
as long as the invite, and that Redis drops an expired key is the expiry check once
more.

### RoomSocket

Sockets are model values with a `readyState`; an interval and a timeout bear the name of
the socket whose handler made them. `Close` is `onclose`, whether the handshake ended,
the attempt failed or the connection was lost; `CloseFrame` is the browser's entry into
`CLOSING`. How long a timeout takes (the backoff) is left open: it may fire at any time,
which covers every backoff. `raced` remembers that a wake-up found the socket in
`CLOSING`.

### Clock

A ping is what it carries: the browser's clock when it was sent, the server's once it has
been answered. `offset` is doubled, so that half a way counts in whole ticks. Several
pings may be under way, be lost or overtake each other, as those of an older socket do,
and the browser's clock may be set anew at any time; `trip` is the way of the last pong
if its ping is younger than that.

### RoomPage

The server side is `RoomOps` with one operation at a time (`Room` shows what overlap
adds), and every change takes a unit of time, so that `now` also numbers the versions of
the room. The socket is reduced to `link`: `down`, `open`, or `attached` once the hub's
subscription works; `wire` and `sent` are what is under way, lost with the connection.
`call` holds the REST calls, whose answer may come at any time, in any order with the
events, or never.

The page is `shown` (room and queue), `dirty` (React has yet to run the effect of line
222), and `told` (`currentSongRef`). `Sync` is `syncPlayerToState`; `Loaded`,
`OnMessage` and `OnAnswer` are the ways in which news arrives, each with the merge the
code does (`WithState`, `WithQueue`, the filter after an advance in `Remaining`). The
player, `deck`, does what it is told once it is `ready`, is silent on a refused autoplay
(`held`) and then shows `tap`. While the player is not ready or is held, the page's own
idea of "playing" is stale, so `Playing` is then either value. The clock is exact.

A player that has not begun its song (cued, or refused) or has reached its end is `idle`:
a seek may start it (`Starts`), whether it comes from an event, from the user or from the
tap, and whether the room plays or not. `Player` lets the iframe do the same. The start is
reported later (`stirs`), and unless the component still waits for an earlier play, the
report counts as the user's: `OnUserPlay` then sends a play to the room.

The history variables carry the exceptions. `seen` is the newest version of each part
(state, queue, player) the page was given, `unsure` the parts last given an older version
or told too little, `missed` the newest version whose announcement did not reach the page,
because it was not attached or because publishing failed (`Deliveries`; counted in
`losses` like a lost connection), `fetched` the newest that was loaded. An exception is
thus tied to a cause, and ends with the next proper news.

Bounds: `Call` (calls at a time), `MaxClock` (changes and time together), `MaxLosses`
(connections and announcements lost),
`MaxActs` (what the user does). Of the operations on the queue alone only `add` is
there. Left out: roster, volume and session (`Roster`, `Sound`, `Entry`), the error of the
clock (`Clock`), the time between rendering and effect beyond `dirty`, and the player's
late callbacks, which are the subject of `Player`.

### Player

Commands and state changes travel between two windows, as `orders` and `reports`. What the
page orders in one go (a seek and a play) is carried out in one go. `expects` is
`expectRef`, `Lapse` the end of its window at any time, `timer` the autoplay timer,
`known` what `getPlayerState` answers, `told` the callback of the last step. The iframe is
external: it buffers before it plays, may be refused to play until the user has clicked,
plays on after a seek if it played, and may or may not start at a seek if it was cued or
had ended. Every change in it is marked with who brought it about, which the component
cannot see and must work out. Songs and positions are left out, as are volume and mute
(`Sound`). `plain` remembers whether commands and clicks have overlapped or a command has
had no effect. A `Click` and an order share the bound `MaxActs`.

`Unmount` ends the iframe in one step. `onStateChange` asks `tearingDownRef` first, but
`onReady` does not: that it never comes after `destroy()` is YouTube's doing and is taken
for granted.

### AddSong and Search

`lookup[i]` is run `i` of the panel's effect: its text, and whether its timer runs or its
request is out. `Effect` is the effect with the clean-up of the run before it, which
stops the timer but not the request. A keystroke runs it at once, one that leaves the
trimmed text as it was too; the emptied input of a
finished import (`Imported`) runs it later, so that `stale` lets answers and clicks come
in between. `LookupAnswers` and `LookupFails` are the end of a request, guarded by
`Newest`, the comparison with `reqId`. Texts are model values, sorted into links to a
video or a playlist, a single letter, and words; a song is abstracted to the text it was
found for.

`Search` knows a text and what is said of it: nothing, "awaited", or once what came out.
`AddSong!Promise` maps the panel to it: `About` is the text of the newest run, `Says`
reads the list, the playlist and the status as the panel renders them. So an answer of an
older run that showed, or a second word about the same text, would be no step of `Search`.

### Sound

`sound`, `stored` and `deck` are volume and mute on the page, in storage and in the
player. `due` is the effect that applies and stores them; it does neither without a
player. React runs a due effect before the next change, hence the guard in `SetSound`.
`Remembered` is what a page starts with, for which a stored 0 is no volume at all.

### Roster

Each of the host's pages has its loads and its removal under way as snapshots of the
server's roster, and the announcements that are on their way to it, in order, `told`. A
page may hear an announcement or miss it. `gone` in a snapshot remembers whose removal
overtook it, `late` whom such a snapshot brought back or whose removal was missed.

On the server a `job` is a request that writes the room: a join (`GuestJoins`), a removal
(`Remove` on the page, `HandleRemove` when it arrives) or any other handler
(`OtherHandler`), which writes the roster back as it read it. Each reads, changes its copy
and saves it later, so that one undoes what another has saved in between. `lost` remembers
who was dropped by a write that did not mean to. A removal is answered when it is saved
and announced after that, or not at all. The roster is `room.users` of `Room` and nothing
else of it.

### Scene

A run of the effect is numbered; `held` is what it has acquired of the browser (renderer,
canvas, buffers, observer, listener) and `frame` whether it has asked for another frame.
Building the scene may throw after any of this (`MountThrows`), and then `cleanup` is
never set. The clean-up does not dispose of the grid by name; it goes with the WebGL
context, which is given up (`forceContextLoss`).

### Entry

`ids` numbers the users as their ids are drawn. `me` and `session` are `localStorage`,
shared by the tabs of a browser. `at[t]` is where a tab is; a page of the room keeps the
user it was mounted with. `calls[t]` are its calls, which outlive the page that made them
and navigate the tab when they are answered (`Led`), but not its document (`Visit`).
`Door` is the effect of `Join`: by a code, as the user of the session if there is one, or
by an old invite, as nobody. The server is `host[c]`: whose room lives under a code. A
removal is announced to every page that listens (`kicked`), which is told late or, its
socket being down, not at all. `MaxDisruptions` bounds the documents loaded by hand
and the rooms that expire, taken together.

`raced` is history: the browser met, for that code, one of the races that may split its
identity, which `KeepsIdentity` names. Codes are canonical, since the browser normalises
before it compares and stores, and the server's form is the same for every code it gives
out. (The two functions differ in one thing: `normalizeRoomID` strips every kind of white
space inside a code, `NormalizeRoomID` only blanks, `-` and `_`. The page sends its own
form, so that this shows only for hand-made requests.)

### The parts of the page in one run

`MCPageParts` instantiates `RoomSocket`, `AddSong`, `Sound`, `Scene`, `Roster` and
`Clock` side by side. They share no variable, so one of them (`part`) acts in each
behaviour while the others rest: the states add up instead of multiplying, and nothing is
lost, since no step of one depends on another.

## 3. Runs

Eight runs pass and four find a documented claim violated.

| Run | Question | Instance | Result |
|---|---|---|---|
| `hub_events` | joins and leaves against teardown, counts, presence; is an event ever skipped; is `Done` closed when and only when it must be | 2 sockets of 2 users, buffers of 1, 2 events | 529k states, holds |
| `hub_live` | does everything end or arrive | 2 sockets, 1 event, fair goroutines | 116k states, holds |
| `room` | two requests that overlap: is every stored room well formed, ranked and legitimately open; is a write an operation of the promised room; who moves the playhead; what does a follower know | 2 users, 2 songs, batches of 2; queueing, advancing or playing in one behaviour; followers of the queue and of the state | 496k states, holds |
| `room_end` | two reports of one song's end: does the queue move one step | 2 requests, 2 songs | violated |
| `invites` | joins by one invite that overlap, among other joins and removals | 2 requests at once, 3 users, at most 2 uses, a validity of 1 | 80k states, holds |
| `page_parts` | socket, clock, panel, volume, roster and animation, each against late answers, timers and clean-ups | 5 sockets; 2 pings under way, 3 skews, 5 ticks; 4 changes of 6 texts; 11 levels; 1 page, 2 guests, 2 requests that write the room, 4 of them in all; 4 runs | 496k states, holds |
| `entry` | who is a browser, in a room and for the room; does every join end | 2 tabs of a browser, 1 code, 2 ids, 2 disruptions (a document loaded by hand, a room that expires), fair tabs | 257k states, holds |
| `page` | does the page settle on the room and its player on the playhead | 1 call at a time, 2 units of time, 1 loss, 1 act of the user | 2.1M states, holds |
| `player` | whose doing is a change; is a refusal noticed; is a component silent once gone | 4 commands and clicks | 244k states, holds |
| `page_slip` | does a page that is attached never need to load again | 1 change, no loss | violated |
| `page_jump` | does play or pause leave the playhead in place | 2 units of time, 1 act | violated |
| `page_end` | does the end of a song advance past that song only | 3 units of time, no act | violated |

**Why the bounds are enough.** With one slot a buffer is full after one message, so slow
clients, silent drops and stuck pongs occur at once; a larger buffer adds only longer ways
to the same situations. Two sockets give a hub a last leave that races a join, a member
when another leaves or joins, and two generations of hubs; several sockets of one user,
and any number of sockets and generations, are covered by the proofs of `Ledger`,
`NobodyStranded`, `Attachment` and `PresenceAccurate`. Two events let one be missed. In
the room two overlapping requests are the smallest lost update, a third can only lose
more; two songs make duplicates and a rank, two users a host and a guest. What a run of
two overlapping requests costs is kept down by letting a behaviour of `room` queue,
advance or play, with the permission changing in each, by one song to advance to or to
play, and by a clock that stands still: all of this, the roster, batches and queues of any
length and any number of requests are in the proofs, which cover every property of the
run. In `Roster` a second page would add what the first already meets, since the removal
of another page reaches the first as one that it has itself given up. A vote in a longer
queue, where an item moves past several, is covered by the proof. Five sockets allow two
races and a reconnect after each. For a page two units of time are two changes, or a
change and some playing, of which either may be missed, late or told twice; a third only
extends what is out of date. One call at a time still meets every event and effect; two
calls that overtake each other are covered by the proofs of `Settles`, `DeckFollows` and
`InTune`. Four commands and clicks in `Player` allow a load, a command whose report is
late, a click, and one more for which to mistake it. Two uses allow a limit to be reached
by overlapping joins. Four changes of the panel's input let an import empty it while
lookups of two older texts and of the newest are under way. Two tabs of one browser are
what it takes to share storage. A second code adds a tab that is led from one room to
another, and one more race (see *Entry* under Proofs); it is covered by the proof of
`KeepsIdentity`. Two ids are an id of its own and one given by the server, or two that
strangers get. Every safety property of `page_parts` is proved, for any
bounds.

**Deadlock** is not checked where the system may stop: every connection has ended, the
bounded events, clock or sockets are used up, or no request comes.

**Fairness** (`Hub!Fairness`, used by `hub_live`). Goroutines are scheduled, the
registry's mutex is held for a few statements, and a `select` with several ready cases
picks among them at random, so a case that stays ready is taken: weak fairness of each.
Writing is fair as "written or failed", because of the write deadline. A read error is
fair once the connection is closed or the peer gone, because of the read deadline and
the pings. Redis confirms a subscription. Nothing is assumed of browsers: nobody has to
join, ping, publish, read or leave.

`AddSong!PanelFairness` (for `SearchEnds`): a timer fires, a request ends with an answer
or a failure, as a browser's requests do, and React runs an effect that is due. Nobody has
to type. `Entry!Fairness` (for `JoinEnds`): each tab goes on, in that one of the things it
waits for happens: a call is handled, answered or fails, a page is rendered, a load ends.
That is weak fairness of all of it together, since nothing says which comes first. Nobody
has to leave a page or press anything, and documents are loaded by hand only so often
(`MaxDisruptions`), without which somebody who reloads for ever would never get in.

### What the violated runs show

* `page_slip`. `ARCHITECTURE.md:75` says that clients "never need to refetch after
  someone else's change". The page loads the room when it is mounted and opens its
  socket independently; the first `onopen` does not load again (`useRoomSocket.ts:93`),
  and the server's subscription takes effect later still. A change in between reaches
  nobody here, and the page shows the old room until some later event. `Settles` shows
  that besides this only a lost connection or a failed publication makes a page miss a
  change, and that a load later on makes it good.
* `page_jump`. `Room.tsx:91-94` asks to gate all syncing on a ready player. `togglePlay`
  is not gated: until then `getTime` is 0, so a host who presses play after a reload
  sends everybody to the beginning. With `ready` as a guard of `TogglePlay` the same run
  finds nothing.
* `page_end`. `lib/api.ts:102-104` promises that "the queue still moves exactly one
  step" though every client reports the end of a song. `onEnded` reports the song the
  page shows, which need not be the one that ended: if somebody's skip has reached the
  page but not yet its player, the page asks for the song after the new one, and whoever
  may control playback gets it.
* `room_end`. The same promise, broken on the server. The check of `afterSongID`
  (`queue.go:221`) is made on the copy that was read, the write comes later. While `s1`
  plays and `s2` waits, a first report is read; somebody adds a song; a second report is
  read and saved, and `s2` plays with the added song waiting. The first report is saved
  then, against a room whose song is no longer `s1`, and takes the added song off the
  queue. Two reports read and saved with nothing in between write the same room and do no
  harm.

### Known limits that the properties name as exceptions

These are limits of the code, not of the models; the properties that hold say exactly
where they end.

* A write pump that returns after a failed write closes the connection, not `Done`. A
  read pump that then answers a ping on a full buffer stays in `Client.send`, and its
  user is counted, until the next room event drops the client (`ConnectionEnds`,
  `BroadcastFreesStuck`).
* A client that `deliver` drops is announced by nobody; presence is exact as long as no
  buffer was full (`PresenceAccurate`).
* A follower of the announcements is left with an old queue or state when the newest
  announcement fails, when two requests announce in another order than they saved, or
  when a stale write undoes what it does not announce (`Settled`).
* A write whose copy is out of date is no operation on the room as it is: it loses what
  was saved in between (`TakesEffectAtOnce`). So it may put the playhead back
  (`OnlyPlaybackMovesPlayhead`) or open control again after the host has closed it
  (`OpenedByHost` says that the host must once have opened it).
* A wake-up that finds the socket in `CLOSING` makes a second one beside the
  reconnection of the first; `Orderly` holds until then.
* More people than its limit join by an invite only if a count was written over a newer
  one (`JoinsAreCounted`).
* `InTune` lists when a player is not where the room is: a song started again, which is
  not new to the page; a seek heard late; a seek that starts a player which had not begun
  or had ended, in a room that is paused; an event before the player was ready; the
  user's own doing without a connection; a refused autoplay.
* A browser has two users in a room only after one of the races named in
  `KeepsIdentity`: two tabs that are strangers at the door at the same time, an old
  invite, a room created where the browser already is, a lost answer to its creation, a
  removal that reaches some of its pages and not others or comes after others are back.
* A page keeps the row of somebody who is not in the room only if a snapshot older than
  the removal's announcement came after it, the announcement was missed or not published,
  or a write of an older copy dropped them, which nobody announces (`NoGhostRow`). (The comment
  in `People.tsx:38` calls the roster append-only; `people.go:26-32` removes from it.)
* A scene that throws while it is built leaves what it had acquired (`SceneFreed`).
* Before the first pong the player is placed by the browser's own clock (`ClockClose`
  speaks of the time after it).
* An import that is done empties the input, whatever was typed in the meantime; the panel
  stays consistent (`ImplementsSearch`), the typed text is lost.
* `Player` tells the user's doing from its own (`Distinguishes`) unless a command
  overtakes the report of the one before, or one without effect (a play while it plays)
  leaves its expectation behind, for as long as that lasts.

Lost updates in the room are a limit that `ARCHITECTURE.md` itself names; the exceptions
`overtaken`, `doubt`, `lost` and `shared` are the same limit, tied to the write that causes
it.

## 4. Proofs

TLAPS proves these for every value of the constants; the runs above check them on small
instances.

| Theorem | Says |
|---|---|
| `HubProofs!TypeCorrect` | types, and no buffer beyond its capacity |
| `HubProofs!LedgerHolds` | `refs` counts the clients between `Join` and `Leave`, a hub nobody holds was told to quit, a room has one hub, nothing is closed twice |
| `HubProofs!NobodyIsStranded` | whoever is about to register or unregister has a live hub |
| `HubProofs!AttachmentHolds` | `Done` is closed exactly for detached clients |
| `HubProofs!StuckIsFreed` | the next event frees a stuck read pump |
| `HubProofs!NothingSkipped` | a living connection is sent consecutive events only, for buffers and streams of any length |
| `HubProofs!PresenceHolds` | while no buffer was full, the number last announced is the number of different users attached |
| `RoomProofs!TypeCorrect` | types, and no anchor in the future |
| `RoomProofs!AlwaysWellFormedHolds` | no duplicates, honest vote counts, the host in the roster, whatever overlaps and whatever fails |
| `RoomProofs!AlwaysRankedHolds` | no queue, stored or copied, has a song before one with more votes |
| `RoomProofs!VoteSortsStablyHolds` | placing the voted song is a stable sort, in a queue of any length |
| `RoomProofs!OpenedByHostHolds` | control is everybody's, stored or in a copy, only after a request of the host said so |
| `RoomProofs!SettledHolds` | who applies every announcement knows each part as it is stored, but for the causes named |
| `RoomProofs!PlayheadHolds` | only playback moves the playhead, unless it has moved since the room was read |
| `RoomProofs!TakesEffectAtOnceHolds` | a write on a copy that is not out of date is an operation of `RoomAtomic` by somebody entitled to it |
| `InvitesProofs!UsesWithinLimitHolds` | the count of an invite never passes its limit |
| `InvitesProofs!JoinsAreCountedHolds` | every join has been counted, unless a count was written over a newer one |
| `InvitesProofs!JoinsLikeAnyOtherHolds` | with invites the room still implements `Room` |
| `InvitesProofs!WellFormedWithInvites` | hence it stays well formed |
| `PlayerProofs!TypeCorrect` | types, and no timer without a player |
| `PlayerProofs!RefusalShowsHolds` | a refused autoplay is noticed |
| `PlayerProofs!DistinguishesHolds` | a change is announced as the user's if and only if it is, for any number of commands and clicks |
| `PlayerProofs!GoneIsSilentHolds` | a component that is gone calls nobody |
| `PagePartsProofs!NeverGivesUpHolds` | there is always a socket that will be heard of, or a timeout that makes one |
| `PagePartsProofs!OrderlyHolds` | one socket, interval and timeout at a time, until a wake-up meets a closing socket |
| `PagePartsProofs!CleanUpIsFinalHolds` | nothing connects after the clean-up |
| `PagePartsProofs!ImplementsSearchHolds` | the panel implements `Search` |
| `PagePartsProofs!LoudnessSurvivesHolds` | player and next visit are as loud as the slider says |
| `PagePartsProofs!SceneFreedHolds` | a run that was cleaned up holds and draws nothing, unless its scene threw |
| `PagePartsProofs!NoGhostRowHolds` | a row of somebody who is not in the room is about to go, but for the causes named |
| `PagePartsProofs!ClockCloseHolds` | the server's clock is known to within half of the last ping's way |
| `EntryProofs!TypeCorrect` | types of ids, sessions, pages and hosts |
| `EntryProofs!KeepsIdentityHolds` | one browser, one user per room, but for the races named; for any browsers, tabs and codes |
| `RoomPageProofs!TypeCorrect` | types, and a player that plays was not refused sound |
| `RoomPageProofs!SettlesHolds` | once nothing is under way the page shows the stored room, unless it missed a change or was told old news |
| `RoomPageProofs!DeckFollowsHolds` | a player that is ready has the song that the page shows |
| `RoomPageProofs!InTuneHolds` | ... and, but for the exceptions named, plays what the room plays, where the room is; for any calls, losses and clock |

Assumptions: those of the modules. The set of clients is finite and every client has a
user, a buffer has at least one slot (`ClientAssumption`, `UserAssumption`,
`CapAssumption`); the users are finitely many and contain the host, no song is `NoSong`,
durations are naturals (`HostAssumption`, `SongAssumption`, `TimeAssumption`); there
is a socket (`SockAssumption`), the kinds of text exclude each other (`TextAssumption`),
a first visit and an unmuted silence are audible (`LevelAssumption`), the host is no
guest (`RosterAssumption`), skews are integers (`ClockAssumption`); the queue a page finds
is one the server can have stored and a slider's position is no negative number
(`PageAssumption`; `Room.tsx:656` has `min={0}`); a follower follows parts of the room
(`FollowerAssumption`); the bounds are naturals (`BoundAssumption` and those just named), of
any size. No theorem keeps requests apart.

**Hub.** `Ledger` is inductive together with `TypeOK`. `refs = Cardinality(Holders)`
alone is not: a leave with `refs <= 1` deletes the hub of the registry, and a join may
follow, so one needs that the hub handed out is the only one with holders
(`OneHubPerRoom`) and that a hub is named after a client that has joined (`Lifecycle`),
lest a join create a hub under a name in use. `NobodyStranded` follows from `Ledger` at
once: a client about to register or unregister is a holder, a hub with holders has not
been told to quit, and one that has not been told to quit has not stopped.
`DoneIsDetached` needs `AttachedOnce`: a client is only ever in the map of its own hub,
so that the drop by another hub cannot concern it.

`NoEventSkipped` speaks of what a client has received, its buffer, and what its hub has
yet to broadcast, one after the other. Its invariant, `Lines`, speaks of these pieces
apart: a hub that runs and listens holds the events after the last one it has broadcast,
up to the newest (`InLine`); a client that it serves has, received and buffered together,
those up to that last one. A hub whose subscription has not taken effect serves only
clients that have not heard of any event (`Unaware`), so where it begins does not
matter, and a listener has ended only in a hub that was told to quit, which serves
nobody any more (`Ledger`).

**Room.** The invariant `Inductive` says that the stored room and the copy of every
request are `Fit`: typed, well formed, no anchor in the future, open only if the host
opened it. It must speak of the copies because a `Save` makes one of them the room; that
is also why lost updates are harmless to these properties: every copy was fit when it
was made, and time and `opened` only grow (`FitLater`). What remains is a lemma per
operation, of which the vote is the longest: moving one element of a queue permutes it
(`PlaceInQueue`, `MoveGood`).

Ranking and the stable sort rest on each other: every queue a handler can read is
ranked, so a vote puts exactly one item out of place; `PlaceSeparates` shows that what
belongs before that item is then an initial segment of the others, whose length is the
item's place; `MoveSorts` concludes that moving it there keeps any two items in the
order of the sort, hence the result is ranked again. The other operations keep the order
(`ThinnedRanked`) or append unvoted items (`AppendedRanked`).

Three properties speak of two pieces of state at a time, a copy or a follower's view and
the stored room; they rest on `InStep`, which holds for any number of overlapping
requests. Its first half, `StillAnswers`, is about a copy about to be saved: as long as
nothing was saved over it, it is the stored room changed by one operation of `RoomAtomic`
that its `by` allows; as long as nothing has moved the playhead since, and the request is
no playback operation, it has the stored room's anchor; and what it will not announce it
has as it is stored. A save by another request only grows `overtaken`, so that each clause
either keeps its premise and its conclusion or loses the premise. The second half is about
the follower: a part that is not in doubt and has news is yet to be announced by the
request that the news names (`NewsComes`), and that request's copy, or the view if there
is no news, has the part as it is stored (`TellsAsItIs`). When nothing is under way there
is no news, hence `Settled`.

**Invites.** Every step with invites is a step of `Room` or leaves it alone, since
`Admit` makes a request as `JoinRoom` does; so whatever `RoomProofs` shows carries over,
as `WellFormedWithInvites` does for one. The limit needs that every copy of the invite
under way is usable (`UsesLeft`): what is written is that copy with one use more.
For the count of joins, those that have spent their use and are not saved yet count too
(`Counted`).

**Player.** `RefusalShows` is not inductive: a refused load is known only to the iframe
until the timer has run out. The invariant follows the load: while the last order that
brings a new song is still on its way the timer that came with it runs or the page has
been told; a player that is not allowed to play is in no state that plays, and no report
of playing is under way that could stop the timer. `GoneIsSilent` needs that a player
that is gone has neither timer nor reports.

`Distinguishes` looks at one report and one expectation, but rests on everything between
the windows (`Traced`): while commands and clicks do not overlap there is at most one
order under way, expected to do what it will do and with no playing or paused before it
(`Ordered`); at most one playing or paused under way, expected exactly if the page has
brought it about (`Turns`, `Buffers`); and an expectation is never left behind
(`Owes`). That the newest report is what the iframe does (`Latest`) is what makes a
second, equal report impossible.

**Presence.** `PresenceAccurate` needs `AttachedOnce` again, so that the announcement of
one hub does not reach the clients of another, and that a client that has not begun has
overflowed nothing. The steps fall into three: those that leave presence alone, those
that announce (`PresenceAnnounced`), and those that drop clients, whose overflow is
remembered (`PresenceDropped`).

**RoomSocket.** `NeverGivesUp` needs that a timeout still running belongs to the page or
that its socket is alive. `Orderly` needs that the hook's handles name the timers that
run (`Handles`): the close of a socket clears the interval it knows, a wake-up the
timeout it knows.

**AddSong.** The refinement is by `Consistent`: "loading" means exactly that the newest
lookup is under way, and what is listed was found for the newest text. With it every end
of an older lookup is a stutter (`LookupUnseen`), the end of the newest is `Tell`, and
every run of the effect is `Ask`.

**Sound, Scene, Roster, Clock.** Silence always has its mute, and what was applied was
stored with it (`SoundInv`). Only the newest run may be alive, and what it holds it will
clean up (`OldRuns`, `Accounted`). Whatever a page shows, and every snapshot on its way
to it, is explained by somebody in the room, an announcement still to come, or a name
remembered as overtaken or lost (`Explained`, part of `RosterInv`). Whoever a
save drops is either its target, whose removal is then about to be announced, or goes into
`lost`; whoever it brings back needs no explanation. The requests must be spoken of too
(`JobsSound`): a copy has the host, and a target is a guest.
`Overtaken` must mark the snapshots at the moment the announcement is
heard. A ping under way was sent before it was served, by both clocks (`InTime`); then
half of its way bounds the error however the other half was spent, and afterwards both
clocks go on alike.

**Entry.** The invariant speaks of one browser and one code that met no race (`One`):
every page that listens and is not to be told of a removal is the user remembered
(`Heard`); if one is to be told, all are, and that user is not the host (`Removed`); the
calls under way name one user (`Agreed`), the one remembered if there is one
(`Recalled`); while the room is being created nobody is there yet (`Empty`), and from
then on its creator is remembered (`Hosts`). It needs that browsers draw different ids
(`Distinct`).

The proof found a race that the history did not count, because the run has one code: an
answer that leads a page from one room to another may come while a second page of the
browser is still to be told that its user was removed there. The page then listens
as that user, and the removal makes the browser forget it. `Led` revives a page that way
only if its own load had failed; `Answer` counts that race as `RoomRoute` counts its own.

**RoomPage.** The argument is about versions. For the state and for the queue there is a
version since which that part has not changed (`Since`): every event, every answer and,
if the page is sure of it, what the page shows, has the part as the room does if it is at
least that new; and the page has been given something that new, has it on its way, or is
known to have missed it. A change of the part makes the newest version that one, and has
either announced itself or been noted in `missed` (`ChangeKeeps`); every other step moves
pieces along the way from `wire` or `call` to `shown` (`PartsKeep`). Once nothing is on
its way and what was missed has been loaded, the page has been given it: `Settles`. The
filter after an advance needs a lemma of its own, that it leaves a queue alone which does
not hold the song (`RemainingAll`). `DeckFollows` rests on `Seated`: a new song of the
page leaves `dirty` set until the effect has run.

`InTune` asks the same of the playback, for which the player is one place more (`Heard`):
what the player was last told, if nothing has left it in doubt, is at least as new as
what the page shows (`Relayed`); and if that is as new as the playback is, the player
plays as the room does and where it does, or has stopped because the song is over
(`Plays`). In step, player and playhead move with the clock alike (`TimePasses`); a
position is never negative, so that clipping it changes nothing (`Placed`); "play" comes
with a room that plays and "pause" with one that does not (`Honest`).

A seek may start an idle player, and whichever it does is a choice of the step. If the
player then plays while the room does not, the player is in doubt (`SeeksAstray`,
`StartListening`), or the user's own message is on its way and will be heard again; the
report of the start only sends a message, like any other of the user's (`OnUserPlay`). So
of `idle` and `stirs` the proof needs their types alone (`Rested`).

The attempt to prove `InTune` found an exception that the history did not count, because it
takes two calls and two losses to matter: an effect that found the player in step with
a newer state left no trace, so that an older playback event that came afterwards passed
for news, though it moved the player away from the room. `SyncShown` now counts what the
effect has found as told.

Only model-checked: liveness under fairness, which is out of the prover's reach
(`JoinCompletes`, `TeardownEnds`, `EventArrives`, `ConnectionEnds`, `SearchEnds`,
`JoinEnds`). Every invariant, action property and refinement that a passing run checks is
stated by a theorem.

## 5. What is not modelled, and the plan

Not modelled, and why:

* Parsing of third-party pages (`music/`), the paging of a playlist and the search cache:
  sequential, input and output only. To the page a lookup is a call that ends.
* The spelling of room codes: string rewriting without state (see *Entry*).
* Start-up, routing, CORS and origin checks: configuration.
* Rendering: `Queue`, `RoomPreview`, `Brand`, `EqualizerMark`, `ErrorPage`, most of
  `Room`, `Home` and `Join`. `SharePanel` keeps a "copied" message that a timer clears.
* React's double run of effects in development. (`YouTubePlayer` sets `tearingDownRef` in
  its clean-up and nowhere resets it, so there the second run's state changes are all
  ignored. A production build runs effects once.)

What a next step would take, in this order:

1. An abstract specification of the hub (a connection is sent a run of the room's events
   without gaps, or is closed), and the proof that `Hub` implements it.
2. `InTune` under the error that `Clock` bounds: how far a player may be from the room.
3. The two normalisations of a code, and the paging of a playlist, as pure algorithms
   against reference definitions.
