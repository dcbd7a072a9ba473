----------------------------- MODULE RoomProofs -----------------------------
(***************************************************************************)
(* Proofs about Room for any users, songs, requests and bounds.            *)
(*                                                                         *)
(* The argument: a handler is given a good copy of the room and makes a    *)
(* good copy of it, so what is stored and what is about to be stored is    *)
(* good, however the requests interleave.                                  *)
(*                                                                         *)
(* What is about to be saved is moreover the room as it is, changed by one *)
(* operation, until another request saves; and an announcement tells the   *)
(* part it is about as it is, until it has been overtaken.                 *)
(***************************************************************************)
EXTENDS Room, RoomOpsProofs

USE HostAssumption, SongAssumption, TimeAssumption, BoundAssumption, FollowerAssumption

-----------------------------------------------------------------------------
(* The inductive invariant: the stored room, and the copy of every request *)
(* that has one, is fit.                                                   *)

CopiesFit(t, open) ==
    /\ Fit(room, t, open)
    /\ \A r \in Req : req[r] # Idle => Fit(req[r].copy, t, open)

ReqType ==
    /\ req \in [Req -> {Idle} \cup Request]
    /\ \A r \in Req : req[r].phase = "publishing" => req[r].events # <<>>

Inductive ==
    /\ now \in Nat
    /\ opened \in BOOLEAN
    /\ ReqType
    /\ CopiesFit(now, opened)

LEMMA InductiveInit == Init => Inductive
<1> SUFFICES ASSUME Init PROVE Inductive
  OBVIOUS
<1>1. now = 0 /\ opened = FALSE /\ Fit(room, 0, FALSE)
  BY NewRoomFit DEF Init
<1>2. \A r \in Req : req[r] = Idle
  BY DEF Init
<1>3. req \in [Req -> {Idle} \cup Request]
  BY DEF Init
<1>4. ReqType
  BY <1>2, <1>3 DEF ReqType, Idle
<1> QED BY <1>1, <1>2, <1>4 DEF Inductive, CopiesFit

(* A handler that prepares a fit copy keeps the invariant.                 *)
LEMMA PrepareKeeps ==
    ASSUME Inductive, NEW r \in Req, NEW kind, NEW by \in SUBSET User, NEW copy,
           NEW events \in Seq(Events), NEW after \in Song \cup {NoSong},
           Prepare(r, kind, by, copy, events, after), Fit(copy, now, opened')
    PROVE  Inductive'
<1> DEFINE new == [phase |-> "saving", kind |-> kind, by |-> by, copy |-> copy,
                   events |-> events, after |-> after]
<1>0. opened' \in BOOLEAN /\ (opened => opened')
  BY DEF Prepare, Inductive
<1>1. now \in Nat /\ opened \in BOOLEAN /\ now <= now /\ req \in [Req -> {Idle} \cup Request]
  BY DEF Inductive, ReqType
<1>2. new \in Request
  BY DEF Prepare, Request, Fit
<1>3. req' = [req EXCEPT ![r] = new] /\ room' = room /\ now' = now
  BY DEF Prepare
<1>4. \A q \in Req : req'[q] = IF q = r THEN new ELSE req[q]
  BY <1>1, <1>3
<1>5. req' \in [Req -> {Idle} \cup Request]
  BY <1>1, <1>2, <1>3
<1>6. \A q \in Req : req'[q].phase = "publishing" => req'[q].events # <<>>
  BY <1>4 DEF Inductive, ReqType
<1>7. Fit(room, now, opened')
  BY <1>0, <1>1, FitLater DEF Inductive, CopiesFit
<1>8. ASSUME NEW q \in Req, req'[q] # Idle
      PROVE  Fit(req'[q].copy, now, opened')
  <2>1. CASE q = r
    BY <1>4, <2>1
  <2>2. CASE q # r
    <3>1. Fit(req[q].copy, now, opened)
      BY <1>4, <1>8, <2>2 DEF Inductive, CopiesFit
    <3>2. Fit(req[q].copy, now, opened')
      BY <1>0, <1>1, <3>1, FitLater
    <3> QED BY <1>4, <2>2, <3>2
  <2> QED BY <2>1, <2>2
<1>9. ReqType'
  BY <1>5, <1>6 DEF ReqType
<1> QED BY <1>0, <1>1, <1>3, <1>7, <1>8, <1>9 DEF Inductive, CopiesFit

(* ... and it need not have been the host who opened control.              *)
LEMMA PlainlyKeeps ==
    ASSUME Inductive, NEW r \in Req, NEW kind, NEW by \in SUBSET User, NEW copy,
           NEW events \in Seq(Events),
           Plainly(r, kind, by, copy, events), Fit(copy, now, opened)
    PROVE  Inductive'
<1>1. opened' \in BOOLEAN /\ (opened => opened') /\ opened \in BOOLEAN /\ now \in Nat
  BY DEF Plainly, Prepare, Inductive
<1>2. Prepare(r, kind, by, copy, events, NoSong)
  BY DEF Plainly
<1>3. Fit(copy, now, opened')
  BY <1>1, FitLater
<1> QED BY <1>2, <1>3, PrepareKeeps

(* A request that ends, or goes on with what it has, keeps the invariant;  *)
(* so does the write of a fit copy.                                        *)
LEMMA FinishKeeps ==
    ASSUME Inductive, NEW r \in Req, req[r] # Idle,
           NEW rest \in {Idle} \cup Request,
           rest # Idle => rest.copy = req[r].copy /\ (rest.phase = "publishing" => rest.events # <<>>),
           req' = [req EXCEPT ![r] = rest], room' \in {room, req[r].copy},
           UNCHANGED <<now, opened>>
    PROVE  Inductive'
<1>1. req \in [Req -> {Idle} \cup Request]
  BY DEF Inductive, ReqType
<1>2. \A q \in Req : req'[q] = IF q = r THEN rest ELSE req[q]
  BY <1>1
<1>3. req' \in [Req -> {Idle} \cup Request]
  BY <1>1
<1>4. \A q \in Req : req'[q].phase = "publishing" => req'[q].events # <<>>
  BY <1>2 DEF Inductive, ReqType, Idle
<1>5. Fit(room, now, opened) /\ Fit(req[r].copy, now, opened)
  BY DEF Inductive, CopiesFit
<1>6. Fit(room', now, opened)
  BY <1>5
<1>7. ASSUME NEW q \in Req, req'[q] # Idle
      PROVE  Fit(req'[q].copy, now, opened)
  BY <1>2, <1>5, <1>7 DEF Inductive, CopiesFit
<1>8. ReqType'
  BY <1>3, <1>4 DEF ReqType
<1>9. now' = now /\ opened' = opened /\ now \in Nat /\ opened \in BOOLEAN
  BY DEF Inductive
<1> QED BY <1>6, <1>7, <1>8, <1>9 DEF Inductive, CopiesFit

(* The handlers of the queue.                                              *)
LEMMA QueueingKeeps ==
    ASSUME Inductive, NEW r \in Req, Queueing(r)
    PROVE  Inductive'
<1>1. now \in Nat /\ opened \in BOOLEAN /\ Fit(room, now, opened)
  BY DEF Inductive, CopiesFit
<1>2. <<"queue">> \in Seq(Events)
  BY DEF Events
<1>3. CASE AddQueueItem(r)
  <2>1. PICK song \in Song : CanAdd(room, song) /\ Plainly(r, "add", {}, Add(room, song), <<"queue">>)
    BY <1>3 DEF AddQueueItem
  <2>2. Fit(Add(room, song), now, opened)
    BY <1>1, <2>1, QueueOpsFit
  <2> QED BY <1>2, <2>1, <2>2, PlainlyKeeps
<1>4. CASE AddQueueBatch(r)
  <2>1. PICK n \in 1..MaxBatch : \E songs \in [1..n -> Song] : \E kept \in InOrder(Kept(room, songs)) :
               Plainly(r, "batch", {}, AddBatch(room, songs, kept), <<"queue">>)
    BY <1>4 DEF AddQueueBatch
  <2>2. n \in Nat
    OBVIOUS
  <2>3. PICK songs \in [1..n -> Song] : \E kept \in InOrder(Kept(room, songs)) :
               Plainly(r, "batch", {}, AddBatch(room, songs, kept), <<"queue">>)
    BY <2>1
  <2>4. PICK kept \in InOrder(Kept(room, songs)) :
               Plainly(r, "batch", {}, AddBatch(room, songs, kept), <<"queue">>)
    BY <2>3
  <2>5. Fit(AddBatch(room, songs, kept), now, opened)
    BY <1>1, <2>2, QueueOpsFit
  <2> QED BY <1>2, <2>4, <2>5, PlainlyKeeps
<1>5. CASE VoteQueueItem(r)
  <2>1. PICK user \in User, i \in DOMAIN room.queue :
               Plainly(r, "vote", {}, Vote(room, i, user), <<"queue">>)
    BY <1>5 DEF VoteQueueItem
  <2>2. Fit(Vote(room, i, user), now, opened)
    BY <1>1, <2>1, QueueOpsFit
  <2> QED BY <1>2, <2>1, <2>2, PlainlyKeeps
<1>6. CASE DeleteQueueItem(r)
  <2>1. PICK user \in User, i \in DOMAIN room.queue : Plainly(r, "delete", {user}, Delete(room, i), <<"queue">>)
    BY <1>6 DEF DeleteQueueItem
  <2>2. Fit(Delete(room, i), now, opened)
    BY <1>1, <2>1, QueueOpsFit
  <2> QED BY <1>2, <2>1, <2>2, PlainlyKeeps
<1> QED BY <1>3, <1>4, <1>5, <1>6 DEF Queueing

(* The handlers of playback.                                               *)
LEMMA PlayingKeeps ==
    ASSUME Inductive, NEW r \in Req, Playing(r)
    PROVE  Inductive'
<1>1. now \in Nat /\ opened \in BOOLEAN /\ Fit(room, now, opened)
  BY DEF Inductive, CopiesFit
<1>2. <<"state">> \in Seq(Events) /\ <<"state", "queue">> \in Seq(Events)
  BY DEF Events
<1>3. CASE NextQueueItem(r)
  <2>1. PICK user \in User, after \in Song \cup {NoSong} :
               /\ CanNext(room, user, after, now)
               /\ Prepare(r, "next", {user}, Advance(room, now), <<"state", "queue">>, after)
    BY <1>3 DEF NextQueueItem
  <2>2. Fit(Advance(room, now), now, opened)
    BY <1>1, <2>1, PlaybackOpsFit DEF CanNext
  <2>3. Fit(Advance(room, now), now, opened')
    BY <1>1, <2>1, <2>2, FitLater DEF Prepare
  <2> QED BY <1>2, <2>1, <2>3, PrepareKeeps
<1>4. CASE PlayNowSong(r)
  <2>1. PICK user \in User, song \in Song : Plainly(r, "playNow", {user}, PlayNow(room, song, now), <<"state">>)
    BY <1>4 DEF PlayNowSong
  <2>2. Fit(PlayNow(room, song, now), now, opened)
    BY <1>1, <2>1, PlaybackOpsFit
  <2> QED BY <1>2, <2>1, <2>2, PlainlyKeeps
<1>5. CASE PlaybackControl(r)
  <2>1. PICK everyone \in BOOLEAN :
               Prepare(r, "control", {Host}, Control(room, everyone), <<"state">>, NoSong)
    BY <1>5 DEF PlaybackControl, Plainly
  <2>2. Control(room, everyone).everyone = everyone
    BY <1>1 DEF Control, Fit, RoomData
  <2>3. opened' = (opened \/ everyone)
    BY <2>1, <2>2 DEF Prepare
  <2>4. Fit(Control(room, everyone), now, opened')
    BY <1>1, <2>3, PlaybackOpsFit
  <2>5. {Host} \in SUBSET User
    OBVIOUS
  <2> QED BY <1>2, <2>1, <2>4, <2>5, PrepareKeeps
<1>6. CASE PlaybackEvent(r)
  <2>1. PICK user \in User, action \in {"play", "pause", "seek"}, pos \in Pos :
               Plainly(r, "event", {user}, Playback(room, action, pos, now), <<action>>)
    BY <1>6 DEF PlaybackEvent
  <2>2. Fit(Playback(room, action, pos, now), now, opened)
    BY <1>1, <2>1, PlaybackOpsFit
  <2>3. <<action>> \in Seq(Events)
    BY <2>1 DEF Events
  <2> QED BY <2>1, <2>2, <2>3, PlainlyKeeps
<1> QED BY <1>3, <1>4, <1>5, <1>6 DEF Playing

(* The handlers of the roster.                                             *)
LEMMA GatheringKeeps ==
    ASSUME Inductive, NEW r \in Req, Gathering(r)
    PROVE  Inductive'
<1>1. now \in Nat /\ opened \in BOOLEAN /\ Fit(room, now, opened)
  BY DEF Inductive, CopiesFit
<1>2. <<>> \in Seq(Events) /\ <<"kicked">> \in Seq(Events)
  BY DEF Events
<1>3. CASE JoinRoom(r)
  <2>1. PICK user \in User : Plainly(r, "join", {}, Join(room, user), <<>>)
    BY <1>3 DEF JoinRoom
  <2>2. Fit(Join(room, user), now, opened)
    BY <1>1, <2>1, PeopleOpsFit
  <2> QED BY <1>2, <2>1, <2>2, PlainlyKeeps
<1>4. CASE RemoveFromRoom(r)
  <2>1. PICK user \in User, target \in User :
               /\ CanRemove(user, target)
               /\ Plainly(r, "remove", {user}, RemoveUser(room, target), <<"kicked">>)
    BY <1>4 DEF RemoveFromRoom
  <2>2. Fit(RemoveUser(room, target), now, opened)
    BY <1>1, <2>1, PeopleOpsFit
  <2> QED BY <1>2, <2>1, <2>2, PlainlyKeeps
<1> QED BY <1>3, <1>4 DEF Gathering

(* Writing, failing to, and announcing.                                    *)
LEMMA FinishingKeeps ==
    ASSUME Inductive, NEW r \in Req, Finishing(r)
    PROVE  Inductive'
<1>1. req \in [Req -> {Idle} \cup Request]
  BY DEF Inductive, ReqType
<1>2. req[r] # Idle /\ req[r] \in Request
  <2>1. req[r].phase # "idle"
    BY DEF Finishing, Save, SaveFails, Publish, PublishFails
  <2> QED BY <1>1, <2>1 DEF Idle
<1>3. CASE Save(r)
  <2> DEFINE rest == IF req[r].events = <<>> THEN Idle ELSE [req[r] EXCEPT !.phase = "publishing"]
  <2>1. req' = [req EXCEPT ![r] = rest] /\ room' = req[r].copy /\ UNCHANGED <<now, opened>>
    BY <1>1, <1>3 DEF Save
  <2>2. rest \in {Idle} \cup Request
    BY <1>2 DEF Request
  <2>3. rest # Idle => rest.copy = req[r].copy /\ (rest.phase = "publishing" => rest.events # <<>>)
    BY <1>2 DEF Request
  <2> HIDE DEF rest
  <2> QED BY <1>2, <2>1, <2>2, <2>3, FinishKeeps
<1>4. CASE SaveFails(r)
  <2>1. req' = [req EXCEPT ![r] = Idle] /\ room' = room /\ UNCHANGED <<now, opened>>
    BY <1>4 DEF SaveFails
  <2> QED BY <1>2, <2>1, FinishKeeps
<1>5. CASE Publish(r) \/ PublishFails(r)
  <2> DEFINE left == Tail(req[r].events)
             rest == IF left = <<>> THEN Idle ELSE [req[r] EXCEPT !.events = left]
  <2>1. Announced(r) /\ UNCHANGED <<room, now, opened>>
    BY <1>5 DEF Publish, PublishFails
  <2>2. req' = [req EXCEPT ![r] = rest]
    BY <2>1 DEF Announced
  <2>3. req[r].events \in Seq(Events) /\ req[r].events # <<>>
    BY <1>2, <1>5 DEF Publish, PublishFails, Inductive, ReqType, Request
  <2>4. left \in Seq(Events)
    BY <2>3, HeadTailProperties
  <2> HIDE DEF left
  <2>5. rest \in {Idle} \cup Request
    BY <1>2, <2>4 DEF Request
  <2>6. rest # Idle => rest.copy = req[r].copy /\ rest.events # <<>>
    BY <1>2, <2>4 DEF Request
  <2> HIDE DEF rest
  <2> QED BY <1>2, <2>1, <2>2, <2>5, <2>6, FinishKeeps
<1> QED BY <1>3, <1>4, <1>5 DEF Finishing

LEMMA InductiveStep == Inductive /\ [Next]_vars => Inductive'
<1> SUFFICES ASSUME Inductive, [Next]_vars PROVE Inductive'
  OBVIOUS
<1>1. CASE Tick
  <2>1. now \in Nat /\ now' = now + 1 /\ UNCHANGED <<room, req, opened>> /\ opened \in BOOLEAN
    BY <1>1 DEF Tick, Inductive
  <2>2. \A copy : Fit(copy, now, opened) => Fit(copy, now', opened)
    BY <2>1, FitLater
  <2> QED BY <2>1, <2>2 DEF Inductive, CopiesFit, ReqType
<1>2. CASE \E r \in Req : Queueing(r) \/ Playing(r) \/ Gathering(r) \/ Finishing(r)
  BY <1>2, QueueingKeeps, PlayingKeeps, GatheringKeeps, FinishingKeeps
<1>3. CASE UNCHANGED vars
  BY <1>3 DEF vars, Inductive, CopiesFit, ReqType
<1> QED BY <1>1, <1>2, <1>3 DEF Next

(* A handler that has changed its copy holds it for its request to save.   *)
LEMMA HandlersPrepare ==
    ASSUME NEW r \in Req, Queueing(r) \/ Playing(r) \/ Gathering(r)
    PROVE  \E kind, by, copy, events, after : Prepare(r, kind, by, copy, events, after)
<1>1. CASE Queueing(r)
  BY <1>1 DEF Queueing, AddQueueItem, AddQueueBatch, VoteQueueItem, DeleteQueueItem, Plainly
<1>2. CASE Playing(r)
  BY <1>2 DEF Playing, NextQueueItem, PlayNowSong, PlaybackControl, PlaybackEvent, Plainly
<1>3. CASE Gathering(r)
  BY <1>3 DEF Gathering, JoinRoom, RemoveFromRoom, Plainly
<1> QED BY <1>1, <1>2, <1>3

(* The copies are those of the requests that have one.                     *)
LEMMA CopiesOfInductive ==
    ASSUME Inductive
    PROVE  \A copy \in Copies \cup {room} : Fit(copy, now, opened)
BY DEF Inductive, CopiesFit, Copies, Busy, Idle

-----------------------------------------------------------------------------
(* The types of the histories.                                             *)
Histories ==
    /\ overtaken \in [Req -> SUBSET {"room", "anchor"}]
    /\ DOMAIN view \in Follower /\ doubt \subseteq DOMAIN view
    /\ news \in [DOMAIN view -> SUBSET Req]

LEMMA HistoriesInit == Init => Histories
<1> SUFFICES ASSUME Init PROVE Histories
  OBVIOUS
<1>1. PICK parts \in Follower : /\ view = [p \in parts |-> Part(p, NewRoom(0))]
                               /\ news = [p \in parts |-> {}]
  BY DEF Init
<1> QED BY <1>1 DEF Init, Histories

LEMMA HistoriesStep == Histories /\ [Next]_vars => Histories'
<1> SUFFICES ASSUME Histories, [Next]_vars PROVE Histories'
  OBVIOUS
<1>1. CASE UNCHANGED <<overtaken, view, news, doubt>>
  BY <1>1 DEF Histories
<1>2. ASSUME NEW r \in Req, Save(r) PROVE Histories'
  <2>1. overtaken' \in [Req -> SUBSET {"room", "anchor"}]
    BY <1>2 DEF Save, Overtakes, Histories
  <2>2. view' = view /\ news' \in [DOMAIN view -> SUBSET Req] /\ doubt' \subseteq DOMAIN view
    BY <1>2 DEF Save, Concerns, Histories
  <2> QED BY <2>1, <2>2 DEF Histories
<1>3. ASSUME NEW r \in Req, SaveFails(r) PROVE Histories'
  BY <1>3 DEF SaveFails, Histories, follower
<1>4. ASSUME NEW r \in Req, Publish(r) PROVE Histories'
  BY <1>4 DEF Publish, Hear, Histories, follower
<1>5. ASSUME NEW r \in Req, PublishFails(r) PROVE Histories'
  BY <1>5 DEF PublishFails, Histories
<1>6. ASSUME NEW r \in Req, Queueing(r) \/ Playing(r) \/ Gathering(r) PROVE Histories'
  BY <1>1, <1>6, HandlersPrepare DEF Prepare, follower
<1>7. CASE Tick \/ UNCHANGED vars
  BY <1>1, <1>7 DEF Tick, vars, follower
<1> QED BY <1>2, <1>3, <1>4, <1>5, <1>6, <1>7 DEF Next, Finishing

-----------------------------------------------------------------------------
(* Room's types are kept, and no anchor lies in the future.                *)
THEOREM TypeCorrect == Spec => []TypeOK
<1>1. Inductive /\ Histories => TypeOK
  <2> SUFFICES ASSUME Inductive, Histories PROVE TypeOK
    OBVIOUS
  <2>1. \A copy \in Copies \cup {room} : copy \in RoomData /\ copy.updatedAt <= now
    BY CopiesOfInductive DEF Fit
  <2> QED BY <2>1 DEF TypeOK, Inductive, ReqType, Histories
<1> QED BY <1>1, InductiveInit, InductiveStep, HistoriesInit, HistoriesStep, PTL DEF Spec

(* However requests overlap, whatever is stored or about to be has no song *)
(* twice in its queue, honest vote counts and the host on its roster.      *)
THEOREM AlwaysWellFormedHolds == Spec => []AlwaysWellFormed
<1>1. Inductive => AlwaysWellFormed
  BY CopiesOfInductive DEF AlwaysWellFormed, Fit
<1> QED BY <1>1, InductiveInit, InductiveStep, PTL DEF Spec

(* ... and in no queue does a song stand before one with more votes.       *)
THEOREM AlwaysRankedHolds == Spec => []AlwaysRanked
<1>1. Inductive => AlwaysRanked
  BY CopiesOfInductive DEF AlwaysRanked, Fit
<1> QED BY <1>1, InductiveInit, InductiveStep, PTL DEF Spec

(* Placing the voted song sorts the whole queue, stably, at every vote.    *)
THEOREM VoteSortsStablyHolds == Spec => []VoteSortsStably
<1>1. Inductive => VoteSortsStably
  <2> SUFFICES ASSUME Inductive, NEW i \in DOMAIN room.queue, NEW user \in User
               PROVE  IsStableSort(Toggled(room, i, user), Vote(room, i, user).queue)
    BY DEF VoteSortsStably
  <2>1. room \in RoomData /\ GoodQueue(room.queue) /\ Ranked(room.queue)
    BY FitQueue DEF Inductive, CopiesFit, Fit
  <2> QED BY <2>1, VoteSorts
<1> QED BY <1>1, InductiveInit, InductiveStep, PTL DEF Spec

(* Control is for everyone only if the host has opened it some time: no    *)
(* other operation, whoever asks for it and however it is delayed, does.   *)
THEOREM OpenedByHostHolds == Spec => []OpenedByHost
<1>1. Inductive => OpenedByHost
  BY CopiesOfInductive DEF OpenedByHost, Fit
<1> QED BY <1>1, InductiveInit, InductiveStep, PTL DEF Spec

-----------------------------------------------------------------------------
(* What a request is about to save.  Nothing keeps the requests of a room  *)
(* apart; what follows is said of the room as it is when the copy is       *)
(* written, for as long as the copy has not been overtaken.                *)

(* Some operation for which the authority of the users in `by` suffices    *)
(* turns the room `old` into `new` at time t.                              *)
Becomes(by, old, new, t) ==
    \/ \E song \in Song : CanAdd(old, song) /\ new = Add(old, song)
    \/ \E n \in 1..MaxBatch : \E songs \in [1..n -> Song] :
         \E kept \in InOrder(Kept(old, songs)) : new = AddBatch(old, songs, kept)
    \/ \E user \in User, i \in DOMAIN old.queue : new = Vote(old, i, user)
    \/ \E user \in User : CanJoin(old, user) /\ new = Join(old, user)
    \/ \E user \in by, after \in Song \cup {NoSong} :
         CanNext(old, user, after, t) /\ new = Advance(old, t)
    \/ \E user \in by, i \in DOMAIN old.queue : MayControl(old, user) /\ new = Delete(old, i)
    \/ \E user \in by, song \in Song : MayControl(old, user) /\ new = PlayNow(old, song, t)
    \/ \E user \in by, action \in {"play", "pause", "seek"}, pos \in Pos :
         MayControl(old, user) /\ new = Playback(old, action, pos, t)
    \/ \E everyone \in BOOLEAN : Host \in by /\ new = Control(old, everyone)
    \/ \E target \in User : Host \in by /\ CanRemove(Host, target) /\ new = RemoveUser(old, target)

Moves(kind) == kind \in {"next", "playNow", "event"}

(* The request q is an operation on the room as it is; it moves the        *)
(* playhead only if it is of playback; it announces what it changes.       *)
Answers(q) ==
    /\ \E t \in 0..now : Becomes(q.by, room, q.copy, t)
    /\ Moves(q.kind) \/ Anchor(q.copy) = Anchor(room)
    /\ \A p \in Parts \ ToSet(q.events) : Part(p, q.copy) = Part(p, room)

(* ... as far as it has not been overtaken.                                *)
StillAnswers(q, over) ==
    /\ over = {} => \E t \in 0..now : Becomes(q.by, room, q.copy, t)
    /\ Moves(q.kind) \/ "anchor" \in over \/ Anchor(q.copy) = Anchor(room)
    /\ "room" \notin over => \A p \in Parts \ ToSet(q.events) : Part(p, q.copy) = Part(p, room)

(* A part of which there is news is still to be announced...               *)
NewsComes(p) ==
    news[p] = {} \/ \E r \in Req : /\ news[p] = {r} /\ req[r].phase = "publishing"
                                   /\ p \in ToSet(req[r].events)

(* ... as it is.  A part of which there is none has been.                  *)
TellsAsItIs(p) ==
    IF news[p] = {} THEN view[p] = Part(p, room)
                    ELSE \A r \in news[p] : Part(p, req[r].copy) = Part(p, room)

InStep ==
    /\ \A r \in Req : req[r].phase = "saving" => StillAnswers(req[r], overtaken[r])
    /\ \A p \in DOMAIN view : NewsComes(p)
    /\ \A p \in DOMAIN view \ doubt : TellsAsItIs(p)

LEMMA AnnouncedParts ==
    /\ ToSet(<<>>) = {} /\ ToSet(<<"state", "queue">>) = {"state", "queue"}
    /\ \A e : ToSet(<<e>>) = {e}
BY DEF ToSet

(* What is announced first, and what is left.                              *)
LEMMA AnnouncedNext ==
    ASSUME NEW events \in Seq(Events), events # <<>>
    PROVE  \A e \in ToSet(events) : e = Head(events) \/ e \in ToSet(Tail(events))
<1> SUFFICES ASSUME NEW i \in 1..Len(events)
             PROVE  events[i] = Head(events) \/ events[i] \in ToSet(Tail(events))
  BY DEF ToSet
<1>1. CASE i = 1
  BY <1>1
<1>2. CASE i # 1
  <2>1. i - 1 \in 1..Len(Tail(events)) /\ Tail(events)[i - 1] = events[i]
    BY <1>2
  <2>2. DOMAIN Tail(events) = 1..Len(Tail(events))
    OBVIOUS
  <2> QED BY <2>1, <2>2 DEF ToSet
<1> QED BY <1>1, <1>2

(* Fields that a handler leaves alone.                                     *)
LEMMA OnlyTheQueue ==
    ASSUME NEW old \in RoomData, NEW q
    PROVE  LET new == [old EXCEPT !.queue = q] IN
           /\ Anchor(new) = Anchor(old)
           /\ \A p \in Parts \ ToSet(<<"queue">>) : Part(p, new) = Part(p, old)
BY AnnouncedParts DEF Part, Parts, Anchor, RoomData

LEMMA OnlyTheRoster ==
    ASSUME NEW old \in RoomData, NEW users
    PROVE  LET new == [old EXCEPT !.users = users] IN
           /\ Anchor(new) = Anchor(old)
           /\ \A p \in Parts : Part(p, new) = Part(p, old)
BY DEF Part, Parts, Anchor, RoomData

(* A request of this record is about to be saved on the room as it is.     *)
PreparesAnswer(r) ==
    \E q : /\ Answers(q) /\ q.phase = "saving"
           /\ req' = [req EXCEPT ![r] = q]
           /\ req[r].phase = "idle"
           /\ UNCHANGED <<room, now, overtaken, follower>>

LEMMA Answering ==
    ASSUME Inductive, NEW r \in Req, NEW kind, NEW by, NEW copy, NEW events, NEW after,
           Prepare(r, kind, by, copy, events, after), Becomes(by, room, copy, now),
           Moves(kind) \/ Anchor(copy) = Anchor(room),
           \A p \in Parts \ ToSet(events) : Part(p, copy) = Part(p, room)
    PROVE  PreparesAnswer(r)
<1> DEFINE q == [phase |-> "saving", kind |-> kind, by |-> by, copy |-> copy,
                 events |-> events, after |-> after]
<1>1. now \in 0..now
  BY DEF Inductive
<1>2. q.copy = copy /\ q.by = by /\ q.kind = kind /\ q.events = events /\ q.phase = "saving"
  OBVIOUS
<1>3. /\ req' = [req EXCEPT ![r] = q] /\ req[r].phase = "idle"
      /\ UNCHANGED <<room, now, overtaken, follower>>
  BY DEF Prepare
<1> HIDE DEF q
<1>4. Answers(q)
  BY <1>1, <1>2 DEF Answers
<1> QED BY <1>2, <1>3, <1>4 DEF PreparesAnswer

(* The handlers of the queue touch nothing else.                           *)
LEMMA QueueingAnswers ==
    ASSUME Inductive, NEW r \in Req, Queueing(r)
    PROVE  PreparesAnswer(r)
<1>1. room \in RoomData
  BY DEF Inductive, CopiesFit, Fit
<1>2. ASSUME NEW kind \in {"add", "batch", "vote", "delete"}, NEW by, NEW q,
             Prepare(r, kind, by, [room EXCEPT !.queue = q], <<"queue">>, NoSong),
             Becomes(by, room, [room EXCEPT !.queue = q], now)
      PROVE  PreparesAnswer(r)
  BY <1>1, <1>2, OnlyTheQueue, Answering
<1>3. CASE AddQueueItem(r)
  <2>1. PICK song \in Song : CanAdd(room, song) /\ Plainly(r, "add", {}, Add(room, song), <<"queue">>)
    BY <1>3 DEF AddQueueItem
  <2>2. Becomes({}, room, Add(room, song), now)
    BY <2>1 DEF Becomes
  <2> QED BY <1>2, <2>1, <2>2 DEF Plainly, Add
<1>4. CASE AddQueueBatch(r)
  <2>1. PICK n \in 1..MaxBatch : \E songs \in [1..n -> Song] : \E kept \in InOrder(Kept(room, songs)) :
               Plainly(r, "batch", {}, AddBatch(room, songs, kept), <<"queue">>)
    BY <1>4 DEF AddQueueBatch
  <2>2. PICK songs \in [1..n -> Song] : \E kept \in InOrder(Kept(room, songs)) :
               Plainly(r, "batch", {}, AddBatch(room, songs, kept), <<"queue">>)
    BY <2>1
  <2>3. PICK kept \in InOrder(Kept(room, songs)) :
               Plainly(r, "batch", {}, AddBatch(room, songs, kept), <<"queue">>)
    BY <2>2
  <2>4. Becomes({}, room, AddBatch(room, songs, kept), now)
    BY DEF Becomes
  <2> QED BY <1>2, <2>3, <2>4 DEF Plainly, AddBatch
<1>5. CASE VoteQueueItem(r)
  <2>1. PICK user \in User, i \in DOMAIN room.queue :
               Plainly(r, "vote", {}, Vote(room, i, user), <<"queue">>)
    BY <1>5 DEF VoteQueueItem
  <2>2. Becomes({}, room, Vote(room, i, user), now)
    BY <2>1 DEF Becomes
  <2> QED BY <1>2, <2>1, <2>2 DEF Plainly, Vote
<1>6. CASE DeleteQueueItem(r)
  <2>1. PICK user \in User, i \in DOMAIN room.queue :
               MayControl(room, user) /\ Plainly(r, "delete", {user}, Delete(room, i), <<"queue">>)
    BY <1>6 DEF DeleteQueueItem
  <2>2. Becomes({user}, room, Delete(room, i), now)
    BY <2>1 DEF Becomes
  <2> QED BY <1>2, <2>1, <2>2 DEF Plainly, Delete
<1> QED BY <1>3, <1>4, <1>5, <1>6 DEF Queueing

(* The handlers of playback.                                               *)
LEMMA PlayingAnswers ==
    ASSUME Inductive, NEW r \in Req, Playing(r)
    PROVE  PreparesAnswer(r)
<1>1. room \in RoomData
  BY DEF Inductive, CopiesFit, Fit
<1>2. CASE NextQueueItem(r)
  <2>1. PICK user \in User, after \in Song \cup {NoSong} :
               /\ CanNext(room, user, after, now)
               /\ Prepare(r, "next", {user}, Advance(room, now), <<"state", "queue">>, after)
    BY <1>2 DEF NextQueueItem
  <2>2. Becomes({user}, room, Advance(room, now), now)
    BY <2>1 DEF Becomes
  <2>3. Parts \ ToSet(<<"state", "queue">>) = {}
    BY AnnouncedParts DEF Parts
  <2> QED BY <2>1, <2>2, <2>3, Answering DEF Moves
<1>3. ASSUME NEW by, NEW kind, NEW copy, Prepare(r, kind, by, copy, <<"state">>, NoSong),
             Becomes(by, room, copy, now), Moves(kind) \/ Anchor(copy) = Anchor(room),
             copy.queue = room.queue
      PROVE  PreparesAnswer(r)
  <2>1. \A p \in Parts \ ToSet(<<"state">>) : Part(p, copy) = Part(p, room)
    BY <1>3, AnnouncedParts DEF Parts, Part
  <2> QED BY <1>3, <2>1, Answering
<1>4. CASE PlayNowSong(r)
  <2>1. PICK user \in User, song \in Song :
               MayControl(room, user) /\ Plainly(r, "playNow", {user}, PlayNow(room, song, now), <<"state">>)
    BY <1>4 DEF PlayNowSong
  <2>2. Becomes({user}, room, PlayNow(room, song, now), now)
    BY <2>1 DEF Becomes
  <2>3. PlayNow(room, song, now).queue = room.queue
    BY <1>1 DEF PlayNow, Start, RoomData
  <2> QED BY <1>3, <2>1, <2>2, <2>3 DEF Moves, Plainly
<1>5. CASE PlaybackControl(r)
  <2>1. PICK everyone \in BOOLEAN :
               Prepare(r, "control", {Host}, Control(room, everyone), <<"state">>, NoSong)
    BY <1>5 DEF PlaybackControl, Plainly
  <2>2. Becomes({Host}, room, Control(room, everyone), now)
    BY <2>1 DEF Becomes
  <2>3. Anchor(Control(room, everyone)) = Anchor(room) /\ Control(room, everyone).queue = room.queue
    BY <1>1 DEF Control, Anchor, RoomData
  <2> QED BY <1>3, <2>1, <2>2, <2>3
<1>6. CASE PlaybackEvent(r)
  <2>1. PICK user \in User, action \in {"play", "pause", "seek"}, pos \in Pos :
               /\ MayControl(room, user)
               /\ Plainly(r, "event", {user}, Playback(room, action, pos, now), <<action>>)
    BY <1>6 DEF PlaybackEvent
  <2> DEFINE new == Playback(room, action, pos, now)
  <2>2. Becomes({user}, room, new, now)
    BY <2>1 DEF Becomes
  <2>3. \A p : Part(p, new) = Part(p, room)
    BY <1>1 DEF Playback, Part, RoomData
  <2> HIDE DEF new
  <2>4. Prepare(r, "event", {user}, new, <<action>>, NoSong)
    BY <2>1 DEF Plainly, new
  <2> QED BY <2>2, <2>3, <2>4, Answering DEF Moves
<1> QED BY <1>2, <1>4, <1>5, <1>6 DEF Playing

(* The handlers of the roster.                                             *)
LEMMA GatheringAnswers ==
    ASSUME Inductive, NEW r \in Req, Gathering(r)
    PROVE  PreparesAnswer(r)
<1>1. room \in RoomData
  BY DEF Inductive, CopiesFit, Fit
<1>2. ASSUME NEW kind \in {"join", "remove"}, NEW by, NEW users, NEW events,
             Prepare(r, kind, by, [room EXCEPT !.users = users], events, NoSong),
             Becomes(by, room, [room EXCEPT !.users = users], now)
      PROVE  PreparesAnswer(r)
  BY <1>1, <1>2, OnlyTheRoster, Answering
<1>3. CASE JoinRoom(r)
  <2>1. PICK user \in User : CanJoin(room, user) /\ Plainly(r, "join", {}, Join(room, user), <<>>)
    BY <1>3 DEF JoinRoom
  <2>2. Becomes({}, room, Join(room, user), now)
    BY <2>1 DEF Becomes
  <2> QED BY <1>2, <2>1, <2>2 DEF Plainly, Join
<1>4. CASE RemoveFromRoom(r)
  <2>1. PICK user \in User, target \in User :
               /\ CanRemove(user, target)
               /\ Plainly(r, "remove", {user}, RemoveUser(room, target), <<"kicked">>)
    BY <1>4 DEF RemoveFromRoom
  <2>2. user = Host
    BY <2>1 DEF CanRemove
  <2>3. Becomes({user}, room, RemoveUser(room, target), now)
    BY <2>1, <2>2 DEF Becomes
  <2> QED BY <1>2, <2>1, <2>3 DEF Plainly, RemoveUser
<1> QED BY <1>3, <1>4 DEF Gathering

LEMMA InStepInit == Init => InStep
<1> SUFFICES ASSUME Init PROVE InStep
  OBVIOUS
<1>1. PICK parts \in Follower : /\ view = [p \in parts |-> Part(p, NewRoom(0))]
                               /\ news = [p \in parts |-> {}]
  BY DEF Init
<1>2. \A r \in Req : req[r].phase = "idle"
  BY DEF Init, Idle
<1> QED BY <1>1, <1>2 DEF Init, InStep, NewsComes, TellsAsItIs

(* What a handler prepares is what its operation makes of the room.        *)
LEMMA PrepareInStep ==
    ASSUME Inductive, InStep, NEW r \in Req, PreparesAnswer(r)
    PROVE  InStep'
<1>1. PICK q :
      /\ Answers(q) /\ q.phase = "saving" /\ req[r].phase = "idle"
      /\ req' = [req EXCEPT ![r] = q]
      /\ UNCHANGED <<room, now, overtaken, view, news, doubt>>
  BY DEF PreparesAnswer, follower
<1>2. \A p \in Req : req'[p] = IF p = r THEN q ELSE req[p]
  BY <1>1 DEF Inductive, ReqType
<1>3. ASSUME NEW p \in Req, req'[p].phase = "saving"
      PROVE  StillAnswers(req[p], overtaken[p])'
  <2>1. CASE p = r
    <3>1. StillAnswers(q, overtaken[p])
      BY <1>1 DEF Answers, StillAnswers
    <3> QED BY <1>1, <1>2, <2>1, <3>1 DEF StillAnswers
  <2>2. CASE p # r
    <3>1. req'[p] = req[p] /\ StillAnswers(req[p], overtaken[p])
      BY <1>2, <1>3, <2>2 DEF InStep
    <3> QED BY <1>1, <3>1 DEF StillAnswers
  <2> QED BY <2>1, <2>2
<1>4. ASSUME NEW p \in DOMAIN view
      PROVE  NewsComes(p)' /\ r \notin news[p]
  BY <1>1, <1>2, <1>4 DEF InStep, NewsComes
<1>5. ASSUME NEW p \in DOMAIN view \ doubt
      PROVE  TellsAsItIs(p)'
  <2>1. TellsAsItIs(p) /\ r \notin news[p] /\ news[p] \subseteq Req
    BY <1>4, <1>5 DEF InStep, NewsComes
  <2> QED BY <1>1, <1>2, <2>1 DEF TellsAsItIs
<1> QED BY <1>1, <1>3, <1>4, <1>5 DEF InStep

(* A write takes the copies of others for overtaken, tells the follower of *)
(* the parts it will announce, and leaves the others as they are.          *)
LEMMA SaveInStep ==
    ASSUME Inductive, Histories, InStep, NEW r \in Req, Save(r)
    PROVE  InStep'
<1> DEFINE copy == req[r].copy
           events == req[r].events
           rest == IF events = <<>> THEN Idle ELSE [req[r] EXCEPT !.phase = "publishing"]
           told == DOMAIN view \cap ToSet(events)
<1>1. /\ req[r].phase = "saving" /\ room' = copy /\ req' = [req EXCEPT ![r] = rest]
      /\ UNCHANGED <<now, view>>
  BY DEF Save, Concerns
<1>2. req \in [Req -> {Idle} \cup Request] /\ req[r] \in Request
  BY <1>1 DEF Inductive, ReqType, Idle
<1>3. \A p \in Req : req'[p] = IF p = r THEN rest ELSE req[p]
  BY <1>1, <1>2
<1>4. rest.phase # "saving"
  BY <1>2 DEF Idle, Request
<1>5. StillAnswers(req[r], overtaken[r])
  BY <1>1 DEF InStep
<1>6. ASSUME NEW q \in Req, req'[q].phase = "saving"
      PROVE  StillAnswers(req[q], overtaken[q])'
  <2>1. q # r /\ req'[q] = req[q] /\ req[q].phase = "saving"
    BY <1>3, <1>4, <1>6
  <2>2. overtaken'[q] = overtaken[q] \cup {w \in {"room", "anchor"} :
               IF w = "room" THEN copy # room ELSE Anchor(copy) # Anchor(room)}
    BY <2>1 DEF Save, Overtakes
  <2>3. StillAnswers(req[q], overtaken[q])
    BY <2>1 DEF InStep
  <2>4. CASE copy = room
    <3>1. overtaken'[q] = overtaken[q] /\ room' = room
      BY <1>1, <2>2, <2>4
    <3> QED BY <1>1, <2>1, <2>3, <3>1 DEF StillAnswers
  <2>5. CASE copy # room
    <3>1. "room" \in overtaken'[q] /\ overtaken'[q] # {}
      BY <2>2, <2>5
    <3>2. Moves(req[q].kind) \/ "anchor" \in overtaken'[q] \/ Anchor(req[q].copy) = Anchor(room')
      BY <1>1, <2>2, <2>3 DEF StillAnswers
    <3> QED BY <2>1, <3>1, <3>2 DEF StillAnswers
  <2> QED BY <2>4, <2>5
<1>7. \A p \in DOMAIN view : news'[p] = IF p \in told THEN {r} ELSE news[p]
  BY DEF Save, Concerns
<1>8. ASSUME NEW p \in DOMAIN view, p \in told
      PROVE  /\ NewsComes(p)'
             /\ TellsAsItIs(p)'
  <2>1. events # <<>>
    BY <1>8, AnnouncedParts
  <2>2. rest.phase = "publishing" /\ rest.events = events /\ rest.copy = copy
    BY <1>2, <2>1 DEF Request
  <2>3. news'[p] = {r} /\ req'[r] = rest
    BY <1>3, <1>7, <1>8
  <2> QED BY <1>1, <1>8, <2>2, <2>3 DEF NewsComes, TellsAsItIs
<1>9. ASSUME NEW p \in DOMAIN view, p \notin told
      PROVE  /\ NewsComes(p)'
             /\ p \notin doubt' => TellsAsItIs(p)'
  <2>1. news'[p] = news[p] /\ NewsComes(p) /\ r \notin news[p]
    BY <1>1, <1>7, <1>9 DEF InStep, NewsComes
  <2>2. \A q \in news[p] : q \in Req /\ req'[q] = req[q]
    BY <1>3, <2>1 DEF NewsComes
  <2>3. NewsComes(p)'
    BY <2>1, <2>2 DEF NewsComes
  <2>4. ASSUME p \notin doubt' PROVE TellsAsItIs(p)'
    <3>1. doubt' = (doubt \ told) \cup
                     {u \in DOMAIN view \ told : "room" \in overtaken[r] /\ Part(u, copy) # Part(u, room)}
      BY DEF Save, Concerns
    <3>2. p \notin doubt /\ ("room" \notin overtaken[r] \/ Part(p, copy) = Part(p, room))
      BY <1>9, <2>4, <3>1
    <3>3. p \in Parts \ ToSet(events)
      BY <1>9 DEF Histories
    <3>4. Part(p, copy) = Part(p, room)
      BY <1>5, <3>2, <3>3 DEF StillAnswers
    <3>5. TellsAsItIs(p)
      BY <1>9, <3>2 DEF InStep
    <3> QED BY <1>1, <2>1, <2>2, <3>4, <3>5 DEF TellsAsItIs
  <2> QED BY <2>3, <2>4
<1>10. DOMAIN view' = DOMAIN view
  BY <1>1
<1> HIDE DEF told
<1> QED BY <1>6, <1>8, <1>9, <1>10 DEF InStep

(* An announcement that is heard, or lost.                                 *)
LEMMA PublishInStep ==
    ASSUME Inductive, Histories, InStep, NEW r \in Req, Publish(r) \/ PublishFails(r)
    PROVE  InStep'
<1> DEFINE copy == req[r].copy
           events == req[r].events
           rest == IF Tail(events) = <<>> THEN Idle ELSE [req[r] EXCEPT !.events = Tail(events)]
           e == Head(events)
<1>1. /\ req[r].phase = "publishing" /\ req' = [req EXCEPT ![r] = rest]
      /\ UNCHANGED <<room, now, overtaken>>
  BY DEF Publish, PublishFails, Announced
<1>2. /\ req \in [Req -> {Idle} \cup Request] /\ req[r] \in Request
      /\ events \in Seq(Events) /\ events # <<>>
  BY <1>1 DEF Inductive, ReqType, Idle, Request
<1>3. \A p \in Req : req'[p] = IF p = r THEN rest ELSE req[p]
  BY <1>1, <1>2
<1>4. rest.phase # "saving"
  BY <1>1, <1>2 DEF Idle, Request
<1>5. ASSUME NEW q \in Req, req'[q].phase = "saving"
      PROVE  StillAnswers(req[q], overtaken[q])'
  <2>1. q # r /\ req'[q] = req[q] /\ req[q].phase = "saving"
    BY <1>3, <1>4, <1>5
  <2>2. StillAnswers(req[q], overtaken[q])
    BY <2>1 DEF InStep
  <2> QED BY <1>1, <2>1, <2>2 DEF StillAnswers
<1>6. /\ DOMAIN view' = DOMAIN view /\ doubt \subseteq doubt'
      /\ \A p \in DOMAIN view : p # e => news'[p] = news[p] /\ view'[p] = view[p]
  <2>1. CASE Publish(r)
    BY <2>1 DEF Publish, Hear, Histories, follower
  <2>2. CASE PublishFails(r)
    BY <2>2 DEF PublishFails, Histories
  <2> QED BY <2>1, <2>2
<1>7. \A p \in DOMAIN view : p = e => /\ news'[p] = news[p] \ {r}
                                      /\ \/ view'[p] = Part(p, copy) /\ news[p] # {}
                                         \/ p \in doubt'
                                         \/ view'[p] = view[p] /\ news'[p] = news[p]
  <2>1. CASE Publish(r)
    BY <2>1 DEF Publish, Hear, Histories
  <2>2. CASE PublishFails(r)
    <3>1. \A p \in DOMAIN view : news[p] = {} \/ \E q \in Req : news[p] = {q}
      BY DEF InStep, NewsComes
    <3> QED BY <2>2, <3>1 DEF PublishFails, Histories
  <2> QED BY <2>1, <2>2
<1>8. ASSUME NEW p \in DOMAIN view
      PROVE  /\ NewsComes(p)'
             /\ p \notin doubt' => TellsAsItIs(p)'
  <2>1. NewsComes(p) /\ (p \notin doubt' => TellsAsItIs(p))
    BY <1>6, <1>8 DEF InStep
  <2>2. \A q \in news[p] : q \in Req /\ (q # r => req'[q] = req[q])
    BY <1>3, <2>1 DEF NewsComes
  <2>3. CASE r \notin news[p] /\ p # e
    BY <1>1, <1>6, <2>1, <2>2, <2>3 DEF NewsComes, TellsAsItIs
  <2>4. CASE r \notin news[p] /\ p = e
    <3>0. news[p] \ {r} = news[p]
      BY <2>4
    <3>1. news'[p] = news[p]
      BY <1>7, <2>4, <3>0
    <3>2. news[p] = {} => p \in doubt' \/ view'[p] = view[p]
      BY <1>7, <2>4
    <3>3. \A q \in news[p] : req'[q] = req[q]
      BY <2>2, <2>4
    <3>4. NewsComes(p)'
      <4>1. CASE news[p] = {}
        BY <3>1, <4>1 DEF NewsComes
      <4>2. CASE \E q \in Req : /\ news[p] = {q} /\ req[q].phase = "publishing"
                                /\ p \in ToSet(req[q].events)
        BY <3>1, <3>3, <4>2 DEF NewsComes
      <4> QED BY <2>1, <4>1, <4>2 DEF NewsComes
    <3>5. ASSUME p \notin doubt' PROVE TellsAsItIs(p)'
      <4>1. CASE news[p] = {}
        BY <1>1, <2>1, <3>1, <3>2, <3>5, <4>1 DEF TellsAsItIs
      <4>2. CASE news[p] # {}
        BY <1>1, <2>1, <3>1, <3>3, <3>5, <4>2 DEF TellsAsItIs
      <4> QED BY <4>1, <4>2
    <3> QED BY <3>4, <3>5
  <2>5. CASE r \in news[p] /\ p # e
    <3>1. news'[p] = {r} /\ news[p] = {r} /\ p \in ToSet(events)
      BY <1>6, <2>1, <2>5 DEF NewsComes
    <3>2. p \in ToSet(Tail(events))
      BY <1>2, <2>5, <3>1, AnnouncedNext
    <3>3. Tail(events) # <<>>
      BY <3>2, AnnouncedParts
    <3>4. rest.phase = "publishing" /\ rest.events = Tail(events) /\ rest.copy = copy /\ req'[r] = rest
      BY <1>1, <1>2, <1>3, <3>3 DEF Request
    <3>5. NewsComes(p)'
      BY <3>1, <3>2, <3>4 DEF NewsComes
    <3>6. ASSUME p \notin doubt' PROVE TellsAsItIs(p)'
      <4>1. \A q \in news[p] : Part(p, req[q].copy) = Part(p, room)
        BY <2>1, <3>1, <3>6 DEF TellsAsItIs
      <4>2. req'[r].copy = req[r].copy
        BY <3>4
      <4>3. Part(p, req'[r].copy) = Part(p, room)
        BY <3>1, <4>1, <4>2
      <4> QED BY <1>1, <3>1, <4>3 DEF TellsAsItIs
    <3> QED BY <3>5, <3>6
  <2>6. CASE r \in news[p] /\ p = e
    <3>1. news[p] = {r} /\ news'[p] = {}
      BY <1>7, <2>1, <2>6 DEF NewsComes
    <3>2. p \in doubt' \/ view'[p] = Part(p, copy)
      BY <1>7, <2>6, <3>1
    <3> QED BY <1>1, <2>1, <3>1, <3>2 DEF NewsComes, TellsAsItIs
  <2> QED BY <2>3, <2>4, <2>5, <2>6
<1> QED BY <1>5, <1>6, <1>8 DEF InStep

(* Every step keeps the requests in step with the room and its follower.   *)
LEMMA InStepStep ==
    ASSUME Inductive, Histories, InStep, [Next]_vars
    PROVE  InStep'
<1>1. CASE Tick
  <2>1. now \in Nat /\ now' = now + 1 /\ UNCHANGED <<room, req, overtaken, view, news, doubt>>
    BY <1>1 DEF Tick, Inductive, follower
  <2>2. \A t \in 0..now : t \in 0..now'
    BY <2>1
  <2>3. ASSUME NEW r \in Req, req[r].phase = "saving"
        PROVE  StillAnswers(req[r], overtaken[r])'
    <3>1. StillAnswers(req[r], overtaken[r])
      BY <2>3 DEF InStep
    <3> QED BY <2>1, <2>2, <3>1 DEF StillAnswers
  <2> QED BY <2>1, <2>3 DEF InStep, NewsComes, TellsAsItIs
<1>2. ASSUME NEW r \in Req, Queueing(r) \/ Playing(r) \/ Gathering(r)
      PROVE  InStep'
  BY <1>2, QueueingAnswers, PlayingAnswers, GatheringAnswers, PrepareInStep
<1>3. ASSUME NEW r \in Req, SaveFails(r)
      PROVE  InStep'
  <2>1. /\ req[r].phase = "saving" /\ req' = [req EXCEPT ![r] = Idle]
        /\ overtaken' = [overtaken EXCEPT ![r] = {}]
        /\ UNCHANGED <<room, now, view, news, doubt>>
    BY <1>3 DEF SaveFails, follower
  <2>2. \A p \in Req : /\ req'[p] = IF p = r THEN Idle ELSE req[p]
                       /\ p # r => overtaken'[p] = overtaken[p]
    BY <2>1 DEF Inductive, ReqType, Histories
  <2>3. ASSUME NEW q \in Req, req'[q].phase = "saving"
        PROVE  StillAnswers(req[q], overtaken[q])'
    <3>1. q # r /\ req'[q] = req[q] /\ overtaken'[q] = overtaken[q]
      BY <2>2, <2>3 DEF Idle
    <3>2. StillAnswers(req[q], overtaken[q])
      BY <2>3, <3>1 DEF InStep
    <3> QED BY <2>1, <3>1, <3>2 DEF StillAnswers
  <2>4. ASSUME NEW p \in DOMAIN view
        PROVE  NewsComes(p)' /\ r \notin news[p] /\ news[p] \subseteq Req
    BY <2>1, <2>2, <2>4 DEF InStep, NewsComes
  <2>5. ASSUME NEW p \in DOMAIN view \ doubt
        PROVE  TellsAsItIs(p)'
    <3>1. TellsAsItIs(p) /\ r \notin news[p] /\ news[p] \subseteq Req
      BY <2>4, <2>5 DEF InStep
    <3> QED BY <2>1, <2>2, <3>1 DEF TellsAsItIs
  <2> QED BY <2>1, <2>3, <2>4, <2>5 DEF InStep
<1>4. CASE UNCHANGED vars
  BY <1>4 DEF vars, follower, InStep, StillAnswers, NewsComes, TellsAsItIs
<1> QED BY <1>1, <1>2, <1>3, <1>4, SaveInStep, PublishInStep DEF Next, Finishing

(* However requests overlap, whoever hears every announcement knows, once  *)
(* none is under way, every part of the room whose newest announcement was *)
(* not lost or followed by an older one, and that no stale copy undid.     *)
THEOREM SettledHolds == Spec => []Settled
<1>1. Inductive /\ Histories /\ InStep /\ [Next]_vars => InStep'
  BY InStepStep
<1>2. InStep => Settled
  <2> SUFFICES ASSUME InStep, Busy = {}, NEW p \in DOMAIN view \ doubt
               PROVE  view[p] = Part(p, room)
    BY DEF Settled
  <2>1. \A r \in Req : req[r].phase = "idle"
    BY DEF Busy
  <2>2. news[p] = {}
    BY <2>1 DEF InStep, NewsComes
  <2> QED BY <2>2 DEF InStep, TellsAsItIs
<1> QED BY <1>1, <1>2, InductiveInit, InductiveStep, HistoriesInit, HistoriesStep, InStepInit,
           PTL DEF Spec

(* However requests overlap, a handler that is not one of playback writes  *)
(* the playhead as it is, unless a playback handler has moved it meanwhile.*)
THEOREM PlayheadHolds == Spec => OnlyPlaybackMovesPlayhead
<1>1. Inductive /\ Histories /\ InStep /\ [Next]_vars => InStep'
  BY InStepStep
<1>2. InStep /\ [Next]_vars =>
        [\A r \in Req : Save(r) /\ req[r].kind \notin {"next", "playNow", "event"}
           => Anchor(room') = Anchor(room) \/ "anchor" \in overtaken[r]]_vars
  BY DEF InStep, StillAnswers, Moves, Save
<1> QED BY <1>1, <1>2, InductiveInit, InductiveStep, HistoriesInit, HistoriesStep, InStepInit,
           PTL DEF Spec, OnlyPlaybackMovesPlayhead

-----------------------------------------------------------------------------
(* The room the API promises: RoomAtomic's operations are those of Room.   *)

LEMMA SameCardinality ==
    ASSUME NEW S
    PROVE  Atomic!Cardinality(S) = Cardinality(S)
BY DEF Atomic!Cardinality, Cardinality

LEMMA SameQueueOps ==
    ASSUME NEW old, NEW song, NEW songs, NEW kept, NEW i, NEW user
    PROVE  /\ Atomic!CanAdd(old, song) <=> CanAdd(old, song)
           /\ Atomic!Add(old, song) = Add(old, song)
           /\ Atomic!InOrder(Atomic!Kept(old, songs)) = InOrder(Kept(old, songs))
           /\ Atomic!AddBatch(old, songs, kept) = AddBatch(old, songs, kept)
           /\ Atomic!Vote(old, i, user) = Vote(old, i, user)
           /\ Atomic!Delete(old, i) = Delete(old, i)
           /\ Atomic!MayControl(old, user) <=> MayControl(old, user)
<1>1. Atomic!CanAdd(old, song) <=> CanAdd(old, song)
  BY DEF Atomic!CanAdd, CanAdd, Atomic!Queued, Queued
<1>2. Atomic!Add(old, song) = Add(old, song)
  BY DEF Atomic!Add, Add, Atomic!Fresh, Fresh
<1>3. Atomic!InOrder(Atomic!Kept(old, songs)) = InOrder(Kept(old, songs))
  <2>1. Atomic!Kept(old, songs) = Kept(old, songs)
    BY DEF Atomic!Kept, Kept, Atomic!Queued, Queued
  <2>2. \A S : Atomic!InOrder(S) = InOrder(S)
    BY SameCardinality DEF Atomic!InOrder, InOrder
  <2> QED BY <2>1, <2>2
<1>4. Atomic!AddBatch(old, songs, kept) = AddBatch(old, songs, kept)
  BY DEF Atomic!AddBatch, AddBatch, Atomic!Fresh, Fresh
<1>5. Atomic!Vote(old, i, user) = Vote(old, i, user)
  <2>1. Atomic!Toggled(old, i, user) = Toggled(old, i, user)
    BY SameCardinality DEF Atomic!Toggled, Toggled, Atomic!Toggle, Toggle
  <2>2. \A queue : Atomic!Place(queue, i) = Place(queue, i)
    BY SameCardinality DEF Atomic!Place, Place, Atomic!Before, Before
  <2>3. \A queue, p : Atomic!Move(queue, i, p) = Move(queue, i, p)
    BY DEF Atomic!Move, Move
  <2> QED BY <2>1, <2>2, <2>3 DEF Atomic!Vote, Vote
<1>6. Atomic!Delete(old, i) = Delete(old, i)
  BY DEF Atomic!Delete, Delete, Atomic!RemoveAt, RemoveAt
<1>7. Atomic!MayControl(old, user) <=> MayControl(old, user)
  BY DEF Atomic!MayControl, MayControl
<1> QED BY <1>1, <1>2, <1>3, <1>4, <1>5, <1>6, <1>7

LEMMA SamePlaybackOps ==
    ASSUME NEW old, NEW song, NEW user, NEW after, NEW everyone, NEW action, NEW pos, NEW t
    PROVE  /\ Atomic!CanNext(old, user, after, t) <=> CanNext(old, user, after, t)
           /\ Atomic!Advance(old, t) = Advance(old, t)
           /\ Atomic!PlayNow(old, song, t) = PlayNow(old, song, t)
           /\ Atomic!Control(old, everyone) = Control(old, everyone)
           /\ Atomic!Playback(old, action, pos, t) = Playback(old, action, pos, t)
           /\ Atomic!MayControl(old, user) <=> MayControl(old, user)
<1>1. Atomic!MayControl(old, user) <=> MayControl(old, user)
  BY DEF Atomic!MayControl, MayControl
<1>2. Atomic!CanNext(old, user, after, t) <=> CanNext(old, user, after, t)
  BY <1>1 DEF Atomic!CanNext, CanNext, Atomic!CurrentSongFinished, CurrentSongFinished,
              Atomic!Playhead, Playhead
<1>3. \A s : Atomic!Start(old, s, t) = Start(old, s, t)
  BY DEF Atomic!Start, Start
<1>4. Atomic!Advance(old, t) = Advance(old, t) /\ Atomic!PlayNow(old, song, t) = PlayNow(old, song, t)
  BY <1>3 DEF Atomic!Advance, Advance, Atomic!PlayNow, PlayNow
<1>5. /\ Atomic!Control(old, everyone) = Control(old, everyone)
      /\ Atomic!Playback(old, action, pos, t) = Playback(old, action, pos, t)
  BY DEF Atomic!Control, Control, Atomic!Playback, Playback
<1> QED BY <1>1, <1>2, <1>4, <1>5

LEMMA SamePeopleOps ==
    ASSUME NEW old, NEW user, NEW target
    PROVE  /\ Atomic!CanJoin(old, user) <=> CanJoin(old, user)
           /\ Atomic!Join(old, user) = Join(old, user)
           /\ Atomic!CanRemove(user, target) <=> CanRemove(user, target)
           /\ Atomic!RemoveUser(old, target) = RemoveUser(old, target)
BY DEF Atomic!CanJoin, CanJoin, Atomic!Join, Join, Atomic!CanRemove, CanRemove,
       Atomic!RemoveUser, RemoveUser

(* A write of what some operation makes of the room is that operation.     *)
LEMMA SaveOperates ==
    ASSUME NEW by \in SUBSET User, NEW t \in 0..now, Becomes(by, room, room', t), UNCHANGED now
    PROVE  Atomic!Operate(by)
<1> DEFINE new == room'
<1>1. CASE \E song \in Song : CanAdd(room, song) /\ new = Add(room, song)
  BY <1>1, SameQueueOps DEF Atomic!Operate, Atomic!FreeOp
<1>2. CASE \E n \in 1..MaxBatch : \E songs \in [1..n -> Song] :
             \E kept \in InOrder(Kept(room, songs)) : new = AddBatch(room, songs, kept)
  <2>1. PICK n \in 1..MaxBatch : \E songs \in [1..n -> Song] :
               \E kept \in InOrder(Kept(room, songs)) : new = AddBatch(room, songs, kept)
    BY <1>2
  <2>2. PICK songs \in [1..n -> Song] :
               \E kept \in InOrder(Kept(room, songs)) : new = AddBatch(room, songs, kept)
    BY <2>1
  <2>3. \E kept \in Atomic!InOrder(Atomic!Kept(room, songs)) :
               room' = Atomic!AddBatch(room, songs, kept)
    BY <2>2, SameQueueOps
  <2> QED BY <2>3 DEF Atomic!Operate, Atomic!FreeOp
<1>3. CASE \E user \in User, i \in DOMAIN room.queue : new = Vote(room, i, user)
  BY <1>3, SameQueueOps DEF Atomic!Operate, Atomic!FreeOp
<1>4. CASE \E user \in User : CanJoin(room, user) /\ new = Join(room, user)
  BY <1>4, SamePeopleOps DEF Atomic!Operate, Atomic!FreeOp
<1>5. CASE \E user \in by, after \in Song \cup {NoSong} :
             CanNext(room, user, after, t) /\ new = Advance(room, t)
  BY <1>5, SamePlaybackOps DEF Atomic!Operate, Atomic!PlaybackOp
<1>6. CASE \E user \in by, i \in DOMAIN room.queue : MayControl(room, user) /\ new = Delete(room, i)
  BY <1>6, SameQueueOps DEF Atomic!Operate, Atomic!PlaybackOp
<1>7. CASE \E user \in by, song \in Song : MayControl(room, user) /\ new = PlayNow(room, song, t)
  BY <1>7, SamePlaybackOps DEF Atomic!Operate, Atomic!PlaybackOp
<1>8. CASE \E user \in by, action \in {"play", "pause", "seek"}, pos \in Pos :
             MayControl(room, user) /\ new = Playback(room, action, pos, t)
  BY <1>8, SamePlaybackOps DEF Atomic!Operate, Atomic!PlaybackOp
<1>9. CASE \E everyone \in BOOLEAN : Host \in by /\ new = Control(room, everyone)
  BY <1>9, SamePlaybackOps DEF Atomic!Operate, Atomic!HostOp
<1>10. CASE \E target \in User : /\ Host \in by /\ CanRemove(Host, target)
                                /\ new = RemoveUser(room, target)
  BY <1>10, SamePeopleOps DEF Atomic!Operate, Atomic!HostOp
<1> QED BY <1>1, <1>2, <1>3, <1>4, <1>5, <1>6, <1>7, <1>8, <1>9, <1>10 DEF Becomes

(* However requests overlap, a write of a copy that has not been overtaken *)
(* is an operation of the room the API promises, at some time not later    *)
(* than now, by somebody who is entitled to it as the room is; and the     *)
(* room changes in no other way than by a write.                           *)
THEOREM TakesEffectAtOnceHolds == Spec => TakesEffectAtOnce
<1>1. Inductive /\ Histories /\ InStep /\ [Next]_vars => InStep'
  BY InStepStep
<1>2. Inductive /\ InStep /\ [Next]_vars =>
        [room' # room =>
           \E r \in Req : Save(r) /\ (overtaken[r] # {} \/ Atomic!Operate(req[r].by))]_vars
  <2> SUFFICES ASSUME Inductive, InStep, Next, room' # room
               PROVE  \E r \in Req : Save(r) /\ (overtaken[r] # {} \/ Atomic!Operate(req[r].by))
    OBVIOUS
  <2>1. ~Tick
    BY DEF Tick
  <2>2. \A r \in Req : ~SaveFails(r) /\ ~Publish(r) /\ ~PublishFails(r)
    BY DEF SaveFails, Publish, PublishFails
  <2>3. \A r \in Req : ~(Queueing(r) \/ Playing(r) \/ Gathering(r))
    BY HandlersPrepare DEF Prepare
  <2>4. PICK r \in Req : Save(r)
    BY <2>1, <2>2, <2>3 DEF Next, Finishing
  <2>5. ASSUME overtaken[r] = {} PROVE Atomic!Operate(req[r].by)
    <3>1. req[r].by \in SUBSET User
      BY <2>4 DEF Save, Inductive, ReqType, Request, Idle
    <3>2. PICK t \in 0..now : Becomes(req[r].by, room, room', t)
      BY <2>4, <2>5 DEF Save, InStep, StillAnswers
    <3>3. now' = now
      BY <2>4 DEF Save
    <3> QED BY <3>1, <3>2, <3>3, SaveOperates
  <2>6. overtaken[r] # {} \/ Atomic!Operate(req[r].by)
    BY <2>5
  <2> QED BY <2>4, <2>6, ZenonT(60)
<1> QED BY <1>1, <1>2, InductiveInit, InductiveStep, HistoriesInit, HistoriesStep, InStepInit,
           PTL DEF Spec, TakesEffectAtOnce

=============================================================================
