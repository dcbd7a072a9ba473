-------------------------------- MODULE Hub --------------------------------
(***************************************************************************)
(* The live layer of one room in one server process: Registry              *)
(* (ws/registry.go), Hub (ws/hub.go, ws/hub_redis.go), Client and its two  *)
(* pumps (ws/client.go, ws/client_events.go) and the upgrade handler       *)
(* (api/websocket.go).  Rooms share nothing but the registry's mutex, so   *)
(* one room is modelled.                                                   *)
(*                                                                         *)
(* A hub is named after the client whose Join created it: a Join creates   *)
(* at most one hub, so Client is large enough to name every generation.    *)
(* The loops of deliver, broadcastPresence and the quit case touch each    *)
(* client once with a send that never blocks, and the hub does nothing     *)
(* else meanwhile, so each loop is one step.                               *)
(***************************************************************************)
EXTENDS Integers, Sequences, FiniteSets

CONSTANTS
    Client,     \* websocket connections, each used once
    User,       \* the users behind them
    UserOf,     \* Client.UserID: one user may hold several sockets
    BufCap,     \* capacity of Client.Send (256 in the code)
    MaxEvents,  \* bound on published events
    Pingers,    \* connections whose browser sends pings (bound)
    NoHub       \* the registry has no hub for the room

ASSUME ClientAssumption ==
    IsFiniteSet(Client) /\ NoHub \notin Client /\ Pingers \subseteq Client
ASSUME UserAssumption == UserOf \in [Client -> User]
ASSUME CapAssumption == BufCap \in Nat \ {0} /\ MaxEvents \in Nat

VARIABLES
    hubs,       \* Registry.hubs[roomID]: the hub handed to the next Join
    refs,       \* Hub.refs
    quit,       \* Hub.quit is closed
    run,        \* where Hub.run stands
    clients,    \* Hub.clients
    listener,   \* where Hub.listenToRedis stands
    held,       \* the event it has received and not handed over, if any
    pubSub,     \* events Redis has sent to the hub's subscription
    hub,        \* Client.hub
    at,         \* the upgrade handler, then the read pump it starts
    write,      \* the write pump
    send,       \* Client.Send
    done,       \* Client.Done is closed
    conn,       \* Client.Conn
    published,  \* number of events published so far
    seen,       \* last room event the peer has received
    told,       \* count in the newest presence message queued for the client
    overflow,   \* history: a non-blocking send of the hub found Send full
    panic       \* history: a closed channel was closed again

hubVars == <<refs, quit, run, clients, listener, held, pubSub>>
clientVars == <<hub, at, write, send, done, conn>>
history == <<published, seen, told, overflow, panic>>
vars == <<hubs, hubVars, clientVars, history>>

(* A message is the number of a room event, or Direct: a presence count or *)
(* a pong, of which only the buffer slot matters.                          *)
Direct == 0
Event == 1..MaxEvents
Msg == 0..MaxEvents

(* Stages of a connection: the handler, then the read pump.                *)
Attaching == {"joining"}
Reading == {"reading", "sending"}
Detaching == {"leaving", "unregistered"}
Stage == {"idle", "exited"} \cup Attaching \cup Reading \cup Detaching

(* Between Join's critical section and Leave's, a client counts in refs.   *)
Holds(c, h) == hub[c] = h /\ at[c] \in Attaching \cup Reading \cup Detaching
Holders(h) == {c \in Client : Holds(c, h)}

Init ==
    /\ hubs = NoHub
    /\ refs = [h \in Client |-> 0]
    /\ quit = [h \in Client |-> FALSE]
    /\ run = [h \in Client |-> "none"]
    /\ clients = [h \in Client |-> {}]
    /\ listener = [h \in Client |-> "none"]
    /\ held = [h \in Client |-> <<>>]
    /\ pubSub = [h \in Client |-> <<>>]
    /\ hub = [c \in Client |-> NoHub]
    /\ at = [c \in Client |-> "idle"]
    /\ write = [c \in Client |-> "none"]
    /\ send = [c \in Client |-> <<>>]
    /\ done = [c \in Client |-> FALSE]
    /\ conn = [c \in Client |-> "none"]
    /\ published = 0
    /\ seen = [c \in Client |-> 0]
    /\ told = [c \in Client |-> 0]
    /\ overflow = [c \in Client |-> FALSE]
    /\ panic = FALSE

-----------------------------------------------------------------------------
(* What the hub does to its clients.                                       *)

Full(c) == Len(send[c]) >= BufCap

Count(members) == Cardinality({UserOf[c] : c \in members})

(* broadcastPresence to `members`: a full buffer is skipped.               *)
Presence(members) ==
    /\ send' = [c \in Client |->
                  IF c \in members /\ ~Full(c) THEN Append(send[c], Direct) ELSE send[c]]
    /\ told' = [c \in Client |->
                  IF c \in members /\ ~Full(c) THEN Count(members) ELSE told[c]]
    /\ overflow' = [c \in Client |-> overflow[c] \/ (c \in members /\ Full(c))]

DropSilently(h, gone) == \* mutant
    clients' = [clients EXCEPT ![h] = @ \ gone] /\ UNCHANGED done

(* drop: out of the map, Done closed unless it already is.                 *)
Drop(h, gone) ==
    /\ clients' = [clients EXCEPT ![h] = @ \ gone]
    /\ done' = [c \in Client |-> done[c] \/ c \in gone]

DeliverSkips(h, m) == \* mutant
    /\ send' = [c \in Client |->
                  IF c \in clients[h] /\ ~Full(c) THEN Append(send[c], m) ELSE send[c]]
    /\ UNCHANGED <<clients, done, overflow>>

(* deliver to every client: a full buffer costs the client its place.      *)
Deliver(h, m) ==
    LET slow == {c \in clients[h] : Full(c)} IN
    /\ send' = [c \in Client |->
                  IF c \in clients[h] \ slow THEN Append(send[c], m) ELSE send[c]]
    /\ Drop(h, slow)
    /\ overflow' = [c \in Client |-> overflow[c] \/ c \in slow]

-----------------------------------------------------------------------------
(* Registry.Join and Registry.Leave.                                       *)

(* Registry.Join's critical section, after the handler has found the room  *)
(* and upgraded the connection.                                            *)
JoinLock(c) ==
    /\ at[c] = "idle"
    /\ LET h == IF hubs = NoHub THEN c ELSE hubs IN
       /\ hubs' = h
       /\ hub' = [hub EXCEPT ![c] = h]
       /\ refs' = [refs EXCEPT ![h] = @ + 1]
       /\ run' = [run EXCEPT ![h] = IF hubs = NoHub THEN "starting" ELSE @]
    /\ at' = [at EXCEPT ![c] = "joining"]
    /\ conn' = [conn EXCEPT ![c] = "up"]
    /\ UNCHANGED <<quit, clients, listener, held, pubSub, write, send, done, history>>

JoinUnannounced(c) == \* mutant
    LET h == hub[c] IN
    /\ at[c] = "joining"
    /\ run[h] = "running"
    /\ clients' = [clients EXCEPT ![h] = @ \cup {c}]
    /\ Presence(clients[h])
    /\ at' = [at EXCEPT ![c] = "reading"]
    /\ write' = [write EXCEPT ![c] = "selecting"]
    /\ UNCHANGED <<hubs, refs, quit, run, listener, held, pubSub, hub, done, conn,
                   published, seen, panic>>

(* hub.register <- client meets the register case of run, and the handler  *)
(* starts the pumps; until they run they differ in nothing from idle ones. *)
JoinRegister(c) ==
    LET h == hub[c] IN
    /\ at[c] = "joining"
    /\ run[h] = "running"
    /\ clients' = [clients EXCEPT ![h] = @ \cup {c}]
    /\ Presence(clients[h] \cup {c})
    /\ at' = [at EXCEPT ![c] = "reading"]
    /\ write' = [write EXCEPT ![c] = "selecting"]
    /\ UNCHANGED <<hubs, refs, quit, run, listener, held, pubSub, hub, done, conn,
                   published, seen, panic>>

(* hub.unregister <- client meets the unregister case of run: a client the *)
(* hub has already dropped changes nothing, and announces nothing.         *)
LeaveUnregister(c) ==
    LET h == hub[c] IN
    /\ at[c] = "leaving"
    /\ run[h] = "running"
    /\ at' = [at EXCEPT ![c] = "unregistered"]
    /\ IF c \in clients[h]
         THEN Drop(h, {c}) /\ Presence(clients[h] \ {c})
         ELSE UNCHANGED <<clients, done, send, told, overflow>>
    /\ UNCHANGED <<hubs, refs, quit, run, listener, held, pubSub, hub, write, conn,
                   published, seen, panic>>

LastOfTwo(h) == refs[h] <= 2 \* mutant
LastTooLate(h) == refs[h] < 1 \* mutant
Last(h) == refs[h] <= 1

(* Leave's critical section: the last one out unhooks and stops the hub.   *)
(* The read pump then closes the connection, which only its own write pump *)
(* could tell from a later Leave, and ends.                                *)
LeaveLock(c) ==
    LET h == hub[c]
        last == Last(h)
    IN
    /\ at[c] = "unregistered"
    /\ refs' = [refs EXCEPT ![h] = @ - 1]
    /\ hubs' = IF last /\ hubs = h THEN NoHub ELSE hubs
    /\ quit' = [quit EXCEPT ![h] = @ \/ last]
    /\ panic' = (panic \/ (last /\ quit[h]))
    /\ at' = [at EXCEPT ![c] = "exited"]
    /\ conn' = [conn EXCEPT ![c] = "closed"]
    /\ UNCHANGED <<run, clients, listener, held, pubSub, hub, write, send, done,
                   published, seen, told, overflow>>

-----------------------------------------------------------------------------
(* Hub.run and Hub.listenToRedis.                                          *)

(* startRedisSubscription, and the loop is entered: SUBSCRIBE is sent, and *)
(* nothing waits for Redis to confirm it.                                  *)
HubStart(h) ==
    /\ run[h] = "starting"
    /\ run' = [run EXCEPT ![h] = "running"]
    /\ listener' = [listener EXCEPT ![h] = "subscribing"]
    /\ UNCHANGED <<hubs, refs, quit, clients, held, pubSub, clientVars, history>>

(* Redis sends what is published from here on.                             *)
Subscribed(h) ==
    /\ listener[h] = "subscribing"
    /\ listener' = [listener EXCEPT ![h] = "running"]
    /\ UNCHANGED <<hubs, refs, quit, run, clients, held, pubSub, clientVars, history>>

(* The quit case: whoever is still attached is dropped, and the deferred   *)
(* Close ends the subscription.                                            *)
HubQuit(h) ==
    /\ run[h] = "running"
    /\ quit[h]
    /\ run' = [run EXCEPT ![h] = "stopped"]
    /\ Drop(h, clients[h])
    /\ pubSub' = [pubSub EXCEPT ![h] = <<>>]
    /\ UNCHANGED <<hubs, refs, quit, listener, held, hub, at, write, send, conn, history>>

(* The listener takes an event from the subscription...                    *)
ListenTake(h) ==
    /\ listener[h] = "running"
    /\ held[h] = <<>>
    /\ pubSub[h] # <<>>
    /\ held' = [held EXCEPT ![h] = <<Head(pubSub[h])>>]
    /\ pubSub' = [pubSub EXCEPT ![h] = Tail(@)]
    /\ UNCHANGED <<hubs, refs, quit, run, clients, listener, clientVars, history>>

(* ... and hands it to the broadcast case of run...                        *)
Broadcast(h) ==
    /\ run[h] = "running"
    /\ held[h] # <<>>
    /\ Deliver(h, Head(held[h]))
    /\ held' = [held EXCEPT ![h] = <<>>]
    /\ UNCHANGED <<hubs, refs, quit, run, listener, pubSub, hub, at, write, conn,
                   published, seen, told, panic>>

ListenQuitIdle(h) == \* mutant
    /\ quit[h]
    /\ listener[h] = "running"
    /\ held[h] = <<>>
    /\ listener' = [listener EXCEPT ![h] = "exited"]
    /\ UNCHANGED <<hubs, refs, quit, run, clients, held, pubSub, clientVars, history>>

(* ... or returns, with or without an event, because of quit.              *)
ListenQuit(h) ==
    /\ quit[h]
    /\ listener[h] \in {"subscribing", "running"}
    /\ listener' = [listener EXCEPT ![h] = "exited"]
    /\ held' = [held EXCEPT ![h] = <<>>]
    /\ UNCHANGED <<hubs, refs, quit, run, clients, pubSub, clientVars, history>>

-----------------------------------------------------------------------------
(* Client.ReadPump.                                                        *)

(* An event reaches every subscription Redis has for the room.             *)
Subscribers == {h \in Client : run[h] = "running" /\ listener[h] # "subscribing"}

Publish ==
    /\ published < MaxEvents
    /\ published' = published + 1
    /\ pubSub' = [h \in Client |-> IF h \in Subscribers
                                     THEN Append(pubSub[h], published + 1)
                                     ELSE pubSub[h]]

(* A REST handler of this or another process publishes.                    *)
RestPublish ==
    /\ Publish
    /\ UNCHANGED <<hubs, refs, quit, run, clients, listener, held, clientVars,
                   seen, told, overflow, panic>>

(* A message other than a ping ends in a publication.                      *)
ReadEvent(c) ==
    /\ at[c] = "reading"
    /\ conn[c] = "up"
    /\ Publish
    /\ UNCHANGED <<hubs, refs, quit, run, clients, listener, held, clientVars,
                   seen, told, overflow, panic>>

(* A ping: the pump goes on to Client.send with the pong...                *)
ReadPing(c) ==
    /\ c \in Pingers
    /\ at[c] = "reading"
    /\ conn[c] = "up"
    /\ at' = [at EXCEPT ![c] = "sending"]
    /\ UNCHANGED <<hubs, hubVars, hub, write, send, done, conn, history>>

SendPongBlocks(c) == \* mutant
    /\ at[c] = "sending"
    /\ ~Full(c)
    /\ send' = [send EXCEPT ![c] = Append(@, Direct)]
    /\ at' = [at EXCEPT ![c] = "reading"]
    /\ UNCHANGED <<hubs, hubVars, hub, write, done, conn, history>>

(* ... which blocks until the buffer has room or the client is detached.   *)
SendPong(c) ==
    /\ at[c] = "sending"
    /\ \/ ~Full(c) /\ send' = [send EXCEPT ![c] = Append(@, Direct)]
       \/ done[c] /\ UNCHANGED send
    /\ at' = [at EXCEPT ![c] = "reading"]
    /\ UNCHANGED <<hubs, hubVars, hub, write, done, conn, history>>

(* ReadMessage fails: the connection was closed, or the read deadline has  *)
(* passed without a pong of a peer that is gone.                           *)
ReadError(c) ==
    /\ at[c] = "reading"
    /\ conn[c] # "up"
    /\ at' = [at EXCEPT ![c] = "leaving"]
    /\ UNCHANGED <<hubs, hubVars, hub, write, send, done, conn, history>>

-----------------------------------------------------------------------------
(* Client.WritePump, and the peer.                                         *)

WriteExit(c) ==
    /\ write' = [write EXCEPT ![c] = "exited"]
    /\ conn' = [conn EXCEPT ![c] = "closed"]

WriteDone(c) ==
    /\ write[c] = "selecting"
    /\ done[c]
    /\ WriteExit(c)
    /\ UNCHANGED <<hubs, hubVars, hub, at, send, done, history>>

(* A message is written.  A peer that is gone does not receive it, though  *)
(* the write may well succeed.                                             *)
WriteMessage(c) ==
    /\ write[c] = "selecting"
    /\ send[c] # <<>>
    /\ conn[c] # "closed"
    /\ send' = [send EXCEPT ![c] = Tail(@)]
    /\ seen' = [seen EXCEPT ![c] = IF Head(send[c]) # Direct /\ conn[c] = "up"
                                     THEN Head(send[c]) ELSE @]
    /\ UNCHANGED <<hubs, hubVars, hub, at, write, done, conn,
                   published, told, overflow, panic>>

(* A write fails: a closed connection, or a deadline that passed because   *)
(* the peer is gone or does not read.                                      *)
WriteFails(c) ==
    /\ write[c] = "selecting"
    /\ send[c] # <<>>
    /\ send' = [send EXCEPT ![c] = Tail(@)]
    /\ WriteExit(c)
    /\ UNCHANGED <<hubs, hubVars, hub, at, done, history>>

(* A ping of the ticker fails.                                             *)
TickFails(c) ==
    /\ write[c] = "selecting"
    /\ WriteExit(c)
    /\ UNCHANGED <<hubs, hubVars, hub, at, send, done, history>>

(* The peer vanishes without a word, or its close frame arrives.           *)
PeerGone(c) ==
    /\ conn[c] = "up"
    /\ conn' = [conn EXCEPT ![c] = "gone"]
    /\ UNCHANGED <<hubs, hubVars, hub, at, write, send, done, history>>

-----------------------------------------------------------------------------

HubStep(h) ==
    HubStart(h) \/ Subscribed(h) \/ HubQuit(h) \/ ListenTake(h) \/ Broadcast(h) \/ ListenQuit(h)

RegistryStep(c) ==
    JoinRegister(c) \/ LeaveUnregister(c) \/ LeaveLock(c)

ReadStep(c) == SendPong(c) \/ ReadError(c)

WriteStep(c) == WriteDone(c) \/ WriteMessage(c) \/ WriteFails(c)

(* What browsers and the network do: nothing obliges them to.              *)
Input(c) == JoinLock(c) \/ ReadEvent(c) \/ ReadPing(c) \/ TickFails(c) \/ PeerGone(c)

Next ==
    \/ RestPublish
    \/ \E c \in Client :
         HubStep(c) \/ RegistryStep(c) \/ ReadStep(c) \/ WriteStep(c) \/ Input(c)

Spec == Init /\ [][Next]_vars

(* Every goroutine that can run does, and a select chooses at random among *)
(* its ready cases, so a case that stays ready is taken.  Of a hub and its *)
(* listener less is assumed: with bounded events, that some step is taken  *)
(* while there is one.  Nothing is assumed of browsers, of publishers or   *)
(* of a peer's readiness to read.                                          *)
Fairness ==
    \A c \in Client :
        /\ WF_vars(HubStep(c)) /\ WF_vars(RegistryStep(c)) /\ WF_vars(ReadStep(c))
        /\ WF_vars(WriteDone(c)) /\ WF_vars(WriteMessage(c) \/ WriteFails(c))

FairSpec == Spec /\ Fairness

-----------------------------------------------------------------------------
(* Properties.                                                             *)

(* Every variable stays in its type; buffers respect their capacity.       *)
TypeOK ==
    /\ hubs \in Client \cup {NoHub}
    /\ refs \in [Client -> Int]
    /\ quit \in [Client -> BOOLEAN]
    /\ run \in [Client -> {"none", "starting", "running", "stopped"}]
    /\ clients \in [Client -> SUBSET Client]
    /\ listener \in [Client -> {"none", "subscribing", "running", "exited"}]
    /\ held \in [Client -> Seq(Event)]
    /\ \A h \in Client : Len(held[h]) <= 1
    /\ pubSub \in [Client -> Seq(Event)]
    /\ hub \in [Client -> Client \cup {NoHub}]
    /\ at \in [Client -> Stage]
    /\ \A c \in Client : at[c] # "idle" => hub[c] \in Client
    /\ write \in [Client -> {"none", "selecting", "exited"}]
    /\ send \in [Client -> Seq(Msg)]
    /\ \A c \in Client : Len(send[c]) <= BufCap
    /\ done \in [Client -> BOOLEAN]
    /\ conn \in [Client -> {"none", "up", "gone", "closed"}]
    /\ published \in 0..MaxEvents
    /\ seen \in [Client -> Msg]
    /\ told \in [Client -> Nat]
    /\ overflow \in [Client -> BOOLEAN]
    /\ panic \in BOOLEAN

(* A goroutine about to send on register or unregister has a hub that will *)
(* take it: joins and leaves race the teardown of the room's last hub, and *)
(* a hub that has been told to quit may never reach those cases again.     *)
NobodyStranded ==
    \A c \in Client : at[c] \in {"joining", "leaving"} =>
        /\ run[hub[c]] \in {"starting", "running"}
        /\ ~quit[hub[c]]

(* refs is the number of clients between Join and Leave (every Join is     *)
(* paired with one Leave), and a hub that nobody holds has been told to    *)
(* quit: no goroutine or subscription is kept for an empty room.           *)
RefsAreHolders ==
    \A h \in Client :
        /\ refs[h] = Cardinality(Holders(h))
        /\ run[h] # "none" => (quit[h] <=> Holders(h) = {})

(* Two listeners of the room are never split between an old and a new hub, *)
(* and the hub they hold is the one the registry hands out.                *)
OneHubPerRoom ==
    \A h \in Client : Holders(h) # {} => hubs = h

(* No channel is closed twice, which would bring the process down.         *)
NoPanic == ~panic

(* The life of a hub: created by the Join it is named after, registered    *)
(* exactly while somebody holds it, stopped only once told to.             *)
Lifecycle ==
    /\ \A h \in Client : run[h] = "none" => ~quit[h] /\ Holders(h) = {}
    /\ \A h \in Client : hubs = h => Holders(h) # {}
    /\ \A h \in Client : run[h] = "stopped" => quit[h]
    /\ \A c \in Client : at[c] = "idle" => run[c] = "none"

(* The invariant of the registry's bookkeeping, which every step keeps.    *)
Ledger == RefsAreHolders /\ OneHubPerRoom /\ NoPanic /\ Lifecycle

(* Done is closed exactly for the clients the hub no longer serves: a      *)
(* client that is attached is not told to stop, and one that was dropped   *)
(* for being slow, by a leave or by the teardown always is.                *)
DoneIsDetached ==
    \A c \in Client : at[c] \notin {"idle", "joining"} =>
        (done[c] <=> c \notin clients[hub[c]])

(* Only the hub a client joined attaches it, and not before it registers;  *)
(* with DoneIsDetached, the invariant of attachment.                       *)
AttachedOnce ==
    /\ \A h \in Client : \A c \in clients[h] :
         hub[c] = h /\ at[c] \notin {"idle", "joining"}
    /\ \A c \in Client : done[c] => at[c] \notin {"idle", "joining"}

Attachment == DoneIsDetached /\ AttachedOnce

(* What is on its way to a client, oldest first, and its room events.      *)
OnTheWay(c) == send[c] \o held[hub[c]] \o pubSub[hub[c]]

EventsIn(s) == {s[i] : i \in DOMAIN s} \ {Direct}

(* The room events of `s` are those after `last`, up to `newest`, in their *)
(* order and without a gap; a peer that has seen none may start anywhere.  *)
Follows(s, last, newest) ==
    /\ \A i, j \in DOMAIN s : i < j /\ s[i] # Direct /\ s[j] # Direct => s[i] < s[j]
    /\ \E first \in 1..newest + 1 :
         EventsIn(s) = first..newest /\ (last # 0 => first = last + 1)

(* A client never receives an event after having missed one: while its     *)
(* connection lives, what it has received, what its buffer holds and, as   *)
(* long as it is attached, what its hub has yet to broadcast are           *)
(* consecutive events up to the newest one.  A slow client loses its       *)
(* connection rather than an event.                                        *)
NoEventSkipped ==
    \A c \in Client : conn[c] = "up" =>
        /\ \E newest \in 0..published : Follows(send[c], seen[c], newest)
        /\ at[c] \in Reading /\ c \in clients[hub[c]] =>
             Follows(OnTheWay(c), seen[c], published)

Listening(h) == {u \in User : \E c \in clients[h] : UserOf[c] = u}

(* While no buffer of the hub has been full, the newest listener count     *)
(* sent to every attached client is the number of distinct users attached. *)
PresenceAccurate ==
    \A h \in Client : (\A c \in Client : hub[c] = h => ~overflow[c]) =>
        \A c \in clients[h] : told[c] = Cardinality(Listening(h))

(* A Join always completes.                                                *)
JoinCompletes ==
    \A c \in Client : at[c] = "joining" ~> at[c] = "reading"

(* A hub told to quit ends its loop and its Redis listener, even when the  *)
(* listener is caught handing over an event.                               *)
TeardownEnds ==
    \A h \in Client : quit[h] ~> (run[h] = "stopped" /\ listener[h] = "exited")

(* A room event on its way to an attached client reaches it, or the client *)
(* loses its connection.                                                   *)
EventArrives ==
    \A c \in Client, e \in Event :
        (at[c] = "reading" /\ c \in clients[hub[c]] /\ e \in EventsIn(OnTheWay(c)))
            ~> (seen[c] >= e \/ conn[c] # "up")

(* The read pump waits in Client.send on a full buffer whose reader has    *)
(* gone, and the hub has not noticed.                                      *)
Stuck(c) == at[c] = "sending" /\ Full(c) /\ write[c] = "exited" /\ ~done[c]

(* A client that the hub has detached, or whose connection is lost, leaves *)
(* its room and ends its connection and both its pumps, unless it is stuck *)
(* answering a ping.                                                       *)
ConnectionEnds ==
    \A c \in Client : (done[c] \/ conn[c] = "closed") ~>
        \/ at[c] = "exited" /\ write[c] = "exited" /\ conn[c] = "closed"
        \/ Stuck(c)

(* A stuck client is set free by the next room event, whatever it is.      *)
BroadcastFreesStuck ==
    [][\A c \in Client : Stuck(c) /\ Broadcast(hub[c]) => done'[c]]_vars

=============================================================================
