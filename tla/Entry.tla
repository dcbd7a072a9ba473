------------------------------- MODULE Entry -------------------------------
(***************************************************************************)
(* How a browser gets into a room, and as whom: the home page (Home.tsx),  *)
(* the door that joins (Join.tsx), the guard of the room page (RoomRoute   *)
(* in Room.tsx) and what the browser remembers (storage.ts), against the   *)
(* server's rooms.  The tabs of a browser share what it remembers; each    *)
(* has calls of its own, whose answers are applied wherever the tab is by  *)
(* then, unless its document is gone.  The host may remove people.         *)
(*                                                                         *)
(* Users are numbered in the order their ids are drawn.  Codes are in      *)
(* their canonical spelling.  The stored isHost, which nothing reads, is   *)
(* left out.  The roster and the events of a page that is not meant are    *)
(* those of Roster.                                                        *)
(***************************************************************************)
EXTENDS Naturals, FiniteSets

CONSTANTS
    Browser, Tab, Code,
    NoCode,
    BrowserOf,      \* the browser of each tab
    MaxIds,         \* bound on ids drawn
    MaxDisruptions  \* bound on documents loaded by hand and rooms that expire

ASSUME EntryAssumption ==
    /\ BrowserOf \in [Tab -> Browser]
    /\ NoCode \notin Code
    /\ MaxIds \in Nat \ {0} /\ MaxDisruptions \in Nat

Nobody == 0
Stranger == MaxIds + 1  \* the host of a room that was created elsewhere

VARIABLES
    ids,      \* how many ids were drawn
    me,       \* songspot.me of each browser
    session,  \* songspot.session of each browser for each code
    host,     \* the host of the server's room under each code, if any
    at,       \* where each tab is: page, code, and as whom
    calls,    \* the calls under way of each tab
    kicked,   \* tabs to be told of the removal of their own user
    disruptions,  \* how many documents were loaded by hand, or rooms expired
    raced     \* history: browser and code met a race that may split them

vars == <<ids, me, session, host, at, calls, kicked, disruptions, raced>>

Home == [page |-> "home", code |-> NoCode, user |-> Nobody]
Closed == [page |-> "closed", code |-> NoCode, user |-> Nobody] \* the door, with a word why
Gone == [page |-> "gone", code |-> NoCode, user |-> Nobody] \* the room page, removed
In(page, c) == [page |-> page, code |-> c, user |-> Nobody]
As(page, c, u) == [page |-> page, code |-> c, user |-> u]

(* A call, with the user and the code it names or, answered, came back     *)
(* with.                                                                   *)
Call(kind, c, u) == [kind |-> kind, code |-> c, user |-> u, answered |-> FALSE]
Reply(k, c, u) == [kind |-> k.kind, code |-> c, user |-> u, answered |-> TRUE]

Init ==
    /\ ids = 0 /\ disruptions = 0
    /\ me = [b \in Browser |-> Nobody]
    /\ session = [b \in Browser |-> [c \in Code |-> Nobody]]
    /\ host = [c \in Code |-> Nobody]
    /\ at = [t \in Tab |-> Home]
    /\ calls = [t \in Tab |-> {}]
    /\ kicked = {} /\ raced = {}

Siblings(t) == {s \in Tab : BrowserOf[s] = BrowserOf[t]}

MySession(t, c) == session[BrowserOf[t]][c]

Inside(t, c) == at[t].page \in {"opening", "room"} /\ at[t].code = c

(* A page whose load has failed says that the room is closed, but keeps    *)
(* its socket; one that was removed has none.                              *)
Listens(t, c) == Inside(t, c) \/ (at[t].page = "failed" /\ at[t].code = c)

Move(t, place) ==
    /\ at' = [at EXCEPT ![t] = place]
    /\ kicked' = kicked \ {t}

Race(b, c, yes) == raced' = IF yes THEN raced \cup {<<b, c>>} ELSE raced

(* A tab of the browser is about to make the code its own.                 *)
Creating(t, c) == \E s \in Siblings(t) : \E k \in calls[s] : k.kind = "create" /\ k.code = c

(* A page of the browser is still to be told that it is removed.           *)
Leaving(t, c) == \E s \in Siblings(t) \cap kicked : at[s].code = c

-----------------------------------------------------------------------------
(* Ways in.  A tab has at most one call of each kind under way: a second   *)
(* one, after going back during the first, is left out.                    *)

(* getMyId: an id is drawn once and for all.                               *)
GetMyId(b) ==
    /\ me[b] = Nobody => ids < MaxIds
    /\ ids' = IF me[b] = Nobody THEN ids + 1 ELSE ids
    /\ me' = [me EXCEPT ![b] = IF @ = Nobody THEN ids' ELSE @]

StartRoom(t) ==
    /\ at[t].page = "home"
    /\ \A k \in calls[t] : k.kind # "create"
    /\ GetMyId(BrowserOf[t])
    /\ calls' = [calls EXCEPT ![t] = @ \cup {Call("create", NoCode, me'[BrowserOf[t]])}]
    /\ UNCHANGED <<session, host, at, kicked, disruptions, raced>>

KnownNobody(t, c) == Nobody \* mutant

(* Whom a tab joins as: the user it already is there, if any.              *)
Existing(t, c) == MySession(t, c)

(* Join, once mounted: by a code, or by an old invite to its room, which   *)
(* makes a stranger of anyone.  Two tabs may both be strangers at a door.  *)
Door(t, c, invited, others) ==
    /\ \A k \in others : k.kind = "create"
    /\ Move(t, In("join", c))
    /\ calls' = [calls EXCEPT ![t] =
         others \cup {Call("join", c, IF invited THEN Nobody ELSE Existing(t, c))}]
    /\ Race(BrowserOf[t], c,
            \/ invited
            \/ Creating(t, c)
            \/ MySession(t, c) = Nobody /\ \E s \in Siblings(t) : \E k \in calls[s] : k.code = c)

(* parseRoomEntry: what is typed or pasted, however it is spelt, leads to  *)
(* a room, by its code or by an old invite, or nowhere.                    *)
Entries == [code : Code, invited : BOOLEAN]

(* goToRoom.                                                               *)
GoToRoom(t) ==
    /\ at[t].page = "home"
    /\ \E e \in Entries : Door(t, e.code, e.invited, calls[t])
    /\ UNCHANGED <<ids, me, session, host, disruptions>>

(* A document is loaded by hand, wherever the tab was: its calls go with   *)
(* the old one.                                                            *)
Visit(t) ==
    /\ disruptions < MaxDisruptions /\ disruptions' = disruptions + 1
    /\ \A k \in calls[t] : k.kind = "create" => ~k.answered
    /\ \E e \in Entries :
         \/ Door(t, e.code, e.invited, {})
         \/ /\ ~e.invited /\ Move(t, In("route", e.code))
            /\ calls' = [calls EXCEPT ![t] = {}]
            /\ UNCHANGED raced
    /\ UNCHANGED <<ids, me, session, host>>

(* A link to the home page, or a step back to it.                          *)
GoHome(t) ==
    /\ at[t].page # "home"
    /\ Move(t, Home)
    /\ UNCHANGED <<ids, me, session, host, calls, disruptions, raced>>

-----------------------------------------------------------------------------
(* The server.                                                             *)

(* handleCreateRoom: a code that SetNX finds free.                         *)
HandleCreate(t) == \E k \in calls[t], c \in Code :
    /\ k.kind = "create" /\ ~k.answered
    /\ host[c] = Nobody
    /\ host' = [host EXCEPT ![c] = k.user]
    /\ calls' = [calls EXCEPT ![t] = (@ \ {k}) \cup {Reply(k, c, k.user)}]
    /\ Race(BrowserOf[t], c,
            \E s \in Siblings(t) : at[s].code = c \/ \E j \in calls[s] : j.code = c)
    /\ UNCHANGED <<ids, me, session, at, kicked, disruptions>>

(* handleJoinRoom, or handleJoinInvite for a stranger.                     *)
HandleJoin(t) == \E k \in calls[t] :
    /\ k.kind = "join" /\ ~k.answered
    /\ host[k.code] # Nobody
    /\ k.user = Nobody => ids < MaxIds
    /\ ids' = IF k.user = Nobody THEN ids + 1 ELSE ids
    /\ LET u == IF k.user = Nobody THEN ids' ELSE k.user IN
         calls' = [calls EXCEPT ![t] = (@ \ {k}) \cup {Reply(k, k.code, u)}]
    /\ UNCHANGED <<me, session, host, at, kicked, disruptions, raced>>

CanRemove(c, u) == host[c] \notin {Nobody, u}

(* The same, for a browser that is not looked at.                          *)
OthersCreate(c) ==
    /\ host[c] = Nobody
    /\ host' = [host EXCEPT ![c] = Stranger]
    /\ UNCHANGED <<ids, me, session, at, calls, kicked, disruptions, raced>>

(* handleRemoveUser, for the host, wherever it is: every page of that user *)
(* is to be told.                                                          *)
HandleRemove(c, u) ==
    /\ CanRemove(c, u)
    /\ kicked' = kicked \cup {t \in Tab : Listens(t, c) /\ at[t].user = u}
    /\ UNCHANGED <<ids, me, session, host, at, calls, disruptions, raced>>

(* A room nobody saves for a day is gone; another may come to live under   *)
(* its code while pages of the old one are still there.                    *)
Expire(c) ==
    /\ disruptions < MaxDisruptions /\ disruptions' = disruptions + 1
    /\ host[c] # Nobody
    /\ host' = [host EXCEPT ![c] = Nobody]
    /\ UNCHANGED <<ids, me, session, at, calls, kicked, raced>>

-----------------------------------------------------------------------------
(* What comes back.                                                        *)

SaveSession(t, c, u) == session' = [session EXCEPT ![BrowserOf[t]][c] = u]

(* Where an answer leads: to the guard of the room page, wherever the tab  *)
(* is.  A room page that says it is closed is the same page with another   *)
(* code, and still says so, though it is back in a room with its socket.   *)
Led(t, k) ==
    CASE at[t].page = "failed" -> As("failed", k.code, k.user)
      [] at[t].page = "gone"   -> Gone
      [] OTHER                 -> In("route", k.code)

Answer(t, k) ==
    /\ k.answered
    /\ calls' = [calls EXCEPT ![t] = @ \ {k}]
    /\ SaveSession(t, k.code, k.user)
    /\ Move(t, Led(t, k))
    /\ Race(BrowserOf[t], k.code, at[t].page = "failed" /\ Leaving(t, k.code))
    /\ UNCHANGED <<ids, me, host, disruptions>>

Answered(t) == \E k \in calls[t] : Answer(t, k)

FailsSilently(t, k) == at \* mutant

(* The door says so; a home page turns its button on again.                *)
Told(t, k) ==
    IF k.kind = "join" /\ at[t].page = "join" THEN [at EXCEPT ![t] = Closed] ELSE at

(* The server refuses or cannot be reached, or its answer is lost.         *)
CallFails(t) == \E k \in calls[t] :
    /\ calls' = [calls EXCEPT ![t] = @ \ {k}]
    /\ at' = Told(t, k)
    /\ Race(BrowserOf[t], k.code, k.kind = "create" /\ k.answered)
    /\ UNCHANGED <<ids, me, session, host, kicked, disruptions>>

(* RoomRoute: the room page for those with a session, the door otherwise.  *)
RoomRoute(t) == LET c == at[t].code IN
    /\ at[t].page = "route"
    /\ IF MySession(t, c) = Nobody
       THEN Door(t, c, FALSE, calls[t])
       ELSE /\ Move(t, As("opening", c, MySession(t, c)))
            /\ UNCHANGED calls
            /\ Race(BrowserOf[t], c, Creating(t, c) \/ Leaving(t, c))
    /\ UNCHANGED <<ids, me, session, host, disruptions>>

(* The page's load ends, with the room or without.                         *)
Load(t) ==
    /\ at[t].page = "opening"
    /\ \/ /\ host[at[t].code] # Nobody
          /\ at' = [at EXCEPT ![t].page = "room"]
       \/ at' = [at EXCEPT ![t].page = "failed"]
    /\ UNCHANGED <<ids, me, session, host, calls, kicked, disruptions, raced>>

(* onKicked, of the page's own user.                                       *)
OnKicked(t) ==
    /\ t \in kicked
    /\ SaveSession(t, at[t].code, Nobody)
    /\ Move(t, Gone)
    /\ UNCHANGED <<ids, me, host, calls, disruptions, raced>>

(* Or its socket is down when it is told, while others of its browser are. *)
KickMissed(t) == LET c == at[t].code IN
    /\ t \in kicked
    /\ kicked' = kicked \ {t}
    /\ Race(BrowserOf[t], c,
            \/ MySession(t, c) # at[t].user
            \/ \E s \in Siblings(t) \ {t} : Listens(s, c))
    /\ UNCHANGED <<ids, me, session, host, at, calls, disruptions>>

(* Whatever a tab waits for happens: calls end one way or another, and     *)
(* pages render.  Nobody has to press anything.                            *)
Progress(t) ==
    \/ HandleCreate(t) \/ HandleJoin(t)
    \/ Answered(t) \/ CallFails(t)
    \/ RoomRoute(t) \/ Load(t)

Next ==
    \/ \E t \in Tab :
        \/ StartRoom(t) \/ GoToRoom(t) \/ Visit(t) \/ GoHome(t)
        \/ Progress(t)
        \/ OnKicked(t) \/ KickMissed(t)
    \/ \E c \in Code :
        \/ OthersCreate(c) \/ Expire(c)
        \/ \E u \in 1..MaxIds : HandleRemove(c, u)

Spec == Init /\ [][Next]_vars

Fairness == \A t \in Tab : WF_<<at[t], calls[t]>>(Progress(t))

FairSpec == Spec /\ Fairness

-----------------------------------------------------------------------------
(* Properties.                                                             *)

Place ==
    [page : {"home", "closed", "join", "route", "opening", "room", "failed", "gone"},
     code : Code \cup {NoCode}, user : 0..MaxIds]

TypeOK ==
    /\ ids \in 0..MaxIds /\ disruptions \in 0..MaxDisruptions
    /\ me \in [Browser -> 0..ids]
    /\ session \in [Browser -> [Code -> 0..ids]]
    /\ host \in [Code -> (0..ids) \cup {Stranger}]
    /\ at \in [Tab -> Place]
    /\ kicked \subseteq Tab /\ raced \subseteq Browser \X Code

(* One browser, one user: every page of a room that a browser has open     *)
(* acts as the user the browser would come back as, so that a refresh or a *)
(* second visit keeps its votes, and whoever created the room comes back   *)
(* as its host.  But for the races named above: strangers at the door at   *)
(* the same time, an invite, a room created where the browser already is,  *)
(* a lost answer to its creation, a removal that reaches some of its pages *)
(* and not others, or after others have come back.                         *)
KeepsIdentity ==
    \A b \in Browser, c \in Code : <<b, c>> \notin raced =>
        /\ \A t \in Tab \ kicked :
             BrowserOf[t] = b /\ Inside(t, c) => at[t].user = session[b][c]
        /\ \A t \in Tab :
             host[c] = me[b] /\ me[b] # Nobody /\ BrowserOf[t] = b /\ ~Creating(t, c)
               => session[b][c] = me[b]

(* Nobody is kept at the door: it ends in a room, at home, or with a word. *)
JoinEnds ==
    \A t \in Tab :
        at[t].page \in {"join", "route", "opening"}
          ~> at[t].page \in {"home", "closed", "room", "failed", "gone"}

=============================================================================
