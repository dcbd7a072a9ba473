----------------------------- MODULE RoomSocket -----------------------------
(***************************************************************************)
(* The socket of the room page (hooks/useRoomSocket.ts): one run of its    *)
(* effect, from mount to clean-up.  Browser sockets close in their own     *)
(* time, timers fire late, and a wake-up (the tab shown again, the network *)
(* back) may come at any moment.                                           *)
(*                                                                         *)
(* An interval or a timeout is named after the socket whose handler        *)
(* created it, of which it creates at most one.  How long a timeout takes, *)
(* which is all `attempts` decides, is left open.                          *)
(***************************************************************************)
EXTENDS FiniteSets

CONSTANTS
    Sock,       \* sockets the page may create (bound)
    None        \* no socket, no timer

ASSUME SockAssumption == IsFiniteSet(Sock) /\ Sock # {} /\ None \notin Sock

VARIABLES
    ready,           \* readyState of each socket, "none" before its creation
    socketRef,       \* the socket the page regards as its own
    conn,            \* the lamp
    pings,           \* intervals that are running
    pingTimer,       \* the interval the hook would clear
    timers,          \* timeouts that are running
    reconnectTimer,  \* the timeout the hook would clear
    closed,          \* the effect was cleaned up
    raced            \* history: a wake-up found the socket on its way to close

vars == <<ready, socketRef, conn, pings, pingTimer, timers, reconnectTimer, closed, raced>>

Alive == {"connecting", "open"}

(* The effect's first call of connect.                                     *)
Init ==
    /\ socketRef = CHOOSE s \in Sock : TRUE
    /\ ready = [s \in Sock |-> IF s = socketRef THEN "connecting" ELSE "none"]
    /\ conn = "connecting"
    /\ pings = {} /\ pingTimer = None
    /\ timers = {} /\ reconnectTimer = None
    /\ closed = FALSE
    /\ raced = FALSE

(* The socket that is created next; which name it gets does not matter.    *)
Unused == {s \in Sock : ready[s] = "none"}

NewSocket ==
    /\ Unused # {}
    /\ socketRef' = CHOOSE s \in Unused : TRUE
    /\ ready' = [ready EXCEPT ![socketRef'] = "connecting"]
    /\ conn' = "connecting"

ConnectAnyway == NewSocket \* mutant

(* connect: nothing once the effect is cleaned up.                         *)
Connect ==
    IF closed THEN UNCHANGED <<ready, socketRef, conn>>
    ELSE NewSocket

(* onopen.  The resync it asks for on a reconnect is the page's.           *)
Open(s) ==
    /\ ready[s] = "connecting"
    /\ ready' = [ready EXCEPT ![s] = "open"]
    /\ conn' = "open"
    /\ pings' = pings \cup {s}
    /\ pingTimer' = s
    /\ UNCHANGED <<socketRef, timers, reconnectTimer, closed, raced>>

(* The server's close frame starts the closing handshake.                  *)
CloseFrame(s) ==
    /\ ready[s] = "open"
    /\ ready' = [ready EXCEPT ![s] = "closing"]
    /\ UNCHANGED <<socketRef, conn, pings, pingTimer, timers, reconnectTimer, closed, raced>>

CloseForgets(s) == \* mutant
    /\ ready[s] \in Alive \cup {"closing"}
    /\ ready' = [ready EXCEPT ![s] = "closed"]
    /\ pings' = pings \ {pingTimer}
    /\ IF closed \/ s \notin pings
         THEN UNCHANGED <<conn, timers, reconnectTimer>>
         ELSE /\ conn' = "closed"
              /\ timers' = timers \cup {s}
              /\ reconnectTimer' = s
    /\ UNCHANGED <<socketRef, pingTimer, closed, raced>>

(* The handshake ends, or the connection fails or is lost: onclose.        *)
Close(s) ==
    /\ ready[s] \in Alive \cup {"closing"}
    /\ ready' = [ready EXCEPT ![s] = "closed"]
    /\ pings' = pings \ {pingTimer}
    /\ IF closed
         THEN UNCHANGED <<conn, timers, reconnectTimer>>
         ELSE /\ conn' = "closed"
              /\ timers' = timers \cup {s}
              /\ reconnectTimer' = s
    /\ UNCHANGED <<socketRef, pingTimer, closed, raced>>

(* A timeout of onclose fires.                                             *)
Reconnect(t) ==
    /\ t \in timers
    /\ timers' = timers \ {t}
    /\ Connect
    /\ UNCHANGED <<pings, pingTimer, reconnectTimer, closed, raced>>

WakeUpKeepsTimer == \* mutant
    /\ ~closed
    /\ ready[socketRef] \notin Alive
    /\ Connect
    /\ raced' = (raced \/ ready[socketRef] = "closing")
    /\ UNCHANGED <<timers, pings, pingTimer, reconnectTimer, closed>>

(* wakeUp, with the tab visible: a socket that is neither open nor opening *)
(* is replaced at once.                                                    *)
WakeUp ==
    /\ ~closed
    /\ ready[socketRef] \notin Alive
    /\ timers' = timers \ {reconnectTimer}
    /\ Connect
    /\ raced' = (raced \/ ready[socketRef] = "closing")
    /\ UNCHANGED <<pings, pingTimer, reconnectTimer, closed>>

(* The clean-up of the effect: the page is left, or its user was removed.  *)
CleanUp ==
    /\ ~closed
    /\ closed' = TRUE
    /\ pings' = pings \ {pingTimer}
    /\ timers' = timers \ {reconnectTimer}
    /\ ready' = [ready EXCEPT ![socketRef] = IF @ \in Alive THEN "closing" ELSE @]
    /\ UNCHANGED <<socketRef, conn, pingTimer, reconnectTimer, raced>>

Next ==
    \/ WakeUp
    \/ CleanUp
    \/ \E s \in Sock : Open(s) \/ CloseFrame(s) \/ Close(s) \/ Reconnect(s)

Spec == Init /\ [][Next]_vars

-----------------------------------------------------------------------------
(* Properties.                                                             *)

(* Every variable stays in its type; the hook's socket is one it created.  *)
TypeOK ==
    /\ ready \in [Sock -> {"none", "connecting", "open", "closing", "closed"}]
    /\ socketRef \in Sock /\ ready[socketRef] # "none"
    /\ conn \in {"connecting", "open", "closed"}
    /\ pings \subseteq Sock /\ pingTimer \in Sock \cup {None}
    /\ timers \subseteq Sock /\ reconnectTimer \in Sock \cup {None}
    /\ closed \in BOOLEAN /\ raced \in BOOLEAN

(* As long as the page is there it never gives up: it has a socket whose   *)
(* close will be noticed, or a timeout that makes a new one.               *)
NeverGivesUp ==
    ~closed => ready[socketRef] \in Alive \cup {"closing"} \/ timers # {}

(* Unless a wake-up met a socket on its way to close, the page has one     *)
(* socket at a time, pings it exactly while it is open, shows its state on *)
(* the lamp, and has a timeout exactly while it has no socket.             *)
Orderly ==
    ~raced /\ ~closed =>
        /\ \A s \in Sock \ {socketRef} : ready[s] \in {"none", "closed"}
        /\ pings = {s \in Sock : ready[s] \in {"open", "closing"}}
        /\ conn = IF ready[socketRef] = "closing" THEN "open" ELSE ready[socketRef]
        /\ timers = {s \in {socketRef} : ready[s] = "closed"}

(* After the clean-up no socket is created, whatever timeout still fires.  *)
CleanUpIsFinal ==
    [][closed => \A s \in Sock : ready[s] = "none" => ready'[s] = "none"]_vars

=============================================================================
