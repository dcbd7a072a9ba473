------------------------------- MODULE Clock -------------------------------
(***************************************************************************)
(* The page's idea of the server's clock (hooks/useRoomSocket.ts), by      *)
(* which it places its player: a ping carries the browser's clock, the     *)
(* pong that echoes it the server's, and half of the time in between is    *)
(* taken for the way back.                                                 *)
(*                                                                         *)
(* Pings of an older socket may come back after those of a newer one.  The *)
(* browser's clock may be set anew at any time.                            *)
(***************************************************************************)
EXTENDS Integers, FiniteSets

CONSTANTS
    Skew,    \* how far the browser's clock may be ahead of the server's
    MaxNow,  \* bound on the server's clock
    MaxPings \* bound on pings under way

ASSUME ClockAssumption == Skew \subseteq Int /\ MaxNow \in Nat /\ MaxPings \in Nat

VARIABLES
    serverClock,
    skew,
    offset,   \* twice the hook's offset, so that it counts in whole ticks
    echoes,   \* pings and pongs under way
    trip      \* history: the last pong's time on its way, -1 if its ping is
              \* older than the browser's setting of the clock

clockVars == <<serverClock, skew, offset, echoes, trip>>

Ping == [sent : Int, served : -1..MaxNow, trusted : BOOLEAN]

ClientClock == serverClock + skew

ClockInit ==
    /\ serverClock = 0
    /\ skew \in Skew
    /\ offset = 0
    /\ echoes = {} /\ trip = -1

Tick ==
    /\ serverClock < MaxNow /\ serverClock' = serverClock + 1
    /\ UNCHANGED <<skew, offset, echoes, trip>>

(* ping: on every onopen, and every ten seconds.                           *)
SendPing ==
    /\ Cardinality(echoes) < MaxPings
    /\ echoes' = echoes \cup {[sent |-> ClientClock, served |-> -1, trusted |-> TRUE]}
    /\ UNCHANGED <<serverClock, skew, offset, trip>>

(* The server's handlePing.                                                *)
HandlePing(p) ==
    /\ p.served = -1
    /\ echoes' = (echoes \ {p}) \cup {[p EXCEPT !.served = serverClock]}
    /\ UNCHANGED <<serverClock, skew, offset, trip>>

EstimateAllTheWay(p) == 2 * p.served + 2 * (ClientClock - p.sent) - 2 * ClientClock \* mutant

(* Twice the server's time and half the way, less the browser's time.      *)
Estimate(p) == 2 * p.served + (ClientClock - p.sent) - 2 * ClientClock

OnPong(p) ==
    /\ p.served # -1
    /\ echoes' = echoes \ {p}
    /\ offset' = Estimate(p)
    /\ trip' = IF p.trusted THEN ClientClock - p.sent ELSE -1
    /\ UNCHANGED <<serverClock, skew>>

PingLost(p) ==
    /\ echoes' = echoes \ {p}
    /\ UNCHANGED <<serverClock, skew, offset, trip>>

SetClock ==
    /\ skew' \in Skew
    /\ echoes' = {[p EXCEPT !.trusted = FALSE] : p \in echoes}
    /\ trip' = -1
    /\ UNCHANGED <<serverClock, offset>>

ClockNext ==
    \/ Tick \/ SendPing \/ SetClock
    \/ \E p \in echoes : HandlePing(p) \/ OnPong(p) \/ PingLost(p)

ClockSpec == ClockInit /\ [][ClockNext]_clockVars

-----------------------------------------------------------------------------

(* serverNow, twice.                                                       *)
ServerNow == 2 * ClientClock + offset

(* Once a ping has come back that is no older than the browser's clock,    *)
(* the page knows the server's time to within half of that ping's way,     *)
(* however slow and in whatever order pings come back; before the first    *)
(* one it takes the browser's clock for the server's.                      *)
ClockClose ==
    trip # -1 => ServerNow - 2 * serverClock \in -trip..trip

=============================================================================
