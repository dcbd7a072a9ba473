----------------------------- MODULE HubProofs -----------------------------
(***************************************************************************)
(* Proofs about Hub for any set of clients, any buffer capacity and any    *)
(* number of events.                                                       *)
(***************************************************************************)
EXTENDS Hub, FiniteSetTheorems, SequenceTheorems, TLAPS

USE ClientAssumption, UserAssumption, CapAssumption

(* A count of users is a natural number: it counts an image of a finite    *)
(* set of clients.                                                         *)
LEMMA CountType ==
    ASSUME NEW members \in SUBSET Client
    PROVE  Count(members) \in Nat
<1> DEFINE T == {UserOf[c] : c \in members}
           f == [c \in members |-> UserOf[c]]
<1>1. IsFiniteSet(members)
  BY FS_Subset
<1>2. f \in Surjection(members, T)
  BY DEF Surjection
<1>3. IsFiniteSet(T)
  BY <1>1, <1>2, FS_Surjection
<1> QED BY <1>3, FS_CardinalityType DEF Count

SendTyped ==
    /\ send' \in [Client -> Seq(Msg)]
    /\ \A c \in Client : Len(send'[c]) <= BufCap

PresenceTyped ==
    /\ SendTyped
    /\ told' \in [Client -> Nat]
    /\ overflow' \in [Client -> BOOLEAN]

DeliverTyped ==
    /\ SendTyped
    /\ clients' \in [Client -> SUBSET Client]
    /\ done' \in [Client -> BOOLEAN]
    /\ overflow' \in [Client -> BOOLEAN]

(* What broadcastPresence leaves in the variables it writes.               *)
LEMMA PresenceType ==
    ASSUME TypeOK, NEW members \in SUBSET Client, Presence(members)
    PROVE  PresenceTyped
<1>1. Direct \in Msg
  BY DEF Direct, Msg
<1>2. told' \in [Client -> Nat]
  BY CountType DEF Presence, TypeOK
<1>3. overflow' \in [Client -> BOOLEAN]
  BY DEF Presence, TypeOK
<1>4. \A c \in Client : Append(send[c], Direct) \in Seq(Msg)
                        /\ Len(Append(send[c], Direct)) = Len(send[c]) + 1
                        /\ Len(send[c]) \in Nat
  BY <1>1 DEF TypeOK
<1>5. send' \in [Client -> Seq(Msg)]
  BY <1>4 DEF Presence, TypeOK
<1>6. \A c \in Client : Len(send'[c]) <= BufCap
  BY <1>4 DEF Presence, TypeOK, Full
<1> QED BY <1>2, <1>3, <1>5, <1>6 DEF PresenceTyped, SendTyped

(* What deliver leaves in the variables it writes.                         *)
LEMMA DeliverType ==
    ASSUME TypeOK, NEW h \in Client, NEW m \in Msg, Deliver(h, m)
    PROVE  DeliverTyped
<1>1. \A c \in Client : Append(send[c], m) \in Seq(Msg)
                        /\ Len(Append(send[c], m)) = Len(send[c]) + 1
                        /\ Len(send[c]) \in Nat
  BY DEF TypeOK
<1>2. send' \in [Client -> Seq(Msg)]
  BY <1>1 DEF Deliver, TypeOK
<1>3. \A c \in Client : Len(send'[c]) <= BufCap
  BY <1>1 DEF Deliver, TypeOK, Full
<1>4. overflow' \in [Client -> BOOLEAN]
  BY DEF Deliver, TypeOK
<1>5. clients' \in [Client -> SUBSET Client] /\ done' \in [Client -> BOOLEAN]
  BY DEF Deliver, Drop, TypeOK
<1> QED BY <1>2, <1>3, <1>4, <1>5 DEF DeliverTyped, SendTyped

(* Taking from a buffer keeps its type.                                   *)
LEMMA TakeType ==
    ASSUME TypeOK, NEW c \in Client, send[c] # <<>>, send' = [send EXCEPT ![c] = Tail(@)]
    PROVE  SendTyped
<1>1. Tail(send[c]) \in Seq(Msg) /\ Len(Tail(send[c])) = Len(send[c]) - 1 /\ Len(send[c]) \in Nat
  BY DEF TypeOK
<1> QED BY <1>1 DEF TypeOK, SendTyped

(* Every step preserves the types.                                         *)
LEMMA TypeStep == TypeOK /\ [Next]_vars => TypeOK'
<1> SUFFICES ASSUME TypeOK, [Next]_vars PROVE TypeOK'
  OBVIOUS
<1> USE DEF hubVars, clientVars, history, Stage, Attaching, Reading, Detaching
<1>1. CASE RestPublish
  <2>1. published + 1 \in Event /\ published' \in 0..MaxEvents
    BY <1>1 DEF RestPublish, Publish, Event, TypeOK
  <2>2. pubSub' \in [Client -> Seq(Event)]
    BY <1>1, <2>1 DEF RestPublish, Publish, TypeOK
  <2> QED BY <1>1, <2>1, <2>2 DEF RestPublish, TypeOK
<1>2. ASSUME NEW c \in Client, ReadEvent(c) PROVE TypeOK'
  <2>1. published + 1 \in Event /\ published' \in 0..MaxEvents
    BY <1>2 DEF ReadEvent, Publish, Event, TypeOK
  <2>2. pubSub' \in [Client -> Seq(Event)]
    BY <1>2, <2>1 DEF ReadEvent, Publish, TypeOK
  <2> QED BY <1>2, <2>1, <2>2 DEF ReadEvent, TypeOK
<1>3. ASSUME NEW c \in Client, JoinLock(c) PROVE TypeOK'
  <2>1. hubs' \in Client /\ hub' \in [Client -> Client \cup {NoHub}]
    BY <1>3 DEF JoinLock, TypeOK
  <2>2. refs' \in [Client -> Int]
        /\ run' \in [Client -> {"none", "starting", "running", "stopped"}]
    BY <1>3 DEF JoinLock, TypeOK
  <2>3. \A d \in Client : at'[d] # "idle" => hub'[d] \in Client
    BY <1>3 DEF JoinLock, TypeOK
  <2> QED BY <1>3, <2>1, <2>2, <2>3 DEF JoinLock, TypeOK
<1>4. ASSUME NEW c \in Client, JoinRegister(c) PROVE TypeOK'
  <2>1. hub[c] \in Client
    BY <1>4 DEF JoinRegister, TypeOK
  <2>2. clients[hub[c]] \cup {c} \in SUBSET Client /\ Presence(clients[hub[c]] \cup {c})
    BY <1>4, <2>1 DEF JoinRegister, TypeOK
  <2>3. PresenceTyped
    BY <2>2, PresenceType
  <2> QED BY <1>4, <2>1, <2>3, ZenonT(60) DEF JoinRegister, TypeOK, PresenceTyped, SendTyped
<1>5. ASSUME NEW c \in Client, LeaveUnregister(c) PROVE TypeOK'
  <2>1. hub[c] \in Client
    BY <1>5 DEF LeaveUnregister, TypeOK
  <2>2. CASE c \in clients[hub[c]]
    <3>1. clients[hub[c]] \ {c} \in SUBSET Client /\ Presence(clients[hub[c]] \ {c})
      BY <1>5, <2>1, <2>2 DEF LeaveUnregister, TypeOK
    <3>2. clients' \in [Client -> SUBSET Client] /\ done' \in [Client -> BOOLEAN]
      <4>1. Drop(hub[c], {c})
        BY <1>5, <2>2 DEF LeaveUnregister
      <4> QED BY <2>1, <4>1 DEF Drop, TypeOK
    <3>3. PresenceTyped
      BY <3>1, PresenceType
    <3> QED BY <1>5, <2>1, <3>2, <3>3 DEF LeaveUnregister, TypeOK, PresenceTyped, SendTyped
  <2>3. CASE c \notin clients[hub[c]]
    BY <1>5, <2>1, <2>3 DEF LeaveUnregister, TypeOK
  <2> QED BY <2>2, <2>3
<1>6. ASSUME NEW c \in Client, LeaveLock(c) PROVE TypeOK'
  <2>1. hub[c] \in Client
    BY <1>6 DEF LeaveLock, Last, TypeOK
  <2>2. refs' \in [Client -> Int]
    <3>1. refs \in [Client -> Int] /\ refs' = [refs EXCEPT ![hub[c]] = @ - 1]
      BY <1>6 DEF LeaveLock, TypeOK
    <3> QED BY <2>1, <3>1
  <2>4. quit' \in [Client -> BOOLEAN]
    BY <1>6, <2>1 DEF LeaveLock, Last, TypeOK
  <2>5. panic' \in BOOLEAN
    BY <1>6, <2>1, Zenon DEF LeaveLock, Last, TypeOK
  <2>3. hubs' \in Client \cup {NoHub}
    BY <1>6 DEF LeaveLock, Last, TypeOK
  <2>6. /\ at' \in [Client -> Stage] /\ conn' \in [Client -> {"none", "up", "gone", "closed"}]
        /\ \A d \in Client : at'[d] # "idle" => hub'[d] \in Client
    BY <1>6, <2>1 DEF LeaveLock, Last, TypeOK
  <2>7. UNCHANGED <<run, clients, listener, held, pubSub, hub, write, send, done,
                    published, seen, told, overflow>>
    BY <1>6 DEF LeaveLock, Last
  <2> QED BY <2>2, <2>3, <2>4, <2>5, <2>6, <2>7 DEF TypeOK
<1>7. ASSUME NEW h \in Client, HubStart(h) \/ Subscribed(h) PROVE TypeOK'
  <2>1. CASE HubStart(h)
    BY <2>1 DEF HubStart, TypeOK
  <2>2. CASE Subscribed(h)
    BY <2>2 DEF Subscribed, TypeOK
  <2> QED BY <1>7, <2>1, <2>2
<1>8. ASSUME NEW h \in Client, HubQuit(h) PROVE TypeOK'
  BY <1>8 DEF HubQuit, Drop, TypeOK
<1>9. ASSUME NEW h \in Client, ListenTake(h) PROVE TypeOK'
  <2>1. Head(pubSub[h]) \in Event /\ Tail(pubSub[h]) \in Seq(Event)
    BY <1>9 DEF ListenTake, TypeOK
  <2>2. <<Head(pubSub[h])>> \in Seq(Event) /\ Len(<<Head(pubSub[h])>>) = 1
    BY <2>1
  <2>3. held' \in [Client -> Seq(Event)] /\ pubSub' \in [Client -> Seq(Event)]
    BY <1>9, <2>1, <2>2 DEF ListenTake, TypeOK
  <2>4. \A k \in Client : Len(held'[k]) <= 1
    BY <1>9, <2>2 DEF ListenTake, TypeOK
  <2> QED BY <1>9, <2>3, <2>4 DEF ListenTake, TypeOK
<1>10. ASSUME NEW h \in Client, Broadcast(h) PROVE TypeOK'
  <2>1. Head(held[h]) \in Msg
    BY <1>10 DEF Broadcast, TypeOK, Event, Msg
  <2>2. DeliverTyped
    BY <1>10, <2>1, DeliverType DEF Broadcast
  <2>3. held' \in [Client -> Seq(Event)] /\ \A k \in Client : Len(held'[k]) <= 1
    BY <1>10 DEF Broadcast, TypeOK
  <2> QED BY <1>10, <2>2, <2>3 DEF Broadcast, TypeOK, DeliverTyped, SendTyped
<1>11. ASSUME NEW h \in Client, ListenQuit(h) PROVE TypeOK'
  <2>1. held' \in [Client -> Seq(Event)] /\ \A k \in Client : Len(held'[k]) <= 1
    BY <1>11 DEF ListenQuit, TypeOK
  <2> QED BY <1>11, <2>1 DEF ListenQuit, TypeOK
<1>12. ASSUME NEW c \in Client, ReadPing(c) PROVE TypeOK'
  BY <1>12 DEF ReadPing, TypeOK
<1>13. ASSUME NEW c \in Client, SendPong(c) PROVE TypeOK'
  <2>1. Append(send[c], Direct) \in Seq(Msg)
        /\ Len(Append(send[c], Direct)) = Len(send[c]) + 1 /\ Len(send[c]) \in Nat
    BY DEF TypeOK, Direct, Msg
  <2>2. SendTyped
    <3>1. CASE ~Full(c) /\ send' = [send EXCEPT ![c] = Append(@, Direct)]
      BY <2>1, <3>1 DEF TypeOK, Full, SendTyped
    <3>2. CASE UNCHANGED send
      BY <3>2 DEF TypeOK, SendTyped
    <3> QED BY <1>13, <3>1, <3>2 DEF SendPong
  <2> QED BY <1>13, <2>2 DEF SendPong, TypeOK, SendTyped
<1>14. ASSUME NEW c \in Client, ReadError(c) PROVE TypeOK'
  BY <1>14 DEF ReadError, TypeOK
<1>15. ASSUME NEW c \in Client, WriteDone(c) PROVE TypeOK'
  BY <1>15 DEF WriteDone, WriteExit, TypeOK
<1>16. ASSUME NEW c \in Client, WriteMessage(c) PROVE TypeOK'
  <2>1. SendTyped
    BY <1>16, TakeType DEF WriteMessage
  <2>2. Head(send[c]) \in Msg
    BY <1>16 DEF WriteMessage, TypeOK
  <2>3. seen' \in [Client -> Msg]
    BY <1>16, <2>2 DEF WriteMessage, TypeOK
  <2> QED BY <1>16, <2>1, <2>3 DEF WriteMessage, TypeOK, SendTyped
<1>17. ASSUME NEW c \in Client, WriteFails(c) PROVE TypeOK'
  <2>1. SendTyped
    BY <1>17, TakeType DEF WriteFails
  <2> QED BY <1>17, <2>1 DEF WriteFails, WriteExit, TypeOK, SendTyped
<1>18. ASSUME NEW c \in Client, TickFails(c) PROVE TypeOK'
  BY <1>18 DEF TickFails, WriteExit, TypeOK
<1>19. ASSUME NEW c \in Client, PeerGone(c) PROVE TypeOK'
  BY <1>19 DEF PeerGone, TypeOK
<1>20. CASE UNCHANGED vars
  BY <1>20 DEF vars, TypeOK
<1> QED
  BY <1>1, <1>2, <1>3, <1>4, <1>5, <1>6, <1>7, <1>8, <1>9, <1>10, <1>11, <1>12, <1>13,
     <1>14, <1>15, <1>16, <1>17, <1>18, <1>19, <1>20
     DEF Next, HubStep, RegistryStep, ReadStep, WriteStep, Input

(* Type correctness.                                                       *)
THEOREM TypeCorrect == Spec => []TypeOK
<1>1. Init => TypeOK
  <2>1. \A S : <<>> \in Seq(S) /\ Len(<<>>) = 0
    OBVIOUS
  <2> SUFFICES ASSUME Init PROVE TypeOK
    OBVIOUS
  <2>2. /\ held \in [Client -> Seq(Event)] /\ pubSub \in [Client -> Seq(Event)]
        /\ send \in [Client -> Seq(Msg)]
        /\ \A c \in Client : Len(held[c]) <= 1 /\ Len(send[c]) <= BufCap
    BY <2>1 DEF Init
  <2>3. refs \in [Client -> Int] /\ published \in 0..MaxEvents
        /\ seen \in [Client -> Msg] /\ told \in [Client -> Nat]
    BY DEF Init, Msg
  <2> QED BY <2>2, <2>3 DEF Init, TypeOK, Stage
<1> QED BY <1>1, TypeStep, PTL DEF Spec

-----------------------------------------------------------------------------

Held == Attaching \cup Reading \cup Detaching

(* The holders of a hub are finitely many.                                 *)
LEMMA HoldersFinite ==
    ASSUME NEW h
    PROVE  IsFiniteSet(Holders(h)) /\ Cardinality(Holders(h)) \in Nat
<1>1. Holders(h) \in SUBSET Client
  BY DEF Holders
<1>2. IsFiniteSet(Holders(h))
  BY <1>1, FS_Subset
<1> QED BY <1>2, FS_CardinalityType

(* A step that neither joins nor leaves keeps every holder.                *)
LEMMA SameHolders ==
    ASSUME UNCHANGED hub, \A c \in Client : at[c] \in Held <=> at'[c] \in Held
    PROVE  \A h : Holders(h)' = Holders(h)
BY DEF Holders, Holds, Held

(* What a step must respect to keep the ledger when it does not join or    *)
(* leave.                                                                  *)
LEMMA LedgerFrame ==
    ASSUME Ledger,
           UNCHANGED <<hubs, refs, quit, panic>>,
           \A h : Holders(h)' = Holders(h),
           \A h \in Client : run'[h] = "none" <=> run[h] = "none",
           \A h \in Client : run'[h] = "stopped" => quit[h],
           \A c \in Client : at'[c] = "idle" => at[c] = "idle"
    PROVE  Ledger'
<1>1. RefsAreHolders'
  BY DEF Ledger, RefsAreHolders
<1>2. OneHubPerRoom'
  BY DEF Ledger, OneHubPerRoom
<1>3. NoPanic'
  BY DEF Ledger, NoPanic
<1>4. Lifecycle'
  BY DEF Ledger, Lifecycle
<1> QED BY <1>1, <1>2, <1>3, <1>4 DEF Ledger

(* A Join adds one holder, to the registered hub or to a new one.          *)
LEMMA JoinKeepsLedger ==
    ASSUME TypeOK, Ledger, NEW c \in Client, JoinLock(c)
    PROVE  Ledger'
<1>1. PICK k \in Client :
      /\ k = (IF hubs = NoHub THEN c ELSE hubs)
      /\ hubs' = k /\ hub' = [hub EXCEPT ![c] = k]
      /\ refs' = [refs EXCEPT ![k] = @ + 1]
      /\ at[c] = "idle" /\ at' = [at EXCEPT ![c] = "joining"]
      /\ run' = [run EXCEPT ![k] = IF hubs = NoHub THEN "starting" ELSE @]
      /\ quit' = quit /\ panic' = panic
  BY DEF JoinLock, TypeOK, history
<1>2. c \notin Holders(k) /\ Holders(k)' = Holders(k) \cup {c}
  <2>1. \A d \in Client : Holds(d, k)' <=> Holds(d, k) \/ d = c
    BY <1>1 DEF Holds, TypeOK, Attaching
  <2>2. ~Holds(c, k)
    BY <1>1 DEF Holds, Attaching, Reading, Detaching
  <2> QED BY <2>1, <2>2 DEF Holders
<1>3. \A h \in Client \ {k} : Holders(h)' = Holders(h)
  BY <1>1 DEF Holders, Holds, TypeOK, Attaching, Reading, Detaching
<1>4. Cardinality(Holders(k)') = Cardinality(Holders(k)) + 1
  BY <1>2, HoldersFinite, FS_AddElement
<1>5. ~quit[k] /\ \A h \in Client \ {k} : Holders(h) = {}
  <2>1. CASE hubs = NoHub
    BY <1>1, <2>1 DEF Ledger, OneHubPerRoom, Lifecycle
  <2>2. CASE hubs # NoHub
    <3>1. Holders(k) # {} /\ run[k] # "none"
      BY <1>1, <2>2 DEF Ledger, Lifecycle
    <3> QED BY <1>1, <2>2, <3>1 DEF Ledger, OneHubPerRoom, RefsAreHolders
  <2> QED BY <2>1, <2>2
<1>6. run'[k] # "none" /\ run'[k] # "stopped" /\ \A h \in Client \ {k} : run'[h] = run[h]
  <2>1. CASE hubs = NoHub
    BY <1>1, <2>1 DEF TypeOK
  <2>2. CASE hubs # NoHub
    BY <1>1, <1>5, <2>2 DEF TypeOK, Ledger, Lifecycle
  <2> QED BY <2>1, <2>2
<1>7. RefsAreHolders'
  <2>1. refs'[k] = Cardinality(Holders(k)')
    BY <1>1, <1>4 DEF Ledger, RefsAreHolders, TypeOK
  <2>2. \A h \in Client \ {k} : refs'[h] = refs[h]
    BY <1>1 DEF TypeOK
  <2> QED BY <1>1, <1>2, <1>3, <1>5, <1>6, <2>1, <2>2 DEF Ledger, RefsAreHolders
<1>8. OneHubPerRoom'
  BY <1>1, <1>3, <1>5 DEF OneHubPerRoom
<1>9. NoPanic'
  BY <1>1 DEF Ledger, NoPanic
<1>10. Lifecycle'
  <2>1. \A d \in Client : at'[d] = "idle" => at[d] = "idle" /\ d # c
    BY <1>1 DEF TypeOK
  <2>2. \A d \in Client : at'[d] = "idle" => d # k
    BY <2>1, <1>1, <1>6 DEF Ledger, Lifecycle
  <2>3. \A h \in Client : run'[h] = "none" => ~quit'[h] /\ Holders(h)' = {}
    BY <1>1, <1>3, <1>6 DEF Ledger, Lifecycle
  <2>4. \A h \in Client : hubs' = h => Holders(h)' # {}
    BY <1>1, <1>2
  <2>5. \A h \in Client : run'[h] = "stopped" => quit'[h]
    BY <1>1, <1>6 DEF Ledger, Lifecycle
  <2>6. \A d \in Client : at'[d] = "idle" => run'[d] = "none"
    BY <1>6, <2>1, <2>2 DEF Ledger, Lifecycle
  <2> QED BY <2>3, <2>4, <2>5, <2>6 DEF Lifecycle
<1> QED BY <1>7, <1>8, <1>9, <1>10 DEF Ledger

(* A Leave removes one holder; the last one unhooks and stops the hub.     *)
LEMMA LeaveKeepsLedger ==
    ASSUME TypeOK, Ledger, NEW c \in Client, LeaveLock(c)
    PROVE  Ledger'
<1>1. PICK k \in Client :
      /\ k = hub[c] /\ c \in Holders(k)
      /\ refs' = [refs EXCEPT ![k] = @ - 1]
      /\ hubs' = (IF refs[k] <= 1 /\ hubs = k THEN NoHub ELSE hubs)
      /\ quit' = [quit EXCEPT ![k] = @ \/ refs[k] <= 1]
      /\ panic' = (panic \/ (refs[k] <= 1 /\ quit[k]))
      /\ at' = [at EXCEPT ![c] = "exited"]
      /\ UNCHANGED <<run, hub>>
  BY DEF LeaveLock, Last, TypeOK, Holders, Holds, Detaching
<1>2. Holders(k)' = Holders(k) \ {c}
  <2>1. \A d \in Client : Holds(d, k)' <=> Holds(d, k) /\ d # c
    BY <1>1 DEF Holds, TypeOK, Attaching, Reading, Detaching
  <2> QED BY <2>1 DEF Holders
<1>3. \A h \in Client \ {k} : Holders(h)' = Holders(h)
  <2>1. \A h \in Client \ {k}, d \in Client : Holds(d, h)' <=> Holds(d, h)
    BY <1>1 DEF Holds, TypeOK, Attaching, Reading, Detaching
  <2> QED BY <2>1 DEF Holders
<1>4. /\ refs[k] = Cardinality(Holders(k)) /\ refs[k] \in Nat
      /\ Cardinality(Holders(k)') = refs[k] - 1 /\ Cardinality(Holders(k)') \in Nat
  <2>1. refs[k] = Cardinality(Holders(k))
    BY <1>1 DEF Ledger, RefsAreHolders
  <2>2. /\ IsFiniteSet(Holders(k) \ {c})
        /\ Cardinality(Holders(k) \ {c}) = Cardinality(Holders(k)) - 1
    BY <1>1, HoldersFinite, FS_RemoveElement
  <2>3. Cardinality(Holders(k) \ {c}) \in Nat
    BY <2>2, FS_CardinalityType
  <2> QED BY <1>2, <2>1, <2>2, <2>3, HoldersFinite
<1>5. refs[k] <= 1 <=> Holders(k)' = {}
  <2>1. IsFiniteSet(Holders(k) \ {c})
    BY HoldersFinite, FS_RemoveElement
  <2>2. Cardinality(Holders(k) \ {c}) = 0 <=> Holders(k) \ {c} = {}
    BY <2>1, FS_EmptySet
  <2> QED BY <1>2, <1>4, <2>2
<1>6. run[k] # "none" /\ ~quit[k] /\ hubs = k
  BY <1>1 DEF Ledger, RefsAreHolders, OneHubPerRoom, Lifecycle
<1>7. \A h \in Client \ {k} : Holders(h) = {} /\ Holders(h)' = {}
  BY <1>1, <1>3, <1>6 DEF Ledger, OneHubPerRoom
<1>8. RefsAreHolders'
  <2>1. refs'[k] = Cardinality(Holders(k)')
    BY <1>1, <1>4 DEF TypeOK
  <2>2. quit'[k] <=> Holders(k)' = {}
    BY <1>1, <1>5, <1>6 DEF TypeOK
  <2>3. \A h \in Client \ {k} : refs'[h] = refs[h] /\ quit'[h] = quit[h]
    BY <1>1 DEF TypeOK
  <2> QED BY <1>1, <1>3, <2>1, <2>2, <2>3 DEF Ledger, RefsAreHolders
<1>9. OneHubPerRoom'
  <2>1. Holders(k)' # {} => hubs' = k
    BY <1>1, <1>5, <1>6
  <2> QED BY <1>7, <2>1 DEF OneHubPerRoom
<1>10. NoPanic'
  BY <1>1, <1>6 DEF Ledger, NoPanic
<1>11. Lifecycle'
  <2>1. \A h \in Client \ {k} : quit'[h] = quit[h]
    BY <1>1 DEF TypeOK
  <2>2. \A h \in Client : run'[h] = "none" => ~quit'[h] /\ Holders(h)' = {}
    BY <1>1, <1>3, <1>6, <2>1 DEF Ledger, Lifecycle
  <2>3. \A h \in Client : hubs' = h => Holders(h)' # {}
    BY <1>1, <1>5, <1>6
  <2>4. \A h \in Client : run'[h] = "stopped" => quit'[h]
    BY <1>1, <1>6, <2>1 DEF Ledger, Lifecycle
  <2>5. \A d \in Client : at'[d] = "idle" => run'[d] = "none"
    BY <1>1 DEF Ledger, Lifecycle, TypeOK
  <2> QED BY <2>2, <2>3, <2>4, <2>5 DEF Lifecycle
<1> QED BY <1>8, <1>9, <1>10, <1>11 DEF Ledger

(* Every other step is framed.                                             *)
LEMMA LedgerStep == TypeOK /\ Ledger /\ [Next]_vars => Ledger'
<1> SUFFICES ASSUME TypeOK, Ledger, [Next]_vars PROVE Ledger'
  OBVIOUS
<1> USE DEF hubVars, clientVars, history
<1> DEFINE Framed ==
      /\ UNCHANGED <<hubs, refs, quit, panic, hub>>
      /\ \A c \in Client : at[c] \in Held <=> at'[c] \in Held
      /\ \A c \in Client : at'[c] = "idle" => at[c] = "idle"
      /\ \A h \in Client : run'[h] = "none" <=> run[h] = "none"
      /\ \A h \in Client : run'[h] = "stopped" => quit[h]
<1> HIDE DEF Framed
<1>1. Framed => Ledger'
  BY SameHolders, LedgerFrame DEF Framed
<1>2. \A h \in Client : run[h] = "stopped" => quit[h]
  BY DEF Ledger, Lifecycle
<1>3. ASSUME UNCHANGED <<hubs, refs, quit, panic, hub, at, run>> PROVE Ledger'
  BY <1>1, <1>2, <1>3 DEF Framed
<1>4. CASE RestPublish
  BY <1>3, <1>4 DEF RestPublish
<1>5. ASSUME NEW c \in Client, JoinLock(c) \/ LeaveLock(c) PROVE Ledger'
  BY <1>5, JoinKeepsLedger, LeaveKeepsLedger
<1>6. ASSUME NEW c \in Client, JoinRegister(c) PROVE Ledger'
  <2> Framed
    BY <1>2, <1>6 DEF Framed, JoinRegister, TypeOK, Held, Attaching, Reading
  <2> QED BY <1>1
<1>7. ASSUME NEW c \in Client, LeaveUnregister(c) PROVE Ledger'
  <2> Framed
    BY <1>2, <1>7 DEF Framed, LeaveUnregister, TypeOK, Held, Detaching
  <2> QED BY <1>1
<1>8. ASSUME NEW h \in Client, HubStart(h) PROVE Ledger'
  <2> Framed
    BY <1>2, <1>8 DEF Framed, HubStart, TypeOK
  <2> QED BY <1>1
<1>9. ASSUME NEW h \in Client, HubQuit(h) PROVE Ledger'
  <2> Framed
    BY <1>2, <1>9 DEF Framed, HubQuit, TypeOK
  <2> QED BY <1>1
<1>10. ASSUME NEW h \in Client, Subscribed(h) \/ ListenTake(h) \/ Broadcast(h) \/ ListenQuit(h)
       PROVE  Ledger'
  BY <1>3, <1>10 DEF Subscribed, ListenTake, Broadcast, ListenQuit
<1>11. ASSUME NEW c \in Client, ReadPing(c) \/ SendPong(c) PROVE Ledger'
  <2>1. /\ UNCHANGED <<hubs, refs, quit, panic, hub, run>>
        /\ at[c] \in Reading
        /\ at' = [at EXCEPT ![c] = "sending"] \/ at' = [at EXCEPT ![c] = "reading"]
    BY <1>11 DEF ReadPing, SendPong, Reading
  <2>2. at'[c] \in Reading /\ \A d \in Client \ {c} : at'[d] = at[d]
    BY <2>1 DEF TypeOK, Reading
  <2>3. \A d \in Client : at[d] \in Held <=> at'[d] \in Held
    BY <2>1, <2>2 DEF Held
  <2>4. \A d \in Client : at'[d] = "idle" => at[d] = "idle"
    BY <2>2 DEF Reading
  <2>5. \A h \in Client : run'[h] = run[h]
    BY <2>1
  <2> Framed
    BY <1>2, <2>1, <2>3, <2>4, <2>5, Zenon DEF Framed
  <2> QED BY <1>1
<1>12. ASSUME NEW c \in Client, ReadError(c) PROVE Ledger'
  <2> Framed
    BY <1>2, <1>12 DEF Framed, ReadError, TypeOK, Held, Reading, Detaching
  <2> QED BY <1>1
<1>13. ASSUME NEW c \in Client,
              ReadEvent(c) \/ WriteDone(c) \/ WriteMessage(c) \/ WriteFails(c)
                \/ TickFails(c) \/ PeerGone(c)
       PROVE  Ledger'
  BY <1>3, <1>13
     DEF ReadEvent, WriteDone, WriteMessage, WriteFails, WriteExit, TickFails, PeerGone
<1>14. CASE UNCHANGED vars
  BY <1>3, <1>14 DEF vars
<1> QED
  BY <1>4, <1>5, <1>6, <1>7, <1>8, <1>9, <1>10, <1>11, <1>12, <1>13, <1>14
     DEF Next, HubStep, RegistryStep, ReadStep, WriteStep, Input

(* The registry's bookkeeping is right in every reachable state: refs      *)
(* counts the clients between Join and Leave, the room has one hub that    *)
(* all of them share, it is told to quit exactly when the last has gone,   *)
(* and quit is closed only once.                                           *)
THEOREM LedgerHolds == Spec => []Ledger
<1>1. Init => Ledger
  <2> SUFFICES ASSUME Init PROVE Ledger
    OBVIOUS
  <2>1. \A h : Holders(h) = {}
    BY DEF Init, Holders, Holds, Attaching, Reading, Detaching
  <2>2. Cardinality({}) = 0
    BY FS_EmptySet
  <2> QED BY <2>1, <2>2 DEF Init, Ledger, RefsAreHolders, OneHubPerRoom, NoPanic, Lifecycle
<1>2. Spec => []TypeOK
  BY TypeCorrect
<1> QED BY <1>1, <1>2, LedgerStep, PTL DEF Spec

(* A goroutine about to register with its hub or to unregister from it     *)
(* finds the hub alive, whatever joins and leaves happen around it.        *)
THEOREM NobodyIsStranded == Spec => []NobodyStranded
<1>1. TypeOK /\ Ledger => NobodyStranded
  <2> SUFFICES ASSUME TypeOK, Ledger, NEW c \in Client, at[c] \in {"joining", "leaving"}
               PROVE  run[hub[c]] \in {"starting", "running"} /\ ~quit[hub[c]]
    BY DEF NobodyStranded
  <2>1. hub[c] \in Client /\ c \in Holders(hub[c])
    BY DEF TypeOK, Holders, Holds, Attaching, Detaching
  <2>2. run[hub[c]] # "none" /\ ~quit[hub[c]]
    BY <2>1 DEF Ledger, Lifecycle, RefsAreHolders
  <2> QED BY <2>1, <2>2 DEF Ledger, Lifecycle, TypeOK
<1> QED BY <1>1, TypeCorrect, LedgerHolds, PTL

-----------------------------------------------------------------------------

(* What a step must respect to keep the attachment when the hub's map and  *)
(* the Done channels stay as they are.                                     *)
LEMMA AttachmentFrame ==
    ASSUME TypeOK, Attachment,
           UNCHANGED <<clients, done, hub>>,
           \A c \in Client : at[c] \in {"idle", "joining"} <=> at'[c] \in {"idle", "joining"}
    PROVE  Attachment'
<1>1. DoneIsDetached'
  BY DEF Attachment, DoneIsDetached
<1>2. AttachedOnce'
  <2>1. \A h \in Client : \A c \in clients[h] : c \in Client
    BY DEF TypeOK
  <2>2. \A h \in Client : \A c \in clients'[h] : hub'[c] = h /\ at'[c] \notin {"idle", "joining"}
    BY <2>1 DEF Attachment, AttachedOnce
  <2>3. \A c \in Client : done'[c] => at'[c] \notin {"idle", "joining"}
    BY DEF Attachment, AttachedOnce
  <2> QED BY <2>2, <2>3 DEF AttachedOnce
<1> QED BY <1>1, <1>2 DEF Attachment

(* Dropping clients that are attached keeps the attachment.                *)
LEMMA DropKeepsAttachment ==
    ASSUME TypeOK, Attachment, NEW h \in Client, NEW gone \in SUBSET clients[h], Drop(h, gone),
           UNCHANGED hub,
           \A c \in Client : at[c] \in {"idle", "joining"} <=> at'[c] \in {"idle", "joining"}
    PROVE  Attachment'
<1>1. /\ clients' = [clients EXCEPT ![h] = @ \ gone]
      /\ \A c \in Client : done'[c] <=> done[c] \/ c \in gone
  BY DEF Drop
<1>2. \A c \in gone : hub[c] = h /\ at[c] \notin {"idle", "joining"}
  BY DEF Attachment, AttachedOnce
<1>3. \A k \in Client : clients'[k] = IF k = h THEN clients[k] \ gone ELSE clients[k]
  BY <1>1 DEF TypeOK
<1>4. DoneIsDetached'
  <2> SUFFICES ASSUME NEW c \in Client, at'[c] \notin {"idle", "joining"}
               PROVE  done'[c] <=> c \notin clients'[hub[c]]
    BY DEF DoneIsDetached
  <2>1. hub[c] \in Client /\ (done[c] <=> c \notin clients[hub[c]])
    BY DEF TypeOK, Attachment, DoneIsDetached
  <2> QED BY <1>1, <1>2, <1>3, <2>1
<1>5. AttachedOnce'
  <2>1. \A k \in Client : clients'[k] \subseteq clients[k] /\ clients[k] \subseteq Client
    BY <1>3, ZenonT(60) DEF TypeOK
  <2>2. \A k \in Client : \A c \in clients'[k] : hub'[c] = k /\ at'[c] \notin {"idle", "joining"}
    BY <2>1 DEF Attachment, AttachedOnce
  <2>3. gone \subseteq Client
    BY DEF TypeOK
  <2>4. \A c \in Client : done'[c] => at'[c] \notin {"idle", "joining"}
    BY <1>1, <1>2, <2>3 DEF Attachment, AttachedOnce
  <2> QED BY <2>2, <2>4 DEF AttachedOnce
<1> QED BY <1>4, <1>5 DEF Attachment

(* Registering attaches a client that no hub has ever attached.            *)
LEMMA RegisterKeepsAttachment ==
    ASSUME TypeOK, Attachment, NEW c \in Client, JoinRegister(c)
    PROVE  Attachment'
<1>1. PICK k \in Client :
      /\ k = hub[c] /\ at[c] = "joining" /\ at' = [at EXCEPT ![c] = "reading"]
      /\ clients' = [clients EXCEPT ![k] = @ \cup {c}]
      /\ UNCHANGED <<hub, done>>
  BY DEF JoinRegister, TypeOK
<1>2. ~done[c] /\ \A h \in Client : c \notin clients[h]
  BY <1>1 DEF Attachment, AttachedOnce
<1>3. /\ \A h \in Client : clients'[h] = IF h = k THEN clients[h] \cup {c} ELSE clients[h]
      /\ \A d \in Client : at'[d] = IF d = c THEN "reading" ELSE at[d]
  BY <1>1 DEF TypeOK
<1>4. DoneIsDetached'
  <2>1. ~done'[c] /\ c \in clients'[hub'[c]]
    BY <1>1, <1>2, <1>3
  <2>2. ASSUME NEW d \in Client \ {c}, at'[d] \notin {"idle", "joining"}
        PROVE  done'[d] <=> d \notin clients'[hub'[d]]
    <3>1. at[d] \notin {"idle", "joining"} /\ hub[d] \in Client
      BY <1>3, <2>2 DEF TypeOK
    <3>2. done[d] <=> d \notin clients[hub[d]]
      BY <3>1 DEF Attachment, DoneIsDetached
    <3> QED BY <1>1, <1>3, <3>1, <3>2
  <2> QED BY <2>1, <2>2 DEF DoneIsDetached
<1>5. AttachedOnce'
  <2>1. \A h \in Client : \A d \in clients'[h] : hub'[d] = h /\ at'[d] \notin {"idle", "joining"}
    <3>1. ASSUME NEW h \in Client, NEW d \in clients'[h]
          PROVE  hub'[d] = h /\ at'[d] \notin {"idle", "joining"}
      <4>1. CASE d \in clients[h]
        <5>1. hub[d] = h /\ at[d] \notin {"idle", "joining"} /\ d \in Client
          BY <4>1 DEF Attachment, AttachedOnce, TypeOK
        <5> QED BY <1>1, <1>3, <5>1
      <4>2. CASE h = k /\ d = c
        BY <1>1, <1>3, <4>2
      <4> QED BY <1>3, <3>1, <4>1, <4>2
    <3> QED BY <3>1
  <2>2. \A d \in Client : done'[d] => at'[d] \notin {"idle", "joining"}
    BY <1>1, <1>3 DEF Attachment, AttachedOnce
  <2> QED BY <2>1, <2>2 DEF AttachedOnce
<1> QED BY <1>4, <1>5 DEF Attachment

(* Every step keeps the attachment.                                        *)
LEMMA AttachmentStep == TypeOK /\ Attachment /\ [Next]_vars => Attachment'
<1> SUFFICES ASSUME TypeOK, Attachment, [Next]_vars PROVE Attachment'
  OBVIOUS
<1> USE DEF hubVars, clientVars, history
<1> DEFINE Kept ==
      /\ UNCHANGED hub
      /\ \A c \in Client : at[c] \in {"idle", "joining"} <=> at'[c] \in {"idle", "joining"}
<1> HIDE DEF Kept
<1>1. Kept /\ UNCHANGED <<clients, done>> => Attachment'
  BY AttachmentFrame DEF Kept
<1>2. ASSUME UNCHANGED <<hub, at, clients, done>> PROVE Attachment'
  BY <1>1, <1>2 DEF Kept
<1>3. CASE RestPublish
  BY <1>2, <1>3 DEF RestPublish
<1>4. ASSUME NEW c \in Client, JoinLock(c) PROVE Attachment'
  <2>1. /\ UNCHANGED <<clients, done>>
        /\ at[c] = "idle" /\ at' = [at EXCEPT ![c] = "joining"]
        /\ \A d \in Client : d # c => hub'[d] = hub[d]
    BY <1>4 DEF JoinLock, TypeOK
  <2>2. \A d \in Client : at[d] \in {"idle", "joining"} <=> at'[d] \in {"idle", "joining"}
    BY <2>1 DEF TypeOK
  <2>3. \A h \in Client : c \notin clients[h]
    BY <2>1 DEF Attachment, AttachedOnce
  <2>4. DoneIsDetached'
    BY <2>1, <2>2 DEF Attachment, DoneIsDetached
  <2>5. AttachedOnce'
    <3>1. ASSUME NEW h \in Client, NEW d \in clients'[h]
          PROVE  hub'[d] = h /\ at'[d] \notin {"idle", "joining"}
      <4>1. d \in clients[h] /\ d # c
        BY <2>1, <2>3, <3>1
      <4>2. hub[d] = h /\ at[d] \notin {"idle", "joining"} /\ d \in Client
        BY <4>1 DEF Attachment, AttachedOnce, TypeOK
      <4> QED BY <2>1, <2>2, <4>1, <4>2
    <3>2. \A d \in Client : done'[d] => at'[d] \notin {"idle", "joining"}
      BY <2>1, <2>2 DEF Attachment, AttachedOnce
    <3> QED BY <3>1, <3>2 DEF AttachedOnce
  <2> QED BY <2>4, <2>5 DEF Attachment
<1>5. ASSUME NEW c \in Client, JoinRegister(c) PROVE Attachment'
  BY <1>5, RegisterKeepsAttachment
<1>6. ASSUME NEW c \in Client, LeaveUnregister(c) PROVE Attachment'
  <2>1. Kept /\ hub[c] \in Client
    BY <1>6 DEF LeaveUnregister, TypeOK, Kept
  <2>2. CASE c \in clients[hub[c]]
    <3>1. Drop(hub[c], {c}) /\ {c} \in SUBSET clients[hub[c]]
      BY <1>6, <2>2 DEF LeaveUnregister
    <3> QED BY <2>1, <3>1, DropKeepsAttachment DEF Kept
  <2>3. CASE c \notin clients[hub[c]]
    BY <1>1, <1>6, <2>1, <2>3 DEF LeaveUnregister
  <2> QED BY <2>2, <2>3
<1>7. ASSUME NEW h \in Client, HubQuit(h) PROVE Attachment'
  <2>1. Kept /\ Drop(h, clients[h])
    BY <1>7 DEF HubQuit, Kept
  <2> QED BY <2>1, DropKeepsAttachment DEF Kept
<1>8. ASSUME NEW h \in Client, Broadcast(h) PROVE Attachment'
  <2>1. PICK gone \in SUBSET clients[h] : Drop(h, gone)
    BY <1>8 DEF Broadcast, Deliver, TypeOK
  <2>2. Kept
    BY <1>8 DEF Broadcast, Kept
  <2> QED BY <2>1, <2>2, DropKeepsAttachment DEF Kept
<1>9. ASSUME NEW c \in Client, ReadPing(c) \/ SendPong(c) PROVE Attachment'
  <2>1. /\ UNCHANGED <<hub, clients, done>>
        /\ at[c] \in Reading
        /\ at' = [at EXCEPT ![c] = "sending"] \/ at' = [at EXCEPT ![c] = "reading"]
    BY <1>9 DEF ReadPing, SendPong, Reading
  <2> QED BY <1>1, <2>1, SMTT(30) DEF Kept, TypeOK, Reading
<1>10. ASSUME NEW c \in Client, ReadError(c) PROVE Attachment'
  BY <1>1, <1>10 DEF ReadError, Kept, TypeOK
<1>11. ASSUME NEW c \in Client, LeaveLock(c) PROVE Attachment'
  BY <1>1, <1>11 DEF LeaveLock, Last, Kept, TypeOK
<1>12. ASSUME NEW h \in Client, HubStart(h) \/ Subscribed(h) \/ ListenTake(h) \/ ListenQuit(h)
       PROVE  Attachment'
  BY <1>2, <1>12 DEF HubStart, Subscribed, ListenTake, ListenQuit
<1>13. ASSUME NEW c \in Client,
              ReadEvent(c) \/ WriteDone(c) \/ WriteMessage(c) \/ WriteFails(c)
                \/ TickFails(c) \/ PeerGone(c)
       PROVE  Attachment'
  BY <1>2, <1>13
     DEF ReadEvent, WriteDone, WriteMessage, WriteFails, WriteExit, TickFails, PeerGone
<1>14. CASE UNCHANGED vars
  BY <1>2, <1>14 DEF vars
<1> QED
  BY <1>3, <1>4, <1>5, <1>6, <1>7, <1>8, <1>9, <1>10, <1>11, <1>12, <1>13, <1>14
     DEF Next, HubStep, RegistryStep, ReadStep, WriteStep, Input

(* A client's Done is closed exactly when its hub no longer serves it, and *)
(* no hub but its own ever serves it.                                      *)
THEOREM AttachmentHolds == Spec => []Attachment
<1>1. Init => Attachment
  BY DEF Init, Attachment, DoneIsDetached, AttachedOnce
<1> QED BY <1>1, AttachmentStep, TypeCorrect, PTL DEF Spec

(* The next room event frees a read pump that is stuck in Client.send.     *)
THEOREM StuckIsFreed == Spec => BroadcastFreesStuck
<1>1. TypeOK /\ Attachment /\ [Next]_vars =>
        [\A c \in Client : Stuck(c) /\ Broadcast(hub[c]) => done'[c]]_vars
  <2> SUFFICES ASSUME TypeOK, Attachment, NEW c \in Client, Stuck(c), Broadcast(hub[c])
               PROVE  done'[c]
    OBVIOUS
  <2>1. hub[c] \in Client /\ c \in clients[hub[c]] /\ Full(c)
    BY DEF Stuck, TypeOK, Attachment, DoneIsDetached
  <2> QED BY <2>1 DEF Broadcast, Deliver, Drop
<1> QED BY <1>1, TypeCorrect, AttachmentHolds, PTL DEF Spec, BroadcastFreesStuck

-----------------------------------------------------------------------------

(* A connection that has not begun has overflowed nobody's buffer.         *)
Untouched == \A c \in Client : at[c] = "idle" => ~overflow[c]

Unfilled(h) == \A c \in Client : hub[c] = h => ~overflow[c]

(* Nothing that presence depends on changes, or a connection begins.       *)
LEMMA PresenceFrame ==
    ASSUME TypeOK, PresenceAccurate, Untouched,
           UNCHANGED <<clients, told, overflow>>,
           \A c \in Client : hub'[c] = hub[c] \/ at[c] = "idle",
           \A c \in Client : at'[c] = "idle" => at[c] = "idle"
    PROVE  PresenceAccurate' /\ Untouched'
<1>1. Untouched'
  BY DEF Untouched
<1>2. ASSUME NEW h \in Client, Unfilled(h)' PROVE Unfilled(h)
  BY <1>2 DEF Unfilled, Untouched
<1>3. \A h \in Client : Listening(h)' = Listening(h)
  BY DEF Listening
<1>4. PresenceAccurate'
  BY <1>2, <1>3 DEF PresenceAccurate, Unfilled
<1> QED BY <1>1, <1>4

(* A hub announces its clients to all of them, and concerns no other.      *)
LEMMA PresenceAnnounced ==
    ASSUME TypeOK, TypeOK', PresenceAccurate, Untouched, AttachedOnce, AttachedOnce',
           NEW h \in Client, Presence(clients'[h]),
           UNCHANGED hub, \A k \in Client \ {h} : clients'[k] = clients[k],
           \A c \in Client : at'[c] = "idle" => at[c] = "idle"
    PROVE  PresenceAccurate' /\ Untouched'
<1>1. Untouched'
  BY DEF Untouched, Presence, AttachedOnce
<1>2. SUFFICES ASSUME NEW k \in Client, Unfilled(k)', NEW c \in clients'[k]
               PROVE  told'[c] = Cardinality(Listening(k)')
  BY <1>1 DEF PresenceAccurate, Unfilled
<1>3. c \in Client /\ hub[c] = k /\ ~overflow'[c]
  BY <1>2 DEF AttachedOnce, TypeOK, Unfilled
<1>4. CASE k = h
  <2>1. told'[c] = Count(clients'[h])
    BY <1>2, <1>3, <1>4 DEF Presence
  <2>2. \A d \in clients'[h] : d \in Client /\ UserOf[d] \in User
    BY DEF TypeOK
  <2>3. {UserOf[d] : d \in clients'[h]} = Listening(h)'
    BY <2>2 DEF Listening
  <2> QED BY <1>4, <2>1, <2>3 DEF Count
<1>5. CASE k # h
  <2>1. c \in clients[k] /\ c \notin clients'[h]
    BY <1>2, <1>3, <1>5 DEF AttachedOnce
  <2>2. told'[c] = told[c]
    BY <1>3, <2>1 DEF Presence
  <2>3. Unfilled(k)
    BY <1>2 DEF Unfilled, Presence
  <2>4. Listening(k)' = Listening(k)
    BY <1>5 DEF Listening
  <2> QED BY <2>1, <2>2, <2>3, <2>4 DEF PresenceAccurate, Unfilled
<1> QED BY <1>4, <1>5

(* A hub lets go of clients without a word: of all of them, or of slow     *)
(* ones, whose overflow is remembered.                                     *)
LEMMA PresenceDropped ==
    ASSUME TypeOK, PresenceAccurate, Untouched, AttachedOnce,
           NEW h \in Client, NEW gone \in SUBSET clients[h],
           \A k \in Client : clients'[k] = IF k = h THEN clients[k] \ gone ELSE clients[k],
           gone = clients[h] \/ \A c \in gone : overflow'[c],
           \A c \in Client : overflow'[c] => overflow[c] \/ c \in gone,
           \A c \in Client : overflow[c] => overflow'[c],
           UNCHANGED <<hub, at, told>>
    PROVE  PresenceAccurate' /\ Untouched'
<1>1. \A c \in gone : c \in Client /\ hub[c] = h /\ at[c] # "idle"
  BY DEF AttachedOnce, TypeOK
<1>2. Untouched'
  BY <1>1 DEF Untouched
<1>3. SUFFICES ASSUME NEW k \in Client, Unfilled(k)', NEW c \in clients'[k]
               PROVE  told'[c] = Cardinality(Listening(k)')
  BY <1>2 DEF PresenceAccurate, Unfilled
<1>4. c \in clients[k] /\ Unfilled(k)
  BY <1>3 DEF Unfilled
<1>5. clients'[k] = clients[k]
  BY <1>1, <1>3, ZenonT(60) DEF Unfilled
<1>6. Listening(k)' = Listening(k)
  BY <1>5 DEF Listening
<1> QED BY <1>4, <1>6 DEF PresenceAccurate, Unfilled

PresenceInv == PresenceAccurate /\ Untouched

(* Every step keeps the presence accurate.                                 *)
LEMMA PresenceStep ==
    TypeOK /\ TypeOK' /\ Attachment /\ Attachment' /\ PresenceInv /\ [Next]_vars => PresenceInv'
<1> SUFFICES ASSUME TypeOK, TypeOK', Attachment, Attachment', PresenceInv, [Next]_vars
             PROVE  PresenceInv'
  OBVIOUS
<1> USE DEF hubVars, clientVars, history
<1>0. AttachedOnce /\ AttachedOnce' /\ PresenceAccurate /\ Untouched
  BY DEF Attachment, PresenceInv
<1>1. ASSUME UNCHANGED <<hub, at, clients, told, overflow>> PROVE PresenceInv'
  BY <1>0, <1>1, PresenceFrame DEF PresenceInv
<1>2. CASE RestPublish
  BY <1>1, <1>2 DEF RestPublish
<1>3. ASSUME NEW c \in Client,
             JoinLock(c) \/ LeaveLock(c) \/ ReadPing(c) \/ SendPong(c) \/ ReadError(c)
      PROVE  PresenceInv'
  <2>1. UNCHANGED <<clients, told, overflow>>
    BY <1>3 DEF JoinLock, LeaveLock, ReadPing, SendPong, ReadError
  <2>2. \A d \in Client : hub'[d] = hub[d] \/ at[d] = "idle"
    <3>1. CASE JoinLock(c)
      BY <3>1 DEF JoinLock, TypeOK
    <3>2. CASE ~JoinLock(c)
      <4>1. UNCHANGED hub
        BY <1>3, <3>2 DEF LeaveLock, ReadPing, SendPong, ReadError
      <4> QED BY <4>1
    <3> QED BY <3>1, <3>2
  <2>3. \A d \in Client : at'[d] = "idle" => at[d] = "idle"
    <3>1. \E next \in Stage \ {"idle"} : at' = [at EXCEPT ![c] = next]
      BY <1>3 DEF JoinLock, LeaveLock, ReadPing, SendPong, ReadError,
                  Stage, Attaching, Reading, Detaching
    <3> QED BY <3>1 DEF TypeOK
  <2> QED BY <1>0, <2>1, <2>2, <2>3, PresenceFrame DEF PresenceInv
<1>4. ASSUME NEW c \in Client, JoinRegister(c) PROVE PresenceInv'
  <2>1. /\ hub[c] \in Client /\ clients'[hub[c]] = clients[hub[c]] \cup {c}
        /\ \A k \in Client \ {hub[c]} : clients'[k] = clients[k]
        /\ \A d \in Client : at'[d] = "idle" => at[d] = "idle"
    BY <1>4 DEF JoinRegister, TypeOK
  <2>2. Presence(clients'[hub[c]]) /\ UNCHANGED hub
    BY <1>4, <2>1 DEF JoinRegister
  <2> QED BY <1>0, <2>1, <2>2, PresenceAnnounced DEF PresenceInv
<1>5. ASSUME NEW c \in Client, LeaveUnregister(c) PROVE PresenceInv'
  <2>1. hub[c] \in Client /\ UNCHANGED hub /\ \A d \in Client : at'[d] = "idle" => at[d] = "idle"
    BY <1>5 DEF LeaveUnregister, TypeOK
  <2>2. CASE c \in clients[hub[c]]
    <3>1. /\ clients'[hub[c]] = clients[hub[c]] \ {c}
          /\ \A k \in Client \ {hub[c]} : clients'[k] = clients[k]
      BY <1>5, <2>1, <2>2 DEF LeaveUnregister, Drop, TypeOK
    <3>2. Presence(clients'[hub[c]])
      BY <1>5, <2>2, <3>1 DEF LeaveUnregister
    <3> QED BY <1>0, <2>1, <3>1, <3>2, PresenceAnnounced DEF PresenceInv
  <2>3. CASE c \notin clients[hub[c]]
    <3>1. UNCHANGED <<clients, told, overflow>>
      BY <1>5, <2>3 DEF LeaveUnregister
    <3> QED BY <1>0, <2>1, <3>1, PresenceFrame DEF PresenceInv
  <2> QED BY <2>2, <2>3
<1>6. ASSUME NEW h \in Client, HubQuit(h) PROVE PresenceInv'
  <2>1. clients' = [clients EXCEPT ![h] = @ \ clients[h]] /\ UNCHANGED <<hub, at, told, overflow>>
    BY <1>6 DEF HubQuit, Drop
  <2>2. \A k \in Client : clients'[k] = IF k = h THEN clients[k] \ clients[h] ELSE clients[k]
    BY <2>1, ZenonT(60) DEF TypeOK
  <2>3. \A c \in Client : overflow'[c] <=> overflow[c]
    BY <2>1
  <2> QED BY <1>0, <2>1, <2>2, <2>3, PresenceDropped DEF PresenceInv
<1>7. ASSUME NEW h \in Client, Broadcast(h) PROVE PresenceInv'
  <2> DEFINE slow == {c \in clients[h] : Full(c)}
  <2>1. /\ \A k \in Client : clients'[k] = IF k = h THEN clients[k] \ slow ELSE clients[k]
        /\ \A c \in Client : overflow'[c] <=> overflow[c] \/ c \in slow
        /\ UNCHANGED <<hub, at, told>>
    BY <1>7, ZenonT(60) DEF Broadcast, Deliver, Drop, TypeOK
  <2>2. slow \in SUBSET clients[h] /\ slow \subseteq Client
    BY DEF TypeOK
  <2> HIDE DEF slow
  <2> QED BY <1>0, <2>1, <2>2, PresenceDropped DEF PresenceInv
<1>8. ASSUME NEW h \in Client, HubStart(h) \/ Subscribed(h) \/ ListenTake(h) \/ ListenQuit(h)
      PROVE  PresenceInv'
  BY <1>1, <1>8 DEF HubStart, Subscribed, ListenTake, ListenQuit
<1>9. ASSUME NEW c \in Client,
             ReadEvent(c) \/ WriteDone(c) \/ WriteMessage(c) \/ WriteFails(c)
               \/ TickFails(c) \/ PeerGone(c)
      PROVE  PresenceInv'
  BY <1>1, <1>9
     DEF ReadEvent, WriteDone, WriteMessage, WriteFails, WriteExit, TickFails, PeerGone
<1>10. CASE UNCHANGED vars
  BY <1>1, <1>10 DEF vars
<1> QED
  BY <1>2, <1>3, <1>4, <1>5, <1>6, <1>7, <1>8, <1>9, <1>10
     DEF Next, HubStep, RegistryStep, ReadStep, WriteStep, Input

(* The newest listener count sent to an attached client is the number of   *)
(* users attached, whatever joins, leaves and drops it follows.            *)
THEOREM PresenceHolds == Spec => []PresenceAccurate
<1>1. Init => PresenceInv
  BY DEF Init, PresenceInv, PresenceAccurate, Untouched
<1>2. Spec => []PresenceInv
  BY <1>1, PresenceStep, TypeCorrect, AttachmentHolds, PTL DEF Spec
<1>3. PresenceInv => PresenceAccurate
  BY DEF PresenceInv
<1> QED BY <1>2, <1>3, PTL

-----------------------------------------------------------------------------

(* Nothing on the way: nothing is skipped, wherever the newest event is.   *)
LEMMA FollowsNothing ==
    ASSUME NEW s, EventsIn(s) = {}, NEW n \in Nat
    PROVE  Follows(s, 0, n)
<1>1. \A i \in DOMAIN s : s[i] = Direct
  BY DEF EventsIn
<1>2. n+1 \in 1..n+1 /\ n+1..n = {}
  OBVIOUS
<1> QED BY <1>1, <1>2 DEF Follows

(* What takes up a slot of the buffer but is no event changes nothing.     *)
LEMMA FollowsDirect ==
    ASSUME NEW s \in Seq(Msg), NEW last, NEW n \in Nat, Follows(s, last, n)
    PROVE  Follows(Append(s, Direct), last, n)
<1> DEFINE q == Append(s, Direct)
<1>1. /\ DOMAIN s = 1..Len(s) /\ Len(s) \in Nat
      /\ DOMAIN q = 1..Len(s)+1
      /\ \A i \in 1..Len(s) : q[i] = s[i]
      /\ q[Len(s)+1] = Direct
  OBVIOUS
<1> HIDE DEF q
<1>2. EventsIn(q) = EventsIn(s)
  BY <1>1 DEF EventsIn
<1>3. \A i, j \in DOMAIN q : i < j /\ q[i] # Direct /\ q[j] # Direct => q[i] < q[j]
  BY <1>1 DEF Follows
<1> QED BY <1>2, <1>3 DEF Follows, q

(* The next event may be queued behind the others.                         *)
LEMMA FollowsNext ==
    ASSUME NEW s \in Seq(Msg), NEW last, NEW n \in Nat, Follows(s, last, n)
    PROVE  Follows(Append(s, n+1), last, n+1)
<1> DEFINE q == Append(s, n+1)
<1>1. /\ DOMAIN s = 1..Len(s) /\ Len(s) \in Nat
      /\ DOMAIN q = 1..Len(s)+1
      /\ \A i \in 1..Len(s) : q[i] = s[i]
      /\ q[Len(s)+1] = n+1
  OBVIOUS
<1>2. PICK first \in 1..n+1 : EventsIn(s) = first..n /\ (last # 0 => first = last + 1)
  BY DEF Follows
<1> HIDE DEF q
<1>3. EventsIn(q) = EventsIn(s) \cup {n+1}
  BY <1>1 DEF EventsIn, Direct
<1>4. EventsIn(q) = first..n+1 /\ first \in 1..(n+1)+1
  BY <1>2, <1>3
<1>5. \A i \in DOMAIN s : s[i] # Direct => s[i] \in first..n
  BY <1>2 DEF EventsIn
<1>6. ASSUME NEW i \in DOMAIN q, NEW j \in DOMAIN q, i < j, q[i] # Direct, q[j] # Direct
      PROVE  q[i] < q[j]
  BY <1>1, <1>2, <1>5, <1>6 DEF Follows
<1> QED BY <1>2, <1>4, <1>6 DEF Follows, q

(* The peer receives the head of the buffer.                               *)
LEMMA FollowsTail ==
    ASSUME NEW s \in Seq(Msg), s # <<>>, NEW last, NEW n \in Nat, Follows(s, last, n)
    PROVE  Follows(Tail(s), IF Head(s) # Direct THEN Head(s) ELSE last, n)
<1> DEFINE q == Tail(s)
<1>1. /\ DOMAIN s = 1..Len(s) /\ Len(s) \in Nat \ {0} /\ 1 \in DOMAIN s /\ Head(s) = s[1]
      /\ DOMAIN q = 1..Len(s)-1
      /\ \A i \in 1..Len(s)-1 : q[i] = s[i+1]
      /\ \A i \in DOMAIN s : s[i] \in Nat
  BY DEF Msg
<1>2. PICK first \in 1..n+1 : EventsIn(s) = first..n /\ (last # 0 => first = last + 1)
  BY DEF Follows
<1> HIDE DEF q
<1>3. EventsIn(s) = EventsIn(q) \cup ({s[1]} \ {Direct})
  <2>1. \A i \in DOMAIN s : i = 1 \/ (i - 1 \in DOMAIN q /\ q[i-1] = s[i])
    BY <1>1
  <2>2. \A i \in DOMAIN q : i + 1 \in DOMAIN s /\ q[i] = s[i+1]
    BY <1>1
  <2> QED BY <1>1, <2>1, <2>2, SMTT(30) DEF EventsIn
<1>4. ASSUME NEW i \in DOMAIN q, NEW j \in DOMAIN q, i < j, q[i] # Direct, q[j] # Direct
      PROVE  q[i] < q[j]
  <2>1. i + 1 \in DOMAIN s /\ j + 1 \in DOMAIN s /\ i + 1 < j + 1 /\ q[i] = s[i+1] /\ q[j] = s[j+1]
    BY <1>1, <1>4
  <2> QED BY <1>4, <2>1 DEF Follows
<1>5. CASE Head(s) = Direct
  BY <1>1, <1>2, <1>3, <1>4, <1>5 DEF Follows, q
<1>6. CASE Head(s) # Direct
  <2>1. s[1] \in first..n
    BY <1>1, <1>2, <1>6 DEF EventsIn
  <2>2. \A e \in EventsIn(q) : s[1] < e
    <3>1. \A i \in DOMAIN q : i + 1 \in DOMAIN s /\ 1 < i + 1 /\ q[i] = s[i+1]
      BY <1>1
    <3> QED BY <1>1, <1>6, <3>1 DEF EventsIn, Follows
  <2>3. EventsIn(q) \cup {s[1]} = first..n
    BY <1>1, <1>2, <1>3, <1>6
  <2>4. s[1] = first
    <3>1. first \in first..n
      BY <2>1
    <3>2. first \in EventsIn(q) => s[1] < first
      BY <2>2
    <3> QED BY <2>1, <2>3, <3>1, <3>2
  <2>5. EventsIn(q) = s[1]+1..n
    <3>1. \A e : e \in EventsIn(q) <=> e \in first..n /\ e # s[1]
      BY <2>2, <2>3, <2>1
    <3>2. EventsIn(q) \subseteq s[1]+1..n
      BY <3>1, <2>2, <2>1
    <3>3. s[1]+1..n \subseteq EventsIn(q)
      BY <3>1, <2>4
    <3> QED BY <3>2, <3>3
  <2>6. s[1]+1 \in 1..n+1
    BY <2>1, <1>2
  <2> QED BY <1>1, <1>4, <1>6, <2>5, <2>6 DEF Follows, q
<1> QED BY <1>5, <1>6

(* Events that continue a sequence may be put behind it.                   *)
LEMMA FollowsThrough ==
    ASSUME NEW s \in Seq(Msg), NEW last, NEW n \in Nat, Follows(s, last, n),
           NEW t \in Seq(Event), \A i \in 1..Len(t) : t[i] = n + i
    PROVE  Follows(s \o t, last, n + Len(t)) /\ s \o t \in Seq(Msg)
<1> DEFINE q == s \o t
           a == Len(s)
           b == Len(t)
<1>1. t \in Seq(Msg)
  BY DEF Event, Msg
<1>2. /\ a \in Nat /\ b \in Nat /\ DOMAIN s = 1..a /\ DOMAIN t = 1..b
      /\ q \in Seq(Msg) /\ DOMAIN q = 1..a+b
      /\ \A i \in 1..a+b : q[i] = IF i <= a THEN s[i] ELSE t[i-a]
  BY <1>1, LenProperties, ConcatProperties
<1>3. PICK first \in 1..n+1 : EventsIn(s) = first..n /\ (last # 0 => first = last + 1)
  BY DEF Follows
<1> HIDE DEF q, a, b
<1>4. \A i \in 1..a : q[i] = s[i]
  BY <1>2
<1>5. \A i \in 1..b : a + i \in 1..a+b /\ q[a+i] = n + i
  <2>1. \A i \in 1..b : a + i \in 1..a+b /\ ~(a + i <= a) /\ (a + i) - a = i
    BY <1>2
  <2>2. \A i \in 1..b : q[a+i] = t[i]
    BY <1>2, <2>1
  <2> QED BY <2>1, <2>2 DEF b
<1>6. \A i \in 1..a+b : i \in 1..a \/ (i - a \in 1..b /\ q[i] = n + (i - a))
  <2>1. \A i \in 1..a+b : i \notin 1..a => i - a \in 1..b /\ i = a + (i - a)
    BY <1>2
  <2> QED BY <1>5, <2>1
<1>7. EventsIn(q) = first..n+b
  <2>1. ASSUME NEW e \in EventsIn(q) PROVE e \in first..n+b
    <3>1. PICK i \in 1..a+b : e = q[i] /\ e # Direct
      BY <1>2, <2>1 DEF EventsIn
    <3>2. CASE i \in 1..a
      <4>1. e \in EventsIn(s)
        BY <1>2, <1>4, <3>1, <3>2 DEF EventsIn
      <4> QED BY <1>2, <1>3, <4>1
    <3>3. CASE i - a \in 1..b /\ q[i] = n + (i - a)
      BY <1>2, <1>3, <3>1, <3>3
    <3> QED BY <1>6, <3>2, <3>3
  <2>2. ASSUME NEW e \in first..n+b PROVE e \in EventsIn(q)
    <3>1. CASE e <= n
      <4>1. e \in EventsIn(s)
        BY <1>3, <3>1
      <4>2. PICK i \in 1..a : e = s[i] /\ e # Direct
        BY <1>2, <4>1 DEF EventsIn
      <4>3. i \in DOMAIN q /\ q[i] = e
        BY <1>2, <1>4, <4>2
      <4> QED BY <4>2, <4>3 DEF EventsIn
    <3>2. CASE e > n
      <4>1. e - n \in 1..b /\ e = n + (e - n) /\ e # Direct
        BY <1>2, <1>3, <3>2 DEF Direct
      <4>2. a + (e - n) \in DOMAIN q /\ q[a + (e - n)] = e
        BY <1>2, <1>5, <4>1
      <4> QED BY <4>1, <4>2 DEF EventsIn
    <3> QED BY <3>1, <3>2
  <2> QED BY <2>1, <2>2
<1>8. ASSUME NEW i \in DOMAIN q, NEW j \in DOMAIN q, i < j, q[i] # Direct, q[j] # Direct
      PROVE  q[i] < q[j]
  <2>0. \A k \in 1..a : s[k] # Direct => s[k] \in first..n
    BY <1>2, <1>3 DEF EventsIn
  <2>1. CASE j \in 1..a
    <3>1. i \in 1..a
      BY <1>2, <1>8, <2>1
    <3> QED BY <1>2, <1>4, <1>8, <2>1, <3>1 DEF Follows
  <2>2. CASE j - a \in 1..b /\ q[j] = n + (j - a)
    <3>1. CASE i \in 1..a
      BY <1>2, <1>3, <1>4, <1>8, <2>0, <2>2, <3>1
    <3>2. CASE i - a \in 1..b /\ q[i] = n + (i - a)
      BY <1>2, <1>8, <2>2, <3>2
    <3> QED BY <1>2, <1>6, <3>1, <3>2
  <2> QED BY <1>2, <1>6, <2>1, <2>2
<1>9. first \in 1..(n+b)+1
  BY <1>2, <1>3
<1> QED BY <1>2, <1>3, <1>7, <1>8, <1>9 DEF Follows, q, b

-----------------------------------------------------------------------------

(* The last event that a hub has broadcast, as long as it hears of all.    *)
Sent(h) == published - Len(held[h]) - Len(pubSub[h])

(* What a hub has yet to broadcast is in line, up to the newest event.     *)
InLine(h) ==
    /\ Sent(h) \in Nat
    /\ held[h] # <<>> => held[h][1] = published - Len(pubSub[h])
    /\ \A i \in 1..Len(pubSub[h]) : pubSub[h][i] = published - Len(pubSub[h]) + i

(* A client that has not heard of any event.                               *)
Unaware(c) == EventsIn(send[c]) = {} /\ seen[c] = 0

HubLine(h) ==
    /\ run[h] = "running" /\ listener[h] # "exited" => InLine(h)
    /\ run[h] \in {"none", "starting"} <=> listener[h] = "none"
    /\ listener[h] # "running" => held[h] = <<>>
    /\ listener[h] \in {"none", "subscribing"} => pubSub[h] = <<>>
    /\ listener[h] = "subscribing" => \A c \in clients[h] : Unaware(c)
    /\ listener[h] = "exited" => quit[h]
    /\ clients[h] # {} => run[h] = "running"

Served(c) == at[c] \in Reading /\ c \in clients[hub[c]]

(* The buffer of a client that its hub serves is as far as the hub.        *)
ClientLine(c) ==
    /\ at[c] \in {"idle", "joining"} => send[c] = <<>> /\ seen[c] = 0
    /\ conn[c] = "up" => at[c] \in Attaching \cup Reading
    /\ conn[c] = "up" =>
         /\ \E newest \in 0..published : Follows(send[c], seen[c], newest)
         /\ Served(c) => Follows(send[c], seen[c], Sent(hub[c]))

Lines == \A c \in Client : HubLine(c) /\ ClientLine(c)

(* A hub that serves a client hears of every event, or will of the first.  *)
LEMMA ServedInLine ==
    ASSUME TypeOK, Ledger, Lines, NEW c \in Client, Served(c)
    PROVE  /\ hub[c] \in Client /\ ~quit[hub[c]] /\ run[hub[c]] = "running"
           /\ listener[hub[c]] \in {"subscribing", "running"} /\ InLine(hub[c])
<1>1. hub[c] \in Client /\ c \in Holders(hub[c])
  BY DEF TypeOK, Served, Holders, Holds, Reading
<1>2. run[hub[c]] = "running"
  BY <1>1 DEF Lines, HubLine, Served
<1>3. ~quit[hub[c]]
  BY <1>1, <1>2 DEF Ledger, RefsAreHolders
<1> QED BY <1>1, <1>2, <1>3 DEF Lines, HubLine, TypeOK

(* Nothing of the buffer but slots changes.                                *)
SlotsOnly(c) == send'[c] \in {send[c], Append(send[c], Direct)}

LEMMA SlotsKeep ==
    ASSUME TypeOK, NEW c \in Client, SlotsOnly(c)
    PROVE  /\ EventsIn(send'[c]) = EventsIn(send[c])
           /\ \A last : \A n \in Nat : Follows(send[c], last, n) => Follows(send'[c], last, n)
<1>1. send[c] \in Seq(Msg)
  BY DEF TypeOK
<1>2. EventsIn(Append(send[c], Direct)) = EventsIn(send[c])
  <2> DEFINE q == Append(send[c], Direct)
  <2>1. /\ DOMAIN send[c] = 1..Len(send[c]) /\ Len(send[c]) \in Nat
        /\ DOMAIN q = 1..Len(send[c])+1
        /\ \A i \in 1..Len(send[c]) : q[i] = send[c][i]
        /\ q[Len(send[c])+1] = Direct
    BY <1>1
  <2> HIDE DEF q
  <2> QED BY <2>1 DEF EventsIn, q
<1> QED BY <1>1, <1>2, FollowsDirect DEF SlotsOnly

(* What a step must respect to keep a client in line without an event.     *)
LEMMA ClientFrame ==
    ASSUME TypeOK, Lines, NEW c \in Client, SlotsOnly(c), UNCHANGED <<seen, published>>,
           conn'[c] = "up" => conn[c] = "up" /\ at'[c] \in Attaching \cup Reading,
           at'[c] \in {"idle", "joining"} => at[c] \in {"idle", "joining"} /\ send'[c] = send[c],
           Served(c)' => Served(c) /\ hub'[c] = hub[c] /\ Sent(hub[c])' = Sent(hub[c])
                         /\ Sent(hub[c]) \in Nat
    PROVE  ClientLine(c)'
<1>1. ClientLine(c)
  BY DEF Lines
<1>2. published \in Nat /\ \A n \in 0..published : n \in Nat
  BY DEF TypeOK
<1>3. ASSUME conn'[c] = "up"
      PROVE  \E newest \in 0..published : Follows(send'[c], seen[c], newest)
  <2>1. PICK newest \in 0..published : Follows(send[c], seen[c], newest)
    BY <1>1, <1>3 DEF ClientLine
  <2> QED BY <1>2, <2>1, SlotsKeep
<1>4. ASSUME conn'[c] = "up", Served(c)'
      PROVE  Follows(send[c], seen[c], Sent(hub[c]))'
  <2>1. Follows(send[c], seen[c], Sent(hub[c])) /\ Sent(hub[c]) \in Nat
    BY <1>1, <1>4 DEF ClientLine
  <2>2. Follows(send'[c], seen[c], Sent(hub[c]))
    BY <2>1, SlotsKeep
  <2> QED BY <1>4, <2>2
<1>5. at'[c] \in {"idle", "joining"} => send'[c] = <<>> /\ seen'[c] = 0
  BY <1>1 DEF ClientLine
<1> QED BY <1>3, <1>4, <1>5 DEF ClientLine

(* ... and to keep a hub in line.                                          *)
LEMMA HubFrame ==
    ASSUME Lines, NEW h \in Client,
           published' = published, listener'[h] = listener[h],
           held'[h] = held[h], pubSub'[h] = pubSub[h],
           run'[h] = "running" <=> run[h] = "running",
           run'[h] \in {"none", "starting"} <=> run[h] \in {"none", "starting"},
           quit[h] => quit'[h],
           clients'[h] # {} => run[h] = "running",
           listener[h] = "subscribing" => \A c \in clients'[h] : Unaware(c)'
    PROVE  HubLine(h)'
<1>1. HubLine(h)
  BY DEF Lines
<1>2. InLine(h)' <=> InLine(h)
  BY DEF InLine, Sent
<1> QED BY <1>1, <1>2 DEF HubLine

(* The clients of a hub are its own; each is a client of one hub.          *)
LEMMA OwnClients ==
    ASSUME TypeOK, Attachment, NEW h \in Client, NEW c \in clients[h]
    PROVE  c \in Client /\ hub[c] = h /\ at[c] \notin {"idle", "joining"}
BY DEF TypeOK, Attachment, AttachedOnce

(* A step of a connection that does not touch what hubs hold, nor buffers  *)
(* but for slots.                                                          *)
LEMMA ConnectionKeepsLines ==
    ASSUME TypeOK, Ledger, Attachment, Lines,
           UNCHANGED <<hub, run, clients, listener, held, pubSub, published, seen>>,
           \A h \in Client : quit[h] => quit'[h],
           \A c \in Client : /\ SlotsOnly(c)
                             /\ conn'[c] = "up" => conn[c] = "up" /\ at'[c] \in Attaching \cup Reading
                             /\ at'[c] \in {"idle", "joining"} =>
                                  at[c] \in {"idle", "joining"} /\ send'[c] = send[c]
                             /\ at'[c] \in Reading => at[c] \in Reading
    PROVE  Lines'
<1>1. ASSUME NEW h \in Client PROVE HubLine(h)'
  <2>1. \A c \in clients[h] : EventsIn(send'[c]) = EventsIn(send[c])
    BY OwnClients, SlotsKeep
  <2>2. listener[h] = "subscribing" => \A c \in clients'[h] : Unaware(c)'
    BY <2>1 DEF Lines, HubLine, Unaware
  <2>3. clients'[h] # {} => run[h] = "running"
    BY DEF Lines, HubLine
  <2> QED BY <2>2, <2>3, HubFrame
<1>2. ASSUME NEW c \in Client PROVE ClientLine(c)'
  <2>1. Served(c)' => Served(c) /\ hub'[c] = hub[c] /\ Sent(hub[c])' = Sent(hub[c])
                      /\ Sent(hub[c]) \in Nat
    BY ServedInLine DEF Served, Sent, InLine
  <2> QED BY <2>1, ClientFrame
<1> QED BY <1>1, <1>2 DEF Lines

(* An event is published: it is the newest for every hub that hears of it, *)
(* and of no concern to the others.                                        *)
LEMMA PublishKeepsLines ==
    ASSUME TypeOK, TypeOK', Ledger, Attachment, Lines, Publish,
           UNCHANGED <<hubs, refs, quit, run, clients, listener, held, clientVars,
                       seen, told, overflow, panic>>
    PROVE  Lines'
<1> USE DEF clientVars
<1>1. /\ published \in Nat /\ published' = published + 1
      /\ \A h \in Client : pubSub[h] \in Seq(Event) /\ Len(pubSub[h]) \in Nat /\ Len(held[h]) \in Nat
      /\ \A h \in Client : pubSub'[h] = IF h \in Subscribers THEN Append(pubSub[h], published + 1)
                                                            ELSE pubSub[h]
  BY DEF Publish, TypeOK
<1>2. ASSUME NEW h \in Client, run[h] = "running", listener[h] = "running"
      PROVE  InLine(h)' /\ Sent(h)' = Sent(h)
  <2>1. InLine(h)
    BY <1>2 DEF Lines, HubLine
  <2> DEFINE q == Append(pubSub[h], published + 1)
  <2>2. pubSub'[h] = q
    BY <1>1, <1>2 DEF Subscribers
  <2>3. /\ Len(q) = Len(pubSub[h]) + 1
        /\ \A i \in 1..Len(pubSub[h]) : q[i] = pubSub[h][i]
        /\ q[Len(pubSub[h]) + 1] = published + 1
    BY <1>1
  <2> HIDE DEF q
  <2>4. ASSUME NEW i \in 1..Len(q) PROVE q[i] = published + 1 - Len(q) + i
    <3>1. Len(pubSub[h]) \in Nat
      BY <1>1
    <3>2. CASE i \in 1..Len(pubSub[h])
      <4>1. pubSub[h][i] = published - Len(pubSub[h]) + i
        BY <2>1, <3>2 DEF InLine
      <4>2. q[i] = pubSub[h][i]
        BY <2>3, <3>2
      <4>3. published + 1 - Len(q) = published - Len(pubSub[h])
        BY <1>1, <2>3
      <4> QED BY <4>1, <4>2, <4>3
    <3>3. CASE i = Len(pubSub[h]) + 1
      BY <1>1, <2>3, <3>1, <3>3
    <3> QED BY <2>3, <2>4, <3>1, <3>2, <3>3
  <2>5. published' - Len(pubSub'[h]) = published - Len(pubSub[h])
    BY <1>1, <2>2, <2>3
  <2>6. Sent(h)' = Sent(h)
    BY <1>1, <2>2, <2>3 DEF Sent
  <2>7. Sent(h)' \in Nat /\ (held'[h] # <<>> => held'[h][1] = published' - Len(pubSub'[h]))
    BY <1>1, <2>1, <2>5, <2>6 DEF InLine
  <2>8. \A i \in 1..Len(pubSub'[h]) : pubSub'[h][i] = published' - Len(pubSub'[h]) + i
    BY <1>1, <2>2, <2>4
  <2> QED BY <2>6, <2>7, <2>8 DEF InLine
<1>3. ASSUME NEW h \in Client, listener[h] \in {"none", "subscribing"}
      PROVE  pubSub'[h] = <<>> /\ held'[h] = <<>>
  <2>1. listener[h] = "none" => run[h] # "running"
    BY DEF Lines, HubLine
  <2> QED BY <1>1, <1>3, <2>1 DEF Lines, HubLine, Subscribers
<1>4. ASSUME NEW h \in Client PROVE HubLine(h)'
  <2>1. HubLine(h)
    BY DEF Lines
  <2>2. run[h] = "running" /\ listener[h] # "exited" => InLine(h)'
    <3>1. CASE listener[h] = "running"
      BY <1>2, <3>1
    <3>2. CASE listener[h] \in {"none", "subscribing"}
      <4>1. pubSub'[h] = <<>> /\ held'[h] = <<>> /\ Len(<<>>) = 0
        BY <1>3, <3>2
      <4> QED BY <1>1, <4>1 DEF InLine, Sent
    <3> QED BY <3>1, <3>2 DEF TypeOK
  <2>3. \A c \in clients[h] : Unaware(c)' <=> Unaware(c)
    BY DEF Unaware
  <2> QED BY <1>3, <2>1, <2>2, <2>3 DEF HubLine
<1>5. ASSUME NEW c \in Client PROVE ClientLine(c)'
  <2>1. ClientLine(c)
    BY DEF Lines
  <2>2. conn[c] = "up" => \E newest \in 0..published' : Follows(send[c], seen[c], newest)
    BY <1>1, <2>1 DEF ClientLine
  <2>3. ASSUME conn[c] = "up", Served(c)
        PROVE  Follows(send[c], seen[c], Sent(hub[c])')
    <3>1. /\ hub[c] \in Client /\ run[hub[c]] = "running"
          /\ listener[hub[c]] \in {"subscribing", "running"}
      BY <2>3, ServedInLine
    <3>2. CASE listener[hub[c]] = "running"
      <4>1. Sent(hub[c])' = Sent(hub[c])
        BY <1>2, <3>1, <3>2 DEF Sent
      <4> QED BY <2>1, <2>3, <4>1 DEF ClientLine
    <3>3. CASE listener[hub[c]] = "subscribing"
      <4>1. Unaware(c)
        BY <2>3, <3>1, <3>3 DEF Lines, HubLine, Served
      <4>2. pubSub'[hub[c]] = <<>> /\ held'[hub[c]] = <<>> /\ Len(<<>>) = 0
        BY <1>3, <3>1, <3>3
      <4>3. Sent(hub[c])' \in Nat
        BY <1>1, <4>2 DEF Sent
      <4> QED BY <4>1, <4>3, FollowsNothing DEF Unaware
    <3> QED BY <3>1, <3>2, <3>3
  <2> QED BY <2>1, <2>2, <2>3 DEF ClientLine, Served
<1> QED BY <1>4, <1>5 DEF Lines

(* A client that registers, or leaves, costs the others a slot at most.    *)
LEMMA PresenceKeepsLines ==
    ASSUME TypeOK, TypeOK', Ledger, Attachment, Attachment', Lines,
           NEW c \in Client, JoinRegister(c) \/ LeaveUnregister(c)
    PROVE  Lines'
<1>1. /\ hub[c] \in Client /\ run[hub[c]] = "running" /\ at[c] \in {"joining", "leaving"}
      /\ UNCHANGED <<hub, run, quit, listener, held, pubSub, conn, published, seen>>
      /\ at' = [at EXCEPT ![c] = IF at[c] = "joining" THEN "reading" ELSE "unregistered"]
      /\ \A h \in Client : clients'[h] =
            IF h # hub[c] THEN clients[h]
            ELSE IF at[c] = "joining" THEN clients[h] \cup {c} ELSE clients[h] \ {c}
  <2>1. CASE JoinRegister(c)
    <3>1. hub[c] \in Client
      BY <2>1 DEF JoinRegister, TypeOK
    <3>2. \A h \in Client : clients'[h] =
             IF h # hub[c] THEN clients[h] ELSE clients[h] \cup {c}
      <4>1. clients' = [clients EXCEPT ![hub[c]] = @ \cup {c}]
        BY <2>1 DEF JoinRegister
      <4> QED BY <3>1, <4>1, ZenonT(60) DEF TypeOK
    <3> QED BY <2>1, <3>1, <3>2 DEF JoinRegister
  <2>2. CASE LeaveUnregister(c)
    <3>1. hub[c] \in Client
      BY <2>2 DEF LeaveUnregister, TypeOK
    <3>2. \A h \in Client : clients'[h] =
             IF h # hub[c] THEN clients[h] ELSE clients[h] \ {c}
      <4>1. CASE c \in clients[hub[c]]
        <5>1. clients' = [clients EXCEPT ![hub[c]] = @ \ {c}]
          BY <2>2, <4>1 DEF LeaveUnregister, Drop
        <5> QED BY <3>1, <5>1, ZenonT(60) DEF TypeOK
      <4>2. CASE c \notin clients[hub[c]]
        BY <2>2, <3>1, <4>2 DEF LeaveUnregister, TypeOK
      <4> QED BY <4>1, <4>2
    <3> QED BY <2>2, <3>1, <3>2 DEF LeaveUnregister
  <2> QED BY <2>1, <2>2
<1>2. \A d \in Client : SlotsOnly(d) /\ (d \notin clients'[hub[c]] => send'[d] = send[d])
  <2>1. Presence(clients'[hub[c]]) \/ UNCHANGED send
    <3>1. CASE JoinRegister(c)
      BY <1>1, <3>1 DEF JoinRegister, TypeOK
    <3>2. CASE LeaveUnregister(c)
      <4>1. at[c] = "leaving" /\ clients'[hub[c]] = clients[hub[c]] \ {c}
        BY <1>1, <3>2 DEF LeaveUnregister
      <4> QED BY <3>2, <4>1 DEF LeaveUnregister
    <3> QED BY <3>1, <3>2
  <2> QED BY <2>1 DEF Presence, SlotsOnly
<1>3. ASSUME NEW h \in Client PROVE HubLine(h)'
  <2>1. ASSUME listener[h] = "subscribing", NEW d \in clients'[h]
        PROVE  Unaware(d)'
    <3>1. CASE d = c
      <4>1. at[c] = "joining"
        BY <1>1, <2>1, <3>1 DEF Attachment, AttachedOnce, TypeOK
      <4>2. send[c] = <<>> /\ seen[c] = 0
        BY <4>1 DEF Lines, ClientLine
      <4>3. EventsIn(send'[c]) = EventsIn(send[c])
        BY <1>2, SlotsKeep
      <4>4. EventsIn(<<>>) = {}
        BY DEF EventsIn
      <4> QED BY <1>1, <3>1, <4>2, <4>3, <4>4 DEF Unaware
    <3>2. CASE d # c
      <4>1. d \in clients[h] /\ d \in Client
        <5>1. d \in clients[h] \cup {c}
          BY <1>1, <2>1
        <5> QED BY <3>2, <5>1 DEF TypeOK
      <4>2. EventsIn(send'[d]) = EventsIn(send[d])
        BY <1>2, <4>1, SlotsKeep
      <4> QED BY <1>1, <2>1, <4>1, <4>2 DEF Unaware, Lines, HubLine
    <3> QED BY <3>1, <3>2
  <2>2. clients'[h] # {} => run[h] = "running"
    BY <1>1 DEF Lines, HubLine
  <2> QED BY <1>1, <2>1, <2>2, HubFrame
<1>4. ASSUME NEW d \in Client PROVE ClientLine(d)'
  <2>1. CASE d # c \/ at[c] = "leaving"
    <3>1. at'[d] \in {"idle", "joining"} => at[d] \in {"idle", "joining"} /\ send'[d] = send[d]
      <4>1. at'[d] \in {"idle", "joining"} => d \notin clients'[hub[c]]
        BY <1>1 DEF Attachment, AttachedOnce
      <4> QED BY <1>1, <1>2, <2>1, <4>1 DEF TypeOK
    <3>2. Served(d)' => Served(d) /\ d # c
      <4>1. d = c => at'[c] = "unregistered"
        BY <1>1, <2>1 DEF TypeOK
      <4>2. d # c => at'[d] = at[d]
        BY <1>1 DEF TypeOK
      <4>3. at[d] \in Reading => hub[d] \in Client
        BY DEF TypeOK, Reading
      <4>4. ASSUME NEW h \in Client, d # c, d \in clients'[h] PROVE d \in clients[h]
        <5>1. clients'[h] \subseteq clients[h] \cup {c}
          BY <1>1
        <5> QED BY <4>4, <5>1
      <4> QED BY <1>1, <4>1, <4>2, <4>3, <4>4 DEF Served, Reading
    <3>3. Served(d) => Sent(hub[d])' = Sent(hub[d]) /\ Sent(hub[d]) \in Nat
      BY <1>1, ServedInLine DEF Sent, InLine
    <3>4. conn[d] = "up" => at'[d] \in Attaching \cup Reading
      <4>1. conn[d] = "up" => at[d] \in Attaching \cup Reading
        BY DEF Lines, ClientLine
      <4>2. d # c => at'[d] = at[d]
        BY <1>1 DEF TypeOK
      <4>3. at[c] = "leaving" => at[c] \notin Attaching \cup Reading
        BY DEF Attaching, Reading
      <4> QED BY <2>1, <4>1, <4>2, <4>3
    <3> QED BY <1>1, <1>2, <3>1, <3>2, <3>3, <3>4, ClientFrame
  <2>2. CASE d = c /\ at[c] = "joining"
    <3>1. send[c] = <<>> /\ seen[c] = 0
      BY <2>2 DEF Lines, ClientLine
    <3>2. EventsIn(send'[c]) = {}
      <4>1. EventsIn(<<>>) = {}
        BY DEF EventsIn
      <4> QED BY <1>2, <3>1, <4>1, SlotsKeep
    <3>3. \A n \in Nat : Follows(send'[c], 0, n)
      BY <3>2, FollowsNothing
    <3>4. published \in Nat /\ published \in 0..published
      BY DEF TypeOK
    <3>5. Sent(hub[c])' \in Nat
      <4>1. InLine(hub[c]) \/ listener[hub[c]] = "exited"
        BY <1>1 DEF Lines, HubLine
      <4>2. listener[hub[c]] # "exited"
        <5>1. c \in Holders(hub[c])
          BY <2>2 DEF Holders, Holds, Attaching
        <5> QED BY <1>1, <5>1 DEF Ledger, RefsAreHolders, Lines, HubLine
      <4> QED BY <1>1, <4>1, <4>2 DEF InLine, Sent
    <3>6. at'[c] = "reading"
      BY <1>1, <2>2 DEF TypeOK
    <3> QED BY <1>1, <2>2, <3>1, <3>3, <3>4, <3>5, <3>6 DEF ClientLine, Reading
  <2> QED BY <1>1, <2>1, <2>2
<1> QED BY <1>3, <1>4 DEF Lines

(* A connection that joins has received nothing.                           *)
LEMMA JoinKeepsLines ==
    ASSUME TypeOK, TypeOK', Ledger, Attachment, Lines, NEW c \in Client, JoinLock(c)
    PROVE  Lines'
<1>1. PICK k \in Client :
      /\ k = c \/ k = hubs
      /\ hub' = [hub EXCEPT ![c] = k]
      /\ at[c] = "idle" /\ at' = [at EXCEPT ![c] = "joining"]
      /\ run' = [run EXCEPT ![k] = IF hubs = NoHub THEN "starting" ELSE @]
      /\ hubs = NoHub => k = c
      /\ UNCHANGED <<quit, clients, listener, held, pubSub, send, published, seen>>
      /\ conn' = [conn EXCEPT ![c] = "up"]
  BY DEF JoinLock, TypeOK, history
<1>2. run[c] = "none"
  BY <1>1 DEF Ledger, Lifecycle
<1>3. \A h \in Client : /\ run'[h] = "running" <=> run[h] = "running"
                        /\ run'[h] \in {"none", "starting"} <=> run[h] \in {"none", "starting"}
  <2>1. CASE hubs = NoHub
    <3>1. run' = [run EXCEPT ![c] = "starting"] /\ run \in [Client -> {"none", "starting", "running", "stopped"}]
      BY <1>1, <2>1 DEF TypeOK
    <3> QED BY <1>2, <3>1
  <2>2. CASE hubs # NoHub
    <3>1. run' = run
      BY <1>1, <2>2 DEF TypeOK
    <3> QED BY <3>1
  <2> QED BY <2>1, <2>2
<1>4. ASSUME NEW h \in Client PROVE HubLine(h)'
  <2>1. listener[h] = "subscribing" => \A d \in clients'[h] : Unaware(d)'
    BY <1>1 DEF Lines, HubLine, Unaware
  <2>2. clients'[h] # {} => run[h] = "running"
    BY <1>1 DEF Lines, HubLine
  <2> QED BY <1>1, <1>3, <2>1, <2>2, HubFrame
<1>5. ASSUME NEW d \in Client \ {c} PROVE ClientLine(d)'
  <2>1. at'[d] = at[d] /\ conn'[d] = conn[d] /\ hub'[d] = hub[d]
    BY <1>1 DEF TypeOK
  <2>2. conn[d] = "up" => at[d] \in Attaching \cup Reading
    BY DEF Lines, ClientLine
  <2>3. Served(d)' => Served(d) /\ Sent(hub[d])' = Sent(hub[d]) /\ Sent(hub[d]) \in Nat
    BY <1>1, <2>1, ServedInLine DEF Served, Sent, InLine
  <2> QED BY <1>1, <2>1, <2>2, <2>3, ClientFrame DEF SlotsOnly
<1>6. ClientLine(c)'
  <2>1. send'[c] = <<>> /\ seen'[c] = 0
    BY <1>1 DEF Lines, ClientLine
  <2>2. 0 \in 0..published' /\ EventsIn(<<>>) = {}
    BY <1>1 DEF EventsIn, TypeOK
  <2>3. \E newest \in 0..published' : Follows(send'[c], seen'[c], newest)
    BY <2>1, <2>2, FollowsNothing
  <2>4. at'[c] \in Attaching /\ ~Served(c)'
    BY <1>1 DEF TypeOK, Attaching, Reading, Served
  <2> QED BY <2>1, <2>3, <2>4 DEF ClientLine
<1> QED BY <1>4, <1>5, <1>6 DEF Lines

(* What a step of a hub must respect to keep all clients in line, when it  *)
(* does not broadcast.                                                     *)
LEMMA QuietHub ==
    ASSUME TypeOK, Ledger, Lines,
           UNCHANGED <<hub, at, send, conn, published, seen>>,
           \A c \in Client : Served(c)' => Served(c) /\ Sent(hub[c])' = Sent(hub[c])
    PROVE  \A c \in Client : ClientLine(c)'
<1> SUFFICES ASSUME NEW c \in Client PROVE ClientLine(c)'
  OBVIOUS
<1>1. conn[c] = "up" => at[c] \in Attaching \cup Reading
  BY DEF Lines, ClientLine
<1>2. Served(c)' => Served(c) /\ Sent(hub[c])' = Sent(hub[c]) /\ Sent(hub[c]) \in Nat
  BY ServedInLine DEF InLine
<1> QED BY <1>1, <1>2, ClientFrame DEF SlotsOnly

(* A hub starts with nothing to broadcast and nobody to serve.             *)
LEMMA StartKeepsLines ==
    ASSUME TypeOK, Ledger, Attachment, Lines, NEW h \in Client,
           HubStart(h) \/ Subscribed(h)
    PROVE  Lines'
<1>1. /\ UNCHANGED <<hub, at, send, conn, published, seen, quit, clients, held, pubSub>>
      /\ \A k \in Client \ {h} : run'[k] = run[k] /\ listener'[k] = listener[k]
      /\ \/ run[h] = "starting" /\ run'[h] = "running" /\ listener'[h] = "subscribing"
         \/ run'[h] = run[h] /\ listener[h] = "subscribing" /\ listener'[h] = "running"
  <2>1. CASE HubStart(h)
    BY <2>1 DEF HubStart, clientVars, history, TypeOK
  <2>2. CASE Subscribed(h)
    BY <2>2 DEF Subscribed, clientVars, history, TypeOK
  <2> QED BY <2>1, <2>2
<1>2. \A k \in Client : (Sent(k)' = Sent(k)) /\ (InLine(k)' <=> InLine(k))
  BY <1>1 DEF Sent, InLine
<1>3. \A c \in Client : Unaware(c)' <=> Unaware(c)
  BY <1>1 DEF Unaware
<1>4. HubLine(h)'
  <2>1. HubLine(h)
    BY DEF Lines
  <2>2. CASE run[h] = "starting" /\ run'[h] = "running" /\ listener'[h] = "subscribing"
    <3>1. held[h] = <<>> /\ pubSub[h] = <<>> /\ Len(<<>>) = 0 /\ published \in Nat
      BY <2>1, <2>2 DEF HubLine, TypeOK
    <3>2. InLine(h)
      BY <3>1 DEF InLine, Sent
    <3> QED BY <1>1, <1>2, <2>1, <2>2, <3>1, <3>2 DEF HubLine
  <2>3. CASE run'[h] = run[h] /\ listener[h] = "subscribing" /\ listener'[h] = "running"
    BY <1>1, <1>2, <2>1, <2>3 DEF HubLine
  <2> QED BY <1>1, <2>2, <2>3
<1>5. ASSUME NEW k \in Client \ {h} PROVE HubLine(k)'
  <2>1. listener[k] = "subscribing" => \A d \in clients'[k] : Unaware(d)'
    BY <1>1 DEF Lines, HubLine, Unaware
  <2>2. clients'[k] # {} => run[k] = "running"
    BY <1>1 DEF Lines, HubLine
  <2> QED BY <1>1, <2>1, <2>2, HubFrame
<1>6. \A c \in Client : Served(c)' => Served(c) /\ Sent(hub[c])' = Sent(hub[c])
  BY <1>1 DEF Served, Sent
<1> QED BY <1>1, <1>4, <1>5, <1>6, QuietHub DEF Lines

(* A hub, or its listener, that stops has nobody left to serve.            *)
LEMMA StopKeepsLines ==
    ASSUME TypeOK, Ledger, Attachment, Lines, NEW h \in Client,
           HubQuit(h) \/ ListenQuit(h)
    PROVE  Lines'
<1>1. /\ UNCHANGED <<hub, at, send, conn, published, seen, quit>> /\ quit[h]
      /\ \A k \in Client \ {h} : /\ run'[k] = run[k] /\ listener'[k] = listener[k]
                                 /\ clients'[k] = clients[k]
                                 /\ held'[k] = held[k] /\ pubSub'[k] = pubSub[k]
      /\ \/ /\ run[h] = "running" /\ run'[h] = "stopped" /\ clients'[h] = {}
            /\ pubSub'[h] = <<>> /\ held'[h] = held[h] /\ listener'[h] = listener[h]
         \/ /\ listener[h] \in {"subscribing", "running"} /\ listener'[h] = "exited"
            /\ held'[h] = <<>> /\ run'[h] = run[h] /\ clients'[h] = clients[h]
            /\ pubSub'[h] = pubSub[h]
  <2>1. CASE HubQuit(h)
    BY <2>1 DEF HubQuit, Drop, history, TypeOK
  <2>2. CASE ListenQuit(h)
    BY <2>2 DEF ListenQuit, clientVars, history, TypeOK
  <2> QED BY <2>1, <2>2
<1>2. HubLine(h)'
  <2>1. HubLine(h)
    BY DEF Lines
  <2> QED BY <1>1, <2>1 DEF HubLine
<1>3. ASSUME NEW k \in Client \ {h} PROVE HubLine(k)'
  <2>1. listener[k] = "subscribing" => \A d \in clients'[k] : Unaware(d)'
    BY <1>1 DEF Lines, HubLine, Unaware
  <2>2. clients'[k] # {} => run[k] = "running"
    BY <1>1 DEF Lines, HubLine
  <2> QED BY <1>1, <2>1, <2>2, HubFrame
<1>4. ASSUME NEW c \in Client, Served(c)'
      PROVE  Served(c) /\ Sent(hub[c])' = Sent(hub[c])
  <2>1. Served(c)
    <3>1. at[c] \in Reading /\ c \in clients'[hub[c]] /\ hub[c] \in Client
      BY <1>1, <1>4 DEF Served, Reading, TypeOK
    <3>2. clients'[hub[c]] \subseteq clients[hub[c]]
      BY <1>1, <3>1
    <3> QED BY <3>1, <3>2 DEF Served
  <2>2. hub[c] \in Client \ {h}
    BY <1>1, <2>1, ServedInLine
  <2> QED BY <1>1, <2>1, <2>2 DEF Sent
<1> QED BY <1>1, <1>2, <1>3, <1>4, QuietHub DEF Lines

(* An event that the listener takes stays in line.                         *)
LEMMA TakeKeepsLines ==
    ASSUME TypeOK, Ledger, Attachment, Lines, NEW h \in Client, ListenTake(h)
    PROVE  Lines'
<1> DEFINE p == pubSub[h]
<1>1. /\ UNCHANGED <<hub, at, send, conn, published, seen, quit, run, clients, listener>>
      /\ listener[h] = "running" /\ held[h] = <<>> /\ p # <<>>
      /\ \A k \in Client \ {h} : held'[k] = held[k] /\ pubSub'[k] = pubSub[k]
      /\ held'[h] = <<Head(p)>> /\ pubSub'[h] = Tail(p)
  BY DEF ListenTake, clientVars, history, TypeOK
<1>2. /\ Len(p) \in Nat /\ Len(Tail(p)) = Len(p) - 1 /\ Head(p) = p[1] /\ 1 \in 1..Len(p)
      /\ \A i \in 1..Len(Tail(p)) : Tail(p)[i] = p[i+1] /\ i + 1 \in 1..Len(p)
      /\ Len(held[h]) = 0 /\ Len(held'[h]) = 1 /\ held'[h][1] = p[1]
      /\ published \in Nat
  <2>1. p \in Seq(Event) /\ p # <<>>
    BY <1>1 DEF TypeOK
  <2>2. Len(<<Head(p)>>) = 1 /\ <<Head(p)>>[1] = Head(p) /\ Len(<<>>) = 0
    OBVIOUS
  <2>3. published \in Nat
    BY DEF TypeOK
  <2> HIDE DEF p
  <2> QED BY <1>1, <2>1, <2>2, <2>3
<1> HIDE DEF p
<1>3. Sent(h)' = Sent(h)
  BY <1>1, <1>2 DEF Sent, p
<1>4. HubLine(h)'
  <2>1. HubLine(h)
    BY DEF Lines
  <2>2. ASSUME InLine(h) PROVE InLine(h)'
    <3>1. \A i \in 1..Len(p) : p[i] = published - Len(p) + i
      BY <2>2 DEF InLine, p
    <3>2. held'[h][1] = published' - Len(pubSub'[h])
      BY <1>1, <1>2, <3>1
    <3>3. ASSUME NEW i \in 1..Len(Tail(p))
          PROVE  Tail(p)[i] = published - Len(Tail(p)) + i
      <4>1. Tail(p)[i] = published - Len(p) + (i + 1)
        BY <1>2, <3>1
      <4> QED BY <1>2, <4>1
    <3>4. Sent(h)' \in Nat
      BY <1>3, <2>2 DEF InLine
    <3> QED BY <1>1, <3>2, <3>3, <3>4 DEF InLine
  <2> QED BY <1>1, <2>1, <2>2 DEF HubLine
<1>5. ASSUME NEW k \in Client \ {h} PROVE HubLine(k)'
  <2>1. listener[k] = "subscribing" => \A d \in clients'[k] : Unaware(d)'
    BY <1>1 DEF Lines, HubLine, Unaware
  <2>2. clients'[k] # {} => run[k] = "running"
    BY <1>1 DEF Lines, HubLine
  <2> QED BY <1>1, <2>1, <2>2, HubFrame
<1>6. \A k \in Client : Sent(k)' = Sent(k)
  BY <1>1, <1>3 DEF Sent
<1>7. \A c \in Client : Served(c)' => Served(c) /\ Sent(hub[c])' = Sent(hub[c])
  <2>1. \A c \in Client : at[c] \in Reading => hub[c] \in Client
    BY DEF TypeOK, Reading
  <2>2. \A c \in Client : Served(c)' <=> Served(c)
    BY <1>1 DEF Served
  <2>3. \A c \in Client : Served(c) => Sent(hub[c])' = Sent(hub[c])
    BY <1>1, <1>3, <2>1 DEF Served, Sent
  <2> QED BY <2>2, <2>3
<1> QED BY <1>1, <1>4, <1>5, <1>7, QuietHub DEF Lines

(* A sequence of at most one event is empty or that event.                 *)
LEMMA AtMostOne ==
    ASSUME NEW s \in Seq(Event), Len(s) <= 1
    PROVE  /\ Len(s) \in Nat
           /\ s # <<>> => Len(s) = 1 /\ Head(s) = s[1]
           /\ s = <<>> => Len(s) = 0
<1>1. s # <<>> => Len(s) \in Nat \ {0}
  BY EmptySeq, Zenon
<1>2. Len(s) \in Nat /\ (s = <<>> => Len(s) = 0)
  BY EmptySeq
<1>3. s # <<>> => Head(s) = s[1]
  OBVIOUS
<1>4. ASSUME s # <<>> PROVE Len(s) = 1
  <2> DEFINE n == Len(s)
  <2>1. n \in Nat \ {0} /\ n <= 1
    BY <1>1, <1>4
  <2> HIDE DEF n
  <2>2. n = 1
    BY <2>1
  <2> QED BY <2>2 DEF n
<1> QED BY <1>2, <1>3, <1>4

(* A broadcast takes the hub, and whoever it serves, one event further; a  *)
(* client whose buffer is full is served no longer.                        *)
LEMMA BroadcastKeepsLines ==
    ASSUME TypeOK, Ledger, Attachment, Lines, NEW h \in Client, Broadcast(h)
    PROVE  Lines'
<1> DEFINE n == Sent(h)
           slow == {c \in clients[h] : Full(c)}
<1>1. /\ UNCHANGED <<hub, at, conn, published, seen, quit, run, listener, pubSub>>
      /\ run[h] = "running" /\ held[h] # <<>> /\ held'[h] = <<>>
      /\ \A k \in Client \ {h} : held'[k] = held[k] /\ clients'[k] = clients[k]
      /\ clients'[h] = clients[h] \ slow
      /\ \A c \in Client : send'[c] = IF c \in clients[h] \ slow
                                        THEN Append(send[c], Head(held[h])) ELSE send[c]
  BY DEF Broadcast, Deliver, Drop, TypeOK
<1> HIDE DEF slow
<1>2. listener[h] = "running" /\ InLine(h)
  BY <1>1 DEF Lines, HubLine
<1>3. /\ Head(held[h]) = n + 1 /\ n \in Nat /\ Sent(h)' = n + 1 /\ n + 1 \in 0..published
      /\ InLine(h)'
  <2>1. /\ held[h] \in Seq(Event) /\ Len(held[h]) <= 1 /\ pubSub[h] \in Seq(Event)
        /\ published \in Nat
    BY DEF TypeOK
  <2>2. Len(held[h]) = 1 /\ Head(held[h]) = held[h][1] /\ Len(pubSub[h]) \in Nat
    BY <1>1, <2>1, AtMostOne
  <2>3. Len(<<>>) = 0
    OBVIOUS
  <2>4. Sent(h)' = n + 1
    BY <1>1, <2>1, <2>2, <2>3 DEF Sent
  <2>5. n \in Nat /\ Head(held[h]) = n + 1
    BY <1>2, <2>1, <2>2 DEF InLine, Sent
  <2>6. n + 1 \in 0..published
    BY <2>1, <2>2, <2>5 DEF Sent
  <2> QED BY <1>1, <1>2, <2>4, <2>5, <2>6 DEF InLine
<1> HIDE DEF n
<1>4. HubLine(h)'
  BY <1>1, <1>2, <1>3 DEF Lines, HubLine
<1>5. ASSUME NEW k \in Client \ {h} PROVE HubLine(k)'
  <2>1. ASSUME listener[k] = "subscribing", NEW d \in clients'[k]
        PROVE  Unaware(d)'
    <3>1. d \in clients[k] /\ d \in Client /\ hub[d] = k
      BY <1>1, <2>1, OwnClients
    <3>2. d \notin clients[h]
      BY <3>1, OwnClients
    <3>3. send'[d] = send[d]
      BY <1>1, <3>1, <3>2
    <3>4. EventsIn(send[d]) = {} /\ seen[d] = 0
      BY <2>1, <3>1 DEF Lines, HubLine, Unaware
    <3> QED BY <1>1, <3>1, <3>3, <3>4 DEF Unaware
  <2>2. clients'[k] # {} => run[k] = "running"
    BY <1>1 DEF Lines, HubLine
  <2> QED BY <1>1, <2>1, <2>2, HubFrame
<1>6. ASSUME NEW c \in Client PROVE ClientLine(c)'
  <2>1. conn[c] = "up" => at[c] \in Attaching \cup Reading
    BY DEF Lines, ClientLine
  <2>2. CASE c \notin clients'[h]
    <3>1. send'[c] = send[c]
      BY <1>1, <2>2
    <3>2. Served(c)' => Served(c) /\ hub[c] # h
      <4>1. at[c] \in Reading => hub[c] \in Client
        BY DEF TypeOK, Reading
      <4> QED BY <1>1, <2>2, <4>1 DEF Served
    <3>3. Served(c) /\ hub[c] # h => Sent(hub[c])' = Sent(hub[c]) /\ Sent(hub[c]) \in Nat
      BY <1>1, ServedInLine DEF Sent, InLine
    <3> QED BY <1>1, <2>1, <3>1, <3>2, <3>3, ClientFrame DEF SlotsOnly
  <2>3. CASE c \in clients'[h]
    <3>1. c \in clients[h] \ slow /\ hub[c] = h /\ at[c] \notin {"idle", "joining"}
      BY <1>1, <2>3, OwnClients
    <3>2. send'[c] = Append(send[c], n + 1)
      BY <1>1, <1>3, <3>1
    <3>3. ASSUME conn[c] = "up" PROVE Follows(send'[c], seen[c], n + 1)
      <4>1. Served(c)
        BY <2>1, <3>1, <3>3 DEF Served, Attaching
      <4>2. Follows(send[c], seen[c], n) /\ send[c] \in Seq(Msg)
        BY <3>1, <3>3, <4>1 DEF Lines, ClientLine, TypeOK, n
      <4> QED BY <1>3, <3>2, <4>2, FollowsNext
    <3>4. hub'[c] = h /\ at'[c] = at[c] /\ conn'[c] = conn[c] /\ seen'[c] = seen[c]
          /\ published' = published
      BY <1>1, <3>1
    <3>5. conn'[c] = "up" => /\ \E newest \in 0..published' : Follows(send'[c], seen'[c], newest)
                             /\ Follows(send[c], seen[c], Sent(hub[c]))'
      <4>1. Follows(send[c], seen[c], Sent(hub[c]))' <=> Follows(send'[c], seen[c], n + 1)
        BY <1>3, <3>4
      <4> QED BY <1>3, <3>3, <3>4, <4>1
    <3> QED BY <2>1, <3>1, <3>4, <3>5 DEF ClientLine
  <2> QED BY <2>2, <2>3
<1> QED BY <1>4, <1>5, <1>6 DEF Lines

(* The events of a buffer without its head are among those of the buffer.  *)
LEMMA EventsOfTail ==
    ASSUME NEW s \in Seq(Msg), s # <<>>
    PROVE  /\ EventsIn(Tail(s)) \subseteq EventsIn(s)
           /\ Head(s) # Direct => Head(s) \in EventsIn(s)
<1>1. /\ DOMAIN s = 1..Len(s) /\ Len(s) \in Nat \ {0} /\ 1 \in DOMAIN s /\ Head(s) = s[1]
      /\ DOMAIN Tail(s) = 1..Len(s)-1
      /\ \A i \in 1..Len(s)-1 : Tail(s)[i] = s[i+1]
  OBVIOUS
<1>2. \A i \in DOMAIN Tail(s) : i + 1 \in DOMAIN s /\ Tail(s)[i] = s[i+1]
  BY <1>1
<1> QED BY <1>1, <1>2 DEF EventsIn

(* The write pump takes the head of a buffer: its peer receives it, or has *)
(* lost the connection.                                                    *)
LEMMA WriteKeepsLines ==
    ASSUME TypeOK, Ledger, Attachment, Lines, NEW c \in Client,
           WriteMessage(c) \/ WriteFails(c)
    PROVE  Lines'
<1>1. /\ UNCHANGED <<hub, at, published, quit, run, clients, listener, held, pubSub>>
      /\ send[c] # <<>> /\ send[c] \in Seq(Msg) /\ send'[c] = Tail(send[c])
      /\ \A d \in Client \ {c} : send'[d] = send[d] /\ seen'[d] = seen[d] /\ conn'[d] = conn[d]
      /\ seen'[c] = seen[c] \/ (Head(send[c]) # Direct /\ seen'[c] = Head(send[c]))
      /\ conn'[c] = "up" =>
           /\ conn[c] = "up"
           /\ seen'[c] = IF Head(send[c]) # Direct THEN Head(send[c]) ELSE seen[c]
  <2>1. CASE WriteMessage(c)
    BY <2>1 DEF WriteMessage, hubVars, TypeOK
  <2>2. CASE WriteFails(c)
    BY <2>2 DEF WriteFails, WriteExit, hubVars, history, TypeOK
  <2> QED BY <2>1, <2>2
<1>2. \A d \in Client : Unaware(d) => Unaware(d)'
  <2>1. Unaware(c) => Unaware(c)'
    BY <1>1, EventsOfTail, ZenonT(60) DEF Unaware
  <2>2. \A d \in Client \ {c} : Unaware(d) => Unaware(d)'
    BY <1>1 DEF Unaware
  <2> QED BY <2>1, <2>2
<1>3. ASSUME NEW h \in Client PROVE HubLine(h)'
  <2>1. \A d \in clients[h] : d \in Client
    BY OwnClients
  <2>2. listener[h] = "subscribing" => \A d \in clients'[h] : Unaware(d)'
    BY <1>1, <1>2, <2>1 DEF Lines, HubLine
  <2>3. clients'[h] # {} => run[h] = "running"
    BY <1>1 DEF Lines, HubLine
  <2> QED BY <1>1, <2>2, <2>3, HubFrame
<1>4. ASSUME NEW d \in Client PROVE Served(d) => Sent(hub[d])' = Sent(hub[d]) /\ Sent(hub[d]) \in Nat
  BY <1>1, ServedInLine DEF Sent, InLine
<1>5. ASSUME NEW d \in Client \ {c} PROVE ClientLine(d)'
  <2>1. ClientLine(d)
    BY DEF Lines
  <2>2. Served(d)' <=> Served(d)
    BY <1>1 DEF Served
  <2>3. Served(d) => Sent(hub[d])' = Sent(hub[d])
    BY <1>4
  <2>4. Served(d) /\ Follows(send[d], seen[d], Sent(hub[d])) => Follows(send[d], seen[d], Sent(hub[d]))'
    BY <1>1, <2>3
  <2> QED BY <1>1, <2>1, <2>2, <2>4 DEF ClientLine
<1>6. ClientLine(c)'
  <2>1. ClientLine(c)
    BY DEF Lines
  <2>2. at[c] \notin {"idle", "joining"}
    BY <1>1, <2>1 DEF ClientLine
  <2>3. ASSUME conn'[c] = "up", NEW n \in Nat, Follows(send[c], seen[c], n)
        PROVE  Follows(send'[c], seen'[c], n)
    BY <1>1, <2>3, FollowsTail
  <2>4. conn'[c] = "up" => \E newest \in 0..published : Follows(send'[c], seen'[c], newest)
    <3>1. \A newest \in 0..published : newest \in Nat
      BY DEF TypeOK
    <3> QED BY <1>1, <2>1, <2>3, <3>1 DEF ClientLine
  <2>5. ASSUME conn'[c] = "up", Served(c)
        PROVE  Follows(send[c], seen[c], Sent(hub[c]))'
    <3>1. Sent(hub[c])' = Sent(hub[c]) /\ Sent(hub[c]) \in Nat
      BY <1>4, <2>5
    <3>2. Follows(send'[c], seen'[c], Sent(hub[c]))
      BY <1>1, <2>1, <2>3, <2>5, <3>1 DEF ClientLine
    <3> QED BY <3>1, <3>2
  <2>6. Served(c)' <=> Served(c)
    BY <1>1 DEF Served
  <2> QED BY <1>1, <2>1, <2>2, <2>4, <2>5, <2>6 DEF ClientLine
<1> QED BY <1>3, <1>5, <1>6 DEF Lines

(* The other steps of a connection leave events where they are.            *)
LEMMA OthersKeepLines ==
    ASSUME TypeOK, Ledger, Attachment, Lines, NEW c \in Client,
           \/ LeaveLock(c) \/ ReadPing(c) \/ SendPong(c) \/ ReadError(c)
           \/ WriteDone(c) \/ TickFails(c) \/ PeerGone(c)
    PROVE  Lines'
<1> USE DEF hubVars, history
<1>1. \A d \in Client : conn[d] = "up" => at[d] \in Attaching \cup Reading
  BY DEF Lines, ClientLine
<1>2. /\ UNCHANGED <<hub, run, clients, listener, held, pubSub, published, seen>>
      /\ \A h \in Client : quit[h] => quit'[h]
      /\ \A d \in Client \ {c} : send'[d] = send[d] /\ conn'[d] = conn[d] /\ at'[d] = at[d]
      /\ (SlotsOnly(c) /\ at'[c] \notin {"idle", "joining"}) \/ UNCHANGED <<send, at>>
      /\ conn'[c] = "up" => conn[c] = "up" /\ at'[c] \in Attaching \cup Reading
      /\ at'[c] \in Reading => at[c] \in Reading
  <2>1. CASE LeaveLock(c)
    <3>1. \A h \in Client : quit[h] => quit'[h]
      BY <2>1, Zenon DEF LeaveLock, TypeOK
    <3> QED BY <2>1, <3>1 DEF LeaveLock, SlotsOnly, TypeOK, Reading
  <2>2. CASE ReadPing(c)
    BY <2>2 DEF ReadPing, SlotsOnly, TypeOK, Reading
  <2>3. CASE SendPong(c)
    BY <2>3 DEF SendPong, SlotsOnly, TypeOK, Reading
  <2>4. CASE ReadError(c)
    BY <2>4 DEF ReadError, SlotsOnly, TypeOK, Reading
  <2>5. CASE WriteDone(c)
    BY <2>5 DEF WriteDone, WriteExit, SlotsOnly, TypeOK, Reading
  <2>6. CASE TickFails(c)
    BY <2>6 DEF TickFails, WriteExit, SlotsOnly, TypeOK, Reading
  <2>7. CASE PeerGone(c)
    BY <2>7 DEF PeerGone, SlotsOnly, TypeOK, Reading
  <2> QED BY <2>1, <2>2, <2>3, <2>4, <2>5, <2>6, <2>7
<1>3. \A d \in Client : /\ SlotsOnly(d)
                        /\ conn'[d] = "up" => conn[d] = "up" /\ at'[d] \in Attaching \cup Reading
                        /\ at'[d] \in {"idle", "joining"} =>
                             at[d] \in {"idle", "joining"} /\ send'[d] = send[d]
                        /\ at'[d] \in Reading => at[d] \in Reading
  BY <1>1, <1>2 DEF SlotsOnly
<1> QED BY <1>2, <1>3, ConnectionKeepsLines

(* Every step keeps hubs and clients in line.                              *)
LEMMA LinesStep ==
    ASSUME TypeOK, TypeOK', Ledger, Attachment, Attachment', Lines, [Next]_vars
    PROVE  Lines'
<1> USE DEF history
<1>1. CASE RestPublish
  BY <1>1, PublishKeepsLines DEF RestPublish
<1>2. ASSUME NEW c \in Client, ReadEvent(c) PROVE Lines'
  BY <1>2, PublishKeepsLines DEF ReadEvent
<1>3. ASSUME NEW c \in Client, HubStep(c) PROVE Lines'
  BY <1>3, StartKeepsLines, StopKeepsLines, TakeKeepsLines, BroadcastKeepsLines DEF HubStep
<1>4. ASSUME NEW c \in Client, JoinLock(c) PROVE Lines'
  BY <1>4, JoinKeepsLines
<1>5. ASSUME NEW c \in Client, JoinRegister(c) \/ LeaveUnregister(c) PROVE Lines'
  BY <1>5, PresenceKeepsLines
<1>6. ASSUME NEW c \in Client, WriteMessage(c) \/ WriteFails(c) PROVE Lines'
  BY <1>6, WriteKeepsLines
<1>7. ASSUME NEW c \in Client,
             \/ LeaveLock(c) \/ ReadPing(c) \/ SendPong(c) \/ ReadError(c)
             \/ WriteDone(c) \/ TickFails(c) \/ PeerGone(c)
      PROVE Lines'
  BY <1>7, OthersKeepLines
<1>8. CASE UNCHANGED vars
  <2>1. /\ \A h \in Client : HubLine(h)' <=> HubLine(h)
        /\ \A c \in Client : ClientLine(c)' <=> ClientLine(c)
    BY <1>8 DEF vars, hubVars, clientVars, HubLine, ClientLine, InLine, Sent, Served, Unaware
  <2> QED BY <2>1 DEF Lines
<1> QED
  BY <1>1, <1>2, <1>3, <1>4, <1>5, <1>6, <1>7, <1>8
     DEF Next, RegistryStep, ReadStep, WriteStep, Input

(* A client in line, behind a hub in line, misses nothing.                 *)
LEMMA LinesSkipNothing == TypeOK /\ Ledger /\ Lines => NoEventSkipped
<1> SUFFICES ASSUME TypeOK, Ledger, Lines, NEW c \in Client, conn[c] = "up"
             PROVE  /\ \E newest \in 0..published : Follows(send[c], seen[c], newest)
                    /\ at[c] \in Reading /\ c \in clients[hub[c]] =>
                         Follows(OnTheWay(c), seen[c], published)
  BY DEF NoEventSkipped
<1>1. \E newest \in 0..published : Follows(send[c], seen[c], newest)
  BY DEF Lines, ClientLine
<1>2. ASSUME at[c] \in Reading, c \in clients[hub[c]]
      PROVE  Follows(OnTheWay(c), seen[c], published)
  <2> DEFINE h == hub[c]
             n == Sent(h)
  <2>1. h \in Client /\ InLine(h)
    BY <1>2, ServedInLine DEF Served
  <2>2. Follows(send[c], seen[c], n) /\ send[c] \in Seq(Msg) /\ n \in Nat
    BY <1>2, <2>1 DEF Lines, ClientLine, Served, TypeOK, InLine
  <2>3. held[h] \in Seq(Event) /\ pubSub[h] \in Seq(Event) /\ Len(held[h]) <= 1 /\ published \in Nat
    BY <2>1 DEF TypeOK
  <2> HIDE DEF h
  <2>4. \A i \in 1..Len(held[h]) : held[h][i] = n + i
    <3>1. ASSUME NEW i \in 1..Len(held[h]) PROVE held[h][i] = n + i
      <4>1. i = 1 /\ Len(held[h]) = 1 /\ held[h] # <<>>
        BY <2>3, <3>1, AtMostOne
      <4>2. held[h][1] = published - Len(pubSub[h])
        BY <2>1, <4>1 DEF InLine
      <4>3. Len(pubSub[h]) \in Nat
        BY <2>3
      <4> QED BY <2>3, <4>1, <4>2, <4>3 DEF Sent
    <3> QED BY <3>1
  <2>5. n + Len(held[h]) \in Nat /\ n + Len(held[h]) = published - Len(pubSub[h])
    BY <2>1, <2>2, <2>3 DEF Sent
  <2> HIDE DEF n
  <2>6. Follows(send[c] \o held[h], seen[c], n + Len(held[h])) /\ send[c] \o held[h] \in Seq(Msg)
    BY <2>2, <2>3, <2>4, FollowsThrough
  <2>7. \A i \in 1..Len(pubSub[h]) : pubSub[h][i] = (n + Len(held[h])) + i
    BY <2>1, <2>5 DEF InLine
  <2>8. Follows((send[c] \o held[h]) \o pubSub[h], seen[c], (n + Len(held[h])) + Len(pubSub[h]))
    BY <2>3, <2>5, <2>6, <2>7, FollowsThrough
  <2>9. (n + Len(held[h])) + Len(pubSub[h]) = published
    BY <2>3, <2>5
  <2> QED BY <2>8, <2>9 DEF OnTheWay, h
<1> QED BY <1>1, <1>2

(* Nothing has been published, and nobody is there.                        *)
LEMMA LinesInit == Init => Lines
<1> SUFFICES ASSUME Init PROVE Lines
  OBVIOUS
<1>1. \A h \in Client : HubLine(h)
  BY DEF Init, HubLine
<1>2. \A c \in Client : ClientLine(c)
  BY DEF Init, ClientLine, Served, Reading
<1> QED BY <1>1, <1>2 DEF Lines

(* No client that keeps its connection ever misses an event.               *)
THEOREM NothingSkipped == Spec => []NoEventSkipped
<1>1. Spec => []Lines
  BY LinesInit, LinesStep, TypeCorrect, LedgerHolds, AttachmentHolds, PTL DEF Spec
<1> QED BY <1>1, LinesSkipNothing, TypeCorrect, LedgerHolds, PTL

=============================================================================
