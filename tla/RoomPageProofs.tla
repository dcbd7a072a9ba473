-------------------------- MODULE RoomPageProofs --------------------------
(***************************************************************************)
(* Proofs about the room page, for any users, songs, calls, losses and     *)
(* clock: it settles on the stored room (Settles), its player has the song *)
(* that it shows (DeckFollows) and is in tune with the room (InTune).      *)
(*                                                                         *)
(* The argument is about versions.  For each part of the room there is a   *)
(* version since which the part has not changed.  Whatever is at least     *)
(* that new - an event, an answer, what the page shows, what the player    *)
(* was told - has the part as the room does; and the page has been given   *)
(* something that new, will be given it, or is known to have missed it.    *)
(* Since says so of what the page shows, Heard of what the player does.    *)
(***************************************************************************)
EXTENDS RoomPage, RoomOpsProofs

USE HostAssumption, SongAssumption, TimeAssumption

-----------------------------------------------------------------------------
(* Filtering a queue.                                                      *)

(* What is left of a queue is a queue.                                     *)
LEMMA RemainingTyped ==
    ASSUME NEW data, shown \in RoomData, NEW left \in Remaining(data)
    PROVE  left \in Seq(Item)
<1> DEFINE kept == {i \in DOMAIN shown.queue : shown.queue[i].song # data.song}
<1>1. PICK order \in InOrder(kept) : left = [k \in DOMAIN order |-> shown.queue[order[k]]]
  BY DEF Remaining
<1>2. shown.queue \in Seq(Item) /\ DOMAIN shown.queue = 1..Len(shown.queue)
  BY LenProperties DEF RoomData
<1>3. kept \subseteq 1..Len(shown.queue)
  BY <1>2
<1> HIDE DEF kept
<1>4. IsFiniteSet(kept) /\ Cardinality(kept) \in Nat
  <2>1. IsFiniteSet(1..Len(shown.queue))
    BY <1>2, LenProperties, FS_Interval
  <2> QED BY <1>3, <2>1, FS_Subset, FS_CardinalityType
<1>5. order \in [1..Cardinality(kept) -> kept]
  BY <1>1 DEF InOrder
<1>6. \A k \in 1..Cardinality(kept) : shown.queue[order[k]] \in Item
  BY <1>2, <1>3, <1>5, ElementOfSeq
<1>7. left = [k \in 1..Cardinality(kept) |-> shown.queue[order[k]]]
  BY <1>1, <1>5
<1> QED BY <1>4, <1>6, <1>7

(* Nothing is left out of a queue that does not hold the song: the kept    *)
(* positions, in order, are all positions.                                 *)
LEMMA OrderIsIdentity ==
    ASSUME NEW n \in Nat, NEW f \in [1..n -> 1..n],
           \A i, j \in 1..n : i < j => f[i] < f[j],
           NEW i \in 1..n
    PROVE  f[i] = i
<1>1. \A a, b \in Int : IsFiniteSet(a..b) /\ Cardinality(a..b) = IF a > b THEN 0 ELSE b - a + 1
  BY FS_Interval
<1>2. \A j, k \in 1..n : j < k \/ j = k => f[j] <= f[k]
  <2> SUFFICES ASSUME NEW j \in 1..n, NEW k \in 1..n, j < k \/ j = k PROVE f[j] <= f[k]
    OBVIOUS
  <2>1. f[j] \in 1..n /\ f[k] \in 1..n
    OBVIOUS
  <2>2. CASE j < k
    BY <2>1, <2>2
  <2>3. CASE j = k
    BY <2>1, <2>3
  <2> QED BY <2>2, <2>3
<1>3. i <= f[i]
  <2> DEFINE g == [k \in 1..i |-> f[k]]
  <2>1. g \in Injection(1..i, 1..f[i])
    <3>1. \A k \in 1..i : f[k] \in 1..f[i]
      <4> HIDE DEF g
      <4> TAKE k \in 1..i
      <4>1. k \in 1..n /\ f[k] \in 1..n /\ f[i] \in 1..n /\ (k = i \/ k < i)
        OBVIOUS
      <4>2. f[k] <= f[i]
        BY <1>2, <4>1
      <4> QED BY <4>1, <4>2
    <3>2. \A j, k \in 1..i : j # k => g[j] # g[k]
      OBVIOUS
    <3> QED BY <3>1, <3>2 DEF Injection, IsInjective
  <2>2. Cardinality(1..i) <= Cardinality(1..f[i])
    BY <1>1, <2>1, FS_Injection
  <2> QED BY <1>1, <2>2
<1>4. f[i] <= i
  <2> DEFINE g == [k \in i..n |-> f[k]]
  <2>1. g \in Injection(i..n, f[i]..n)
    <3>1. \A k \in i..n : f[k] \in f[i]..n
      <4> HIDE DEF g
      <4> TAKE k \in i..n
      <4>1. k \in 1..n /\ f[k] \in 1..n /\ f[i] \in 1..n /\ (k = i \/ i < k)
        OBVIOUS
      <4>2. f[i] <= f[k]
        BY <1>2, <4>1
      <4> QED BY <4>1, <4>2
    <3>2. \A j, k \in i..n : j # k => g[j] # g[k]
      OBVIOUS
    <3> QED BY <3>1, <3>2 DEF Injection, IsInjective
  <2>2. Cardinality(i..n) <= Cardinality(f[i]..n)
    BY <1>1, <2>1, FS_Injection
  <2> QED BY <1>1, <2>2
<1> QED BY <1>3, <1>4

(* A queue that does not hold the song is left as it is.                   *)
LEMMA RemainingAll ==
    ASSUME NEW data, shown \in RoomData, ~Queued(shown, data.song), NEW left \in Remaining(data)
    PROVE  left = shown.queue
<1> DEFINE n == Len(shown.queue)
           kept == {i \in DOMAIN shown.queue : shown.queue[i].song # data.song}
<1>1. PICK order \in InOrder(kept) : left = [k \in DOMAIN order |-> shown.queue[order[k]]]
  BY DEF Remaining
<1>2. n \in Nat /\ DOMAIN shown.queue = 1..n /\ shown.queue = [k \in 1..n |-> shown.queue[k]]
  BY LenProperties DEF RoomData
<1>3. kept = 1..n
  BY <1>2 DEF Queued
<1>4. Cardinality(1..n) = n
  BY <1>2, FS_Interval
<1>5. /\ order \in [1..n -> 1..n]
      /\ \A i, j \in 1..n : i < j => order[i] < order[j]
  BY <1>1, <1>3, <1>4 DEF InOrder
<1>6. \A i \in 1..n : order[i] = i
  BY <1>2, <1>5, OrderIsIdentity
<1>7. left = [k \in 1..n |-> shown.queue[k]]
  BY <1>1, <1>5, <1>6
<1> QED BY <1>2, <1>7

-----------------------------------------------------------------------------
(* The invariant.                                                          *)

News == {"state", "queue"}

Names == {"state", "queue", "play", "pause", "seek", "kicked"}

Event == [name : Names, room : RoomData, rev : Nat]

Back(k) == call[k].kind # "none" /\ call[k].phase = "answered"

Typed ==
    /\ now \in Nat /\ Fit(room, now, TRUE)
    /\ shown \in RoomData /\ wire \in Seq(Event)
    /\ call = [k \in Call |-> call[k]]
    /\ \A k \in Call : Back(k) => call[k].room \in RoomData /\ call[k].rev \in Nat
    /\ seen \in [Parts -> Nat] /\ missed \in Nat /\ fetched \in Nat

(* Nothing is newer than the room, the wire is in order, and what was      *)
(* loaded was seen.                                                        *)
Dated ==
    /\ \A i \in DOMAIN wire : wire[i].rev <= now
    /\ \A i, j \in DOMAIN wire : i <= j => wire[i].rev <= wire[j].rev
    /\ \A k \in Call : Back(k) => call[k].rev <= now
    /\ missed <= now
    /\ \A p \in News : seen[p] <= now /\ fetched <= seen[p]

Alike(p, a, b) ==
    IF p = "state" THEN a.song = b.song /\ a.everyone = b.everyone ELSE a.queue = b.queue

(* The part has not changed since version v: whatever is at least that new *)
(* has it as the room does.  The page was given it, will be, or missed it. *)
Since(p, v) ==
    /\ \A i \in DOMAIN wire : wire[i].rev >= v => Alike(p, wire[i].room, room)
    /\ \A k \in Call : Back(k) /\ call[k].rev >= v => Alike(p, call[k].room, room)
    /\ phase = "open" /\ p \notin unsure /\ seen[p] >= v => Alike(p, shown, room)
    /\ phase \in {"loading", "open"} =>
         \/ v <= missed \/ seen[p] >= v
         \/ \E i \in DOMAIN wire : wire[i].name = p /\ wire[i].rev >= v

UpToDate == \A p \in News : \E v \in 0..now : Since(p, v)

Following == Typed /\ Dated /\ UpToDate

-----------------------------------------------------------------------------
(* Steps that give the page nothing.                                       *)

PageKeeps ==
    /\ UNCHANGED <<shown, fetched>> /\ phase' \in {phase, "failed"}
    /\ seen' \in [Parts -> Nat]
    /\ \A p \in News : seen'[p] = seen[p] /\ (p \in unsure' <=> p \in unsure)

(* Answers were there before, or tell the room as it is.                   *)
CallsKeep ==
    /\ call' = [k \in Call |-> call'[k]]
    /\ \A k \in Call : Back(k)' =>
         \/ Back(k) /\ call'[k] = call[k]
         \/ call'[k].room = room' /\ call'[k].rev = now'

(* Being alike in a part is an equivalence.                                *)
LEMMA AlikeParts ==
    ASSUME NEW p, NEW a, NEW b, NEW c
    PROVE  /\ Alike(p, a, a)
           /\ Alike(p, a, b) => Alike(p, b, a)
           /\ Alike(p, a, b) /\ Alike(p, b, c) => Alike(p, a, c)
BY DEF Alike

(* The server rests.                                                       *)
LEMMA RestKeeps ==
    ASSUME Following, UNCHANGED <<room, now, wire, missed>>, PageKeeps, CallsKeep
    PROVE  Following'
<1>1. room \in RoomData /\ now \in Nat
  BY DEF Following, Typed, Fit
<1>2. Typed'
  BY <1>1 DEF Following, Typed, PageKeeps, CallsKeep, Back
<1>3. Dated'
  BY <1>1 DEF Following, Typed, Dated, PageKeeps, CallsKeep, Back
<1>4. ASSUME NEW p \in News, NEW v \in 0..now, Since(p, v)
      PROVE  Since(p, v)'
  <2>1. \A k \in Call : Back(k)' /\ call'[k].rev >= v => Alike(p, call'[k].room, room')
    BY <1>4, AlikeParts DEF CallsKeep, Since
  <2>2. phase' = "open" /\ p \notin unsure' /\ seen'[p] >= v => Alike(p, shown', room')
    BY <1>4 DEF PageKeeps, Since
  <2>3. phase' \in {"loading", "open"} =>
          \/ v <= missed' \/ seen'[p] >= v
          \/ \E i \in DOMAIN wire' : wire'[i].name = p /\ wire'[i].rev >= v
    BY <1>4 DEF PageKeeps, Since
  <2>4. \A i \in DOMAIN wire' : wire'[i].rev >= v => Alike(p, wire'[i].room, room')
    BY <1>4 DEF Since
  <2> QED BY <2>1, <2>2, <2>3, <2>4 DEF Since, Back
<1> QED BY <1>2, <1>3, <1>4 DEF Following, UpToDate

(* What is announced comes last.                                           *)
LEMMA Announced ==
    ASSUME NEW old \in Seq(Event), NEW events \in Seq(Names),
           NEW data \in RoomData, NEW rev \in Nat
    PROVE  LET later == old \o Published(events, data, rev) IN
             /\ later \in Seq(Event)
             /\ Len(old) \in Nat /\ Len(events) \in Nat
             /\ DOMAIN old = 1..Len(old) /\ DOMAIN later = 1..Len(old) + Len(events)
             /\ \A i \in 1..Len(old) : later[i] = old[i]
             /\ \A j \in 1..Len(events) :
                  LET new == later[Len(old) + j] IN
                    new.name = events[j] /\ new.room = data /\ new.rev = rev
<1> DEFINE n == Len(events)
           more == Published(events, data, rev)
           later == old \o more
<1>1. n \in Nat /\ DOMAIN events = 1..n /\ \A i \in 1..n : events[i] \in Names
  BY LenProperties, ElementOfSeq
<1>2. more = [i \in 1..n |-> [name |-> events[i], room |-> data, rev |-> rev]]
  BY <1>1 DEF Published
<1>3. \A i \in 1..n : [name |-> events[i], room |-> data, rev |-> rev] \in Event
  BY <1>1 DEF Event
<1>4. more \in Seq(Event) /\ Len(more) = n
  BY <1>1, <1>2, <1>3
<1> HIDE DEF more
<1>5. /\ later \in Seq(Event) /\ Len(later) = Len(old) + n /\ Len(old) \in Nat
      /\ \A i \in 1..Len(old) + n :
           later[i] = IF i <= Len(old) THEN old[i] ELSE more[i - Len(old)]
  <2>1. Len(old) \in Nat
    BY LenProperties
  <2>2. later \in Seq(Event) /\ Len(later) = Len(old) + Len(more)
    BY <1>4, ConcatProperties
  <2>3. \A i \in 1..Len(old) + Len(more) :
          later[i] = IF i <= Len(old) THEN old[i] ELSE more[i - Len(old)]
    BY <1>4, ConcatProperties
  <2> QED BY <1>4, <2>1, <2>2, <2>3
<1> HIDE DEF later
<1>6. DOMAIN old = 1..Len(old) /\ DOMAIN later = 1..Len(old) + n
  BY <1>5, LenProperties
<1>7. ASSUME NEW j \in 1..n
      PROVE  LET new == later[Len(old) + j] IN
               new.name = events[j] /\ new.room = data /\ new.rev = rev
  <2>1. PICK i : i = Len(old) + j
    OBVIOUS
  <2>2. i \in 1..Len(old) + n /\ ~(i <= Len(old)) /\ i - Len(old) = j
    BY <1>1, <1>5, <2>1
  <2>3. later[i] = more[j]
    BY <1>5, <2>2
  <2> QED BY <1>2, <2>1, <2>3
<1>8. \A i \in 1..Len(old) : later[i] = old[i]
  BY <1>1, <1>5
<1> QED BY <1>1, <1>5, <1>6, <1>7, <1>8 DEF later, more

(* Whatever is published of some events is some of them.                   *)
LEMMA DeliveriesHeard ==
    ASSUME NEW events \in Seq(Names), NEW heard \in Deliveries(events)
    PROVE  /\ heard \in Seq(Names)
           /\ \A j \in DOMAIN heard : \E i \in DOMAIN events : heard[j] = events[i]
<1>1. CASE heard = <<>>
  BY <1>1
<1>2. CASE heard = events
  BY <1>2
<1>3. CASE \E i \in DOMAIN events : heard = <<events[i]>>
  <2>1. PICK i \in DOMAIN events : heard = <<events[i]>>
    BY <1>3
  <2>2. events[i] \in Names
    BY ElementOfSeq, LenProperties
  <2>3. heard \in Seq(Names)
    BY <2>1, <2>2
  <2>4. \A j \in DOMAIN heard : heard[j] = events[i]
    BY <2>1
  <2> QED BY <2>3, <2>4
<1> QED BY <1>1, <1>2, <1>3 DEF Deliveries

(* The wire after a change.                                                *)
LEMMA WireGrows ==
    ASSUME Typed, NEW new \in RoomData, NEW events \in Seq(Names), Change(new, events)
    PROVE  /\ wire' \in Seq(Event)
           /\ Len(wire) \in Nat /\ DOMAIN wire = 1..Len(wire)
           /\ \A i \in DOMAIN wire : i \in DOMAIN wire' /\ wire'[i] = wire[i]
           /\ \A i \in DOMAIN wire' \ DOMAIN wire :
                i \in Nat /\ i > Len(wire) /\ wire'[i].room = new /\ wire'[i].rev = now + 1
           /\ \A j \in DOMAIN events :
                \/ missed' = now + 1
                \/ \E i \in DOMAIN wire' : wire'[i].name = events[j] /\ wire'[i].rev = now + 1
           /\ \A i \in DOMAIN wire' \ DOMAIN wire :
                \E j \in DOMAIN events : wire'[i].name = events[j]
<1>1. wire \in Seq(Event) /\ now + 1 \in Nat
  BY DEF Typed
<1>4. PICK heard \in Deliveries(events) :
        /\ wire' = IF link = "attached" THEN wire \o Published(heard, new, now + 1) ELSE wire
        /\ missed' = IF link = "attached" /\ heard = events THEN missed ELSE now + 1
  BY DEF Change
<1>5. heard \in Seq(Names) /\ \A j \in DOMAIN heard : \E i \in DOMAIN events : heard[j] = events[i]
  BY <1>4, DeliveriesHeard
<1>2. CASE link = "attached"
  <2>1. wire' = wire \o Published(heard, new, now + 1)
    BY <1>2, <1>4
  <2>5. PICK rev \in Nat : rev = now + 1
    BY <1>1
  <2>6. wire' = wire \o Published(heard, new, rev)
    BY <2>1, <2>5
  <2>2. /\ wire' \in Seq(Event)
        /\ Len(wire) \in Nat /\ Len(heard) \in Nat
        /\ DOMAIN wire = 1..Len(wire) /\ DOMAIN wire' = 1..Len(wire) + Len(heard)
        /\ \A i \in 1..Len(wire) : wire'[i] = wire[i]
        /\ \A j \in 1..Len(heard) :
             LET announced == wire'[Len(wire) + j] IN
               announced.name = heard[j] /\ announced.room = new /\ announced.rev = rev
    BY <1>1, <1>5, <2>6, Announced
  <2>7. DOMAIN heard = 1..Len(heard)
    BY <1>5, LenProperties
  <2>3. ASSUME NEW j \in DOMAIN events
        PROVE  \/ missed' = now + 1
               \/ \E i \in DOMAIN wire' : wire'[i].name = events[j] /\ wire'[i].rev = now + 1
    <3>1. CASE heard = events
      <4>1. j \in 1..Len(heard)
        BY <2>7, <3>1
      <4>2. Len(wire) + j \in 1..Len(wire) + Len(heard)
        BY <2>2, <4>1
      <4> QED BY <2>2, <2>5, <3>1, <4>1, <4>2
    <3>2. CASE heard # events
      BY <1>4, <3>2
    <3> QED BY <3>1, <3>2
  <2>4. ASSUME NEW i \in DOMAIN wire' \ DOMAIN wire
        PROVE  /\ i \in Nat /\ i > Len(wire) /\ wire'[i].room = new /\ wire'[i].rev = now + 1
               /\ \E j \in DOMAIN events : wire'[i].name = events[j]
    <3>1. i \in 1..Len(wire) + Len(heard) /\ i > Len(wire)
      BY <2>2
    <3>2. PICK j : j = i - Len(wire)
      OBVIOUS
    <3>3. j \in 1..Len(heard) /\ Len(wire) + j = i /\ j \in DOMAIN heard
      BY <2>2, <2>7, <3>1, <3>2
    <3>4. wire'[i].name = heard[j] /\ wire'[i].room = new /\ wire'[i].rev = now + 1
      BY <2>2, <2>5, <3>3
    <3> QED BY <1>5, <3>1, <3>3, <3>4, <2>2
  <2> QED BY <2>2, <2>3, <2>4
<1>3. CASE link # "attached"
  <2>1. wire' = wire /\ missed' = now + 1
    BY <1>3, <1>4
  <2> QED BY <1>1, <2>1, LenProperties
<1> QED BY <1>2, <1>3

(* The server changes the room, and says so.                               *)
LEMMA ChangeKeeps ==
    ASSUME Following, NEW new, NEW events \in Seq(Names),
           Change(new, events), Fit(new, now + 1, TRUE),
           \A p \in News : Alike(p, new, room) \/ \E i \in DOMAIN events : events[i] = p,
           PageKeeps, phase' = phase, CallsKeep
    PROVE  Following'
<1>1. /\ now \in Nat /\ room \in RoomData /\ new \in RoomData /\ wire \in Seq(Event)
      /\ now' = now + 1 /\ now' \in Nat /\ room' = new
  BY DEF Following, Typed, Fit, Change
<1>2. /\ wire' \in Seq(Event) /\ Len(wire) \in Nat /\ DOMAIN wire = 1..Len(wire)
      /\ \A i \in DOMAIN wire : i \in DOMAIN wire' /\ wire'[i] = wire[i]
      /\ \A i \in DOMAIN wire' \ DOMAIN wire :
           i \in Nat /\ i > Len(wire) /\ wire'[i].room = new /\ wire'[i].rev = now'
  BY <1>1, WireGrows DEF Following
<1>3. \A j \in DOMAIN events :
        \/ missed' = now'
        \/ \E i \in DOMAIN wire' : wire'[i].name = events[j] /\ wire'[i].rev = now'
  BY <1>1, WireGrows, SMTT(30) DEF Following
<1>4. missed' \in {missed, now'} /\ missed \in Nat /\ missed <= now
  BY <1>1 DEF Change, Following, Typed, Dated
<1>5. Typed'
  <2>1. Fit(room', now', TRUE)
    BY <1>1
  <2> QED BY <1>1, <1>2, <1>4, <2>1, ZenonT(60) DEF Following, Typed, PageKeeps, CallsKeep, Back
<1>6. \A k \in Call : Back(k)' => call'[k].rev <= now'
  BY <1>1, SMTT(30) DEF Following, Typed, Dated, CallsKeep, Back
<1>7. /\ \A i \in DOMAIN wire' : wire'[i].rev <= now'
      /\ \A i, j \in DOMAIN wire' : i <= j => wire'[i].rev <= wire'[j].rev
  <2>1. \A i \in DOMAIN wire : wire[i].rev \in Nat /\ wire[i].rev <= now
    <3>1. \A i \in DOMAIN wire : wire[i] \in Event
      BY <1>1, <1>2, ElementOfSeq
    <3> QED BY <3>1 DEF Event, Following, Dated
  <2>2. \A i \in DOMAIN wire' : wire'[i].rev <= now'
    BY <1>1, <1>2, <2>1, SMTT(30)
  <2>3. ASSUME NEW i \in DOMAIN wire', NEW j \in DOMAIN wire', i <= j
        PROVE  wire'[i].rev <= wire'[j].rev
    <3>1. CASE j \in DOMAIN wire
      <4>1. i \in DOMAIN wire
        BY <1>2, <2>3, <3>1
      <4> QED BY <1>2, <2>3, <3>1, <4>1 DEF Following, Dated
    <3>2. CASE j \notin DOMAIN wire
      BY <1>1, <1>2, <2>2, <2>3, <3>2
    <3> QED BY <3>1, <3>2
  <2> QED BY <2>2, <2>3
<1>8. Dated'
  <2>1. \A p \in News : seen'[p] = seen[p] /\ seen[p] \in Nat /\ seen[p] <= now /\ fetched <= seen[p]
    BY DEF Following, Typed, Dated, PageKeeps, News, Parts
  <2>2. \A p \in News : seen'[p] <= now' /\ fetched' <= seen'[p]
    BY <1>1, <2>1 DEF PageKeeps
  <2>3. missed' <= now'
    BY <1>1, <1>4
  <2> QED BY <1>6, <1>7, <2>2, <2>3 DEF Dated, Back
<1>9. ASSUME NEW p \in News
      PROVE  \E v \in 0..now' : Since(p, v)'
  <2>1. PICK v \in 0..now : Since(p, v)
    BY DEF Following, UpToDate
  <2>2. CASE Alike(p, new, room)
    <3>1. \A i \in DOMAIN wire' : wire'[i].rev >= v => Alike(p, wire'[i].room, room')
      BY <1>1, <1>2, <2>1, <2>2, AlikeParts, SMTT(30) DEF Since
    <3>2. \A k \in Call : Back(k)' /\ call'[k].rev >= v => Alike(p, call'[k].room, room')
      BY <1>1, <2>1, <2>2, AlikeParts, ZenonT(60) DEF CallsKeep, Since
    <3>3. phase' = "open" /\ p \notin unsure' /\ seen'[p] >= v => Alike(p, shown', room')
      BY <1>1, <2>1, <2>2, AlikeParts DEF PageKeeps, Since
    <3>4. v <= missed => v <= missed'
      BY <1>1, <1>4
    <3>5. phase' \in {"loading", "open"} =>
            \/ v <= missed' \/ seen'[p] >= v
            \/ \E i \in DOMAIN wire' : wire'[i].name = p /\ wire'[i].rev >= v
      BY <1>2, <2>1, <3>4 DEF PageKeeps, Since
    <3>6. Since(p, v)'
      BY <3>1, <3>2, <3>3, <3>5 DEF Since, Back
    <3> QED BY <1>1, <3>6
  <2>3. CASE \E i \in DOMAIN events : events[i] = p
    <3>1. \A i \in DOMAIN wire' : wire'[i].rev >= now' => Alike(p, wire'[i].room, room')
      <4>1. \A i \in DOMAIN wire : ~(wire[i].rev >= now')
        <5>1. \A i \in DOMAIN wire : wire[i] \in Event /\ wire[i].rev <= now
          BY <1>1, <1>2, ElementOfSeq DEF Following, Dated
        <5> QED BY <1>1, <5>1 DEF Event
      <4> QED BY <1>1, <1>2, <4>1, AlikeParts, ZenonT(60)
    <3>2. \A k \in Call : Back(k)' /\ call'[k].rev >= now' => Alike(p, call'[k].room, room')
      <4>1. \A k \in Call : Back(k) => ~(call[k].rev >= now')
        BY <1>1 DEF Following, Typed, Dated
      <4> QED BY <4>1, AlikeParts DEF CallsKeep
    <3>3. ~(seen'[p] >= now')
      <4>1. seen[p] \in Nat /\ seen[p] <= now
        BY DEF Following, Typed, Dated, News, Parts
      <4> QED BY <1>1, <4>1 DEF PageKeeps
    <3>4. \/ now' <= missed'
          \/ \E i \in DOMAIN wire' : wire'[i].name = p /\ wire'[i].rev >= now'
      <4>1. now' >= now'
        BY <1>1
      <4> QED BY <1>3, <2>3, <4>1
    <3>5. PICK w \in Nat : w = now'
      BY <1>1
    <3>6. Since(p, w)'
      BY <3>1, <3>2, <3>3, <3>4, <3>5 DEF Since, Back
    <3> QED BY <1>1, <3>5, <3>6
  <2> QED BY <2>2, <2>3
<1> QED BY <1>5, <1>8, <1>9 DEF Following, UpToDate

-----------------------------------------------------------------------------
(* Steps that give the page something, or take something from the wire.    *)
LEMMA PartsKeep ==
    ASSUME Following, UNCHANGED <<room, now>>,
           wire' \in Seq(Event),
           \A i \in DOMAIN wire' : \E j \in DOMAIN wire : wire'[i] = wire[j],
           \A i, j \in DOMAIN wire' : i <= j => wire'[i].rev <= wire'[j].rev,
           missed' \in Nat, missed <= missed', missed' <= now, CallsKeep,
           shown' \in RoomData, seen' \in [Parts -> Nat], fetched' \in Nat,
           \A p \in News : seen'[p] <= now /\ fetched' <= seen'[p],
           \A p \in News, v \in 0..now : Since(p, v) =>
             /\ phase' = "open" /\ p \notin unsure' /\ seen'[p] >= v => Alike(p, shown', room)
             /\ phase' \in {"loading", "open"} =>
                  \/ v <= missed' \/ seen'[p] >= v
                  \/ \E i \in DOMAIN wire' : wire'[i].name = p /\ wire'[i].rev >= v
    PROVE  Following'
<1>1. room \in RoomData /\ now \in Nat
  BY DEF Following, Typed, Fit
<1>2. Typed'
  BY <1>1 DEF Following, Typed, CallsKeep, Back
<1>3. Dated'
  <2>1. \A i \in DOMAIN wire' : wire'[i].rev <= now'
    BY DEF Following, Dated
  <2>2. \A k \in Call : Back(k)' => call'[k].rev <= now'
    BY <1>1 DEF Following, Dated, CallsKeep, Back
  <2> QED BY <2>1, <2>2 DEF Dated, Back
<1>4. ASSUME NEW p \in News, NEW v \in 0..now, Since(p, v)
      PROVE  Since(p, v)'
  <2>1. \A k \in Call : Back(k)' /\ call'[k].rev >= v => Alike(p, call'[k].room, room')
    BY <1>4, AlikeParts DEF CallsKeep, Since
  <2>2. phase' = "open" /\ p \notin unsure' /\ seen'[p] >= v => Alike(p, shown', room')
    BY <1>4
  <2>3. phase' \in {"loading", "open"} =>
          \/ v <= missed' \/ seen'[p] >= v
          \/ \E i \in DOMAIN wire' : wire'[i].name = p /\ wire'[i].rev >= v
    BY <1>4
  <2>4. \A i \in DOMAIN wire' : wire'[i].rev >= v => Alike(p, wire'[i].room, room')
    BY <1>4 DEF Since
  <2> QED BY <2>1, <2>2, <2>3, <2>4 DEF Since, Back
<1> QED BY <1>2, <1>3, <1>4 DEF Following, UpToDate

(* What the history says of a part that the page is given, and of others.  *)
LEMMA GivenParts ==
    ASSUME seen \in [Parts -> Nat], NEW parts, NEW wrong, NEW rev \in Int,
           GivenBut(parts, wrong, rev)
    PROVE  /\ seen' \in [Parts -> Nat]
           /\ \A p \in Parts \cap parts :
                /\ seen'[p] >= rev /\ seen'[p] >= seen[p] /\ seen'[p] \in {seen[p], rev}
                /\ p \notin unsure' => seen'[p] = rev
           /\ \A p \in Parts \ parts :
                seen'[p] = seen[p] /\ (p \in unsure' <=> p \in unsure \/ p \in wrong)
BY DEF GivenBut

(* What the player is told leaves alone what the page was given.           *)
LEMMA DeckKeeps ==
    ASSUME seen \in [Parts -> Nat], NEW wrong \in SUBSET {"deck"}, NEW rev \in Int,
           GivenBut({"deck"}, wrong, rev) \/ Doubt({"deck"}) \/ UNCHANGED <<seen, unsure>>
    PROVE  /\ seen' \in [Parts -> Nat]
           /\ \A p \in News : seen'[p] = seen[p] /\ (p \in unsure' <=> p \in unsure)
<1>1. CASE GivenBut({"deck"}, wrong, rev)
  BY <1>1, GivenParts DEF Parts, News
<1>2. CASE Doubt({"deck"})
  BY <1>2 DEF Doubt, News
<1> QED BY <1>1, <1>2

(* What a part is given as, comes after what it was given before.          *)
LEMMA GivenKeeps ==
    ASSUME NEW p, NEW v \in Nat, NEW rev \in Nat, NEW data, Since(p, v),
           rev >= v => Alike(p, data, room),
           seen[p] \in Nat, seen'[p] >= rev, seen'[p] >= seen[p], seen'[p] \in {seen[p], rev},
           p \notin unsure' => seen'[p] = rev,
           phase' = "open" => Alike(p, shown', data)
    PROVE  /\ phase' = "open" /\ p \notin unsure' /\ seen'[p] >= v => Alike(p, shown', room)
           /\ seen[p] >= v => seen'[p] >= v
           /\ rev >= v => seen'[p] >= v
<1>1. phase' = "open" /\ p \notin unsure' /\ seen'[p] >= v => Alike(p, shown', room)
  BY DEF Alike
<1>2. seen[p] >= v => seen'[p] >= v
  OBVIOUS
<1>3. rev >= v => seen'[p] >= v
  OBVIOUS
<1> QED BY <1>1, <1>2, <1>3

(* The first event leaves the wire.                                        *)
LEMMA WireShrinks ==
    ASSUME Following, wire # <<>>,
           wire' = IF Head(wire).name = "kicked" THEN <<>> ELSE Tail(wire)
    PROVE  /\ wire' \in Seq(Event)
           /\ Head(wire) \in Event /\ 1 \in DOMAIN wire /\ Head(wire) = wire[1]
           /\ \A i \in DOMAIN wire' : \E j \in DOMAIN wire : wire'[i] = wire[j]
           /\ \A i, j \in DOMAIN wire' : i <= j => wire'[i].rev <= wire'[j].rev
           /\ Head(wire).name # "kicked" =>
                \A i \in DOMAIN wire : i = 1 \/ \E j \in DOMAIN wire' : wire'[j] = wire[i]
<1>1. wire \in Seq(Event)
  BY DEF Following, Typed
<1>2. PICK n \in Nat \ {0} : n = Len(wire)
  BY <1>1, EmptySeq
<1>3. DOMAIN wire = 1..n
  BY <1>1, <1>2, LenProperties
<1>4. Head(wire) \in Event /\ 1 \in DOMAIN wire /\ Head(wire) = wire[1]
  BY <1>1, <1>2, <1>3, HeadTailProperties
<1>5. CASE Head(wire).name = "kicked"
  <2>1. wire' = <<>> /\ DOMAIN wire' = {} /\ wire' \in Seq(Event)
    BY <1>5
  <2> QED BY <1>4, <1>5, <2>1
<1>6. CASE Head(wire).name # "kicked"
  <2>1. PICK t : t = Tail(wire)
    OBVIOUS
  <2>2. t \in Seq(Event) /\ Len(t) = n - 1 /\ \A i \in 1..n - 1 : t[i] = wire[i + 1]
    BY <1>1, <1>2, <2>1, HeadTailProperties
  <2>3. DOMAIN t = 1..n - 1
    BY <2>2, LenProperties
  <2>4. wire' = t
    BY <1>6, <2>1
  <2>5. \A i \in DOMAIN t : i + 1 \in DOMAIN wire /\ t[i] = wire[i + 1]
    BY <1>2, <1>3, <2>2, <2>3
  <2>6. \A i, j \in DOMAIN t : i <= j => t[i].rev <= t[j].rev
    <3> SUFFICES ASSUME NEW i \in DOMAIN t, NEW j \in DOMAIN t, i <= j
                 PROVE  t[i].rev <= t[j].rev
      OBVIOUS
    <3>1. i + 1 \in DOMAIN wire /\ j + 1 \in DOMAIN wire /\ i + 1 <= j + 1
      BY <1>2, <1>3, <2>3
    <3>2. wire[i + 1].rev <= wire[j + 1].rev
      BY <3>1 DEF Following, Dated
    <3> QED BY <2>5, <3>2
  <2>7. ASSUME NEW i \in DOMAIN wire
        PROVE  i = 1 \/ \E j \in DOMAIN t : t[j] = wire[i]
    <3>1. CASE i # 1
      <4>1. PICK j : j = i - 1
        OBVIOUS
      <4>2. j \in DOMAIN t /\ j + 1 = i
        BY <1>2, <1>3, <2>3, <3>1, <4>1
      <4> QED BY <2>5, <4>2
    <3> QED BY <3>1
  <2>8. \A i \in DOMAIN t : \E j \in DOMAIN wire : t[i] = wire[j]
    BY <2>5
  <2> QED BY <1>4, <2>2, <2>4, <2>6, <2>7, <2>8, ZenonT(60)
<1> QED BY <1>5, <1>6

(* An event gives the page its part, as it was when it was sent.           *)
LEMMA OnMessageKeeps ==
    ASSUME Following, phase \in {"loading", "open"}, OnMessage
    PROVE  Following'
<1>1. /\ now \in Nat /\ room \in RoomData /\ shown \in RoomData
      /\ seen \in [Parts -> Nat] /\ missed \in Nat /\ missed <= now /\ fetched \in Nat
      /\ \A p \in News : seen[p] \in Nat /\ seen[p] <= now /\ fetched <= seen[p]
  BY DEF Following, Typed, Dated, Fit, News, Parts
<1>2. UNCHANGED <<room, now, missed, fetched, call>> /\ CallsKeep
  <2>1. UNCHANGED <<room, now, missed, fetched, call>>
    BY DEF OnMessage, server
  <2> QED BY <2>1 DEF CallsKeep, Back, Following, Typed
<1>3. /\ wire # <<>>
      /\ wire' = IF Head(wire).name = "kicked" THEN <<>> ELSE Tail(wire)
  BY DEF OnMessage
<1>4. PICK e \in Event : e = Head(wire) /\ 1 \in DOMAIN wire /\ e = wire[1]
  BY <1>3, WireShrinks
<1>5. e.room \in RoomData /\ e.rev \in Nat /\ e.rev <= now
  BY <1>4 DEF Event, Following, Dated
<1>6. \A p \in News, v \in 0..now : Since(p, v) /\ e.rev >= v => Alike(p, e.room, room)
  BY <1>4 DEF Since
<1>7. /\ wire' \in Seq(Event)
      /\ \A i \in DOMAIN wire' : \E j \in DOMAIN wire : wire'[i] = wire[j]
      /\ \A i, j \in DOMAIN wire' : i <= j => wire'[i].rev <= wire'[j].rev
      /\ e.name # "kicked" =>
           \A i \in DOMAIN wire : i = 1 \/ \E j \in DOMAIN wire' : wire'[j] = wire[i]
  BY <1>3, <1>4, WireShrinks
<1> SUFFICES /\ shown' \in RoomData /\ seen' \in [Parts -> Nat]
             /\ \A p \in News : seen'[p] <= now /\ fetched <= seen'[p]
             /\ \A p \in News, v \in 0..now : Since(p, v) =>
                  /\ phase' = "open" /\ p \notin unsure' /\ seen'[p] >= v => Alike(p, shown', room)
                  /\ phase' \in {"loading", "open"} =>
                       \/ v <= missed \/ seen'[p] >= v
                       \/ \E i \in DOMAIN wire' : wire'[i].name = p /\ wire'[i].rev >= v
  <2>1. /\ UNCHANGED <<room, now>> /\ missed' \in Nat /\ missed <= missed' /\ missed' <= now
        /\ fetched' \in Nat
    BY <1>1, <1>2
  <2>2. \A p \in News : seen'[p] <= now /\ fetched' <= seen'[p]
    BY <1>2
  <2>3. \A p \in News, v \in 0..now : Since(p, v) =>
          /\ phase' = "open" /\ p \notin unsure' /\ seen'[p] >= v => Alike(p, shown', room)
          /\ phase' \in {"loading", "open"} =>
               \/ v <= missed' \/ seen'[p] >= v
               \/ \E i \in DOMAIN wire' : wire'[i].name = p /\ wire'[i].rev >= v
    BY <1>2
  <2> QED BY <1>2, <1>7, <2>1, <2>2, <2>3, PartsKeep
<1> DEFINE Gets(q) ==
             /\ e.name # "kicked" /\ GivenBut({q}, {}, e.rev) /\ phase' = phase
             /\ \A p \in News \ {q} : Alike(p, shown', shown) /\ e.name # p
             /\ phase' = "open" => Alike(q, shown', e.room)
<1>8. ASSUME NEW q \in News, Gets(q), NEW p \in News
      PROVE  /\ seen'[p] <= now /\ fetched <= seen'[p]
             /\ \A v \in 0..now : Since(p, v) =>
                  /\ phase' = "open" /\ p \notin unsure' /\ seen'[p] >= v => Alike(p, shown', room)
                  /\ phase' \in {"loading", "open"} =>
                       \/ v <= missed \/ seen'[p] >= v
                       \/ \E i \in DOMAIN wire' : wire'[i].name = p /\ wire'[i].rev >= v
  <2>1. CASE p = q
    <3>1. /\ seen'[p] >= e.rev /\ seen'[p] >= seen[p] /\ seen'[p] \in {seen[p], e.rev}
          /\ p \notin unsure' => seen'[p] = e.rev
      BY <1>1, <1>5, <1>8, <2>1, GivenParts DEF News, Parts
    <3>2. seen'[p] <= now /\ fetched <= seen'[p]
      <4>1. seen[p] \in Nat /\ seen[p] <= now /\ fetched <= seen[p]
        BY <1>1, <1>8
      <4>2. CASE seen'[p] = seen[p]
        BY <4>1, <4>2
      <4>3. CASE seen'[p] = e.rev
        BY <1>1, <1>5, <3>1, <4>1, <4>3
      <4> QED BY <3>1, <4>2, <4>3
    <3>3. ASSUME NEW v \in 0..now, Since(p, v)
          PROVE  /\ phase' = "open" /\ p \notin unsure' /\ seen'[p] >= v => Alike(p, shown', room)
                 /\ seen[p] >= v => seen'[p] >= v
                 /\ e.rev >= v => seen'[p] >= v
      <4>1. v \in Nat /\ seen[p] \in Nat /\ (e.rev >= v => Alike(p, e.room, room))
        BY <1>1, <1>6, <1>8, <3>3
      <4>2. phase' = "open" => Alike(p, shown', e.room)
        BY <1>8, <2>1
      <4> QED BY <1>5, <3>1, <3>3, <4>1, <4>2, GivenKeeps
    <3>4. ASSUME NEW v \in 0..now, Since(p, v), phase' \in {"loading", "open"}
          PROVE  \/ v <= missed \/ seen'[p] >= v
                 \/ \E i \in DOMAIN wire' : wire'[i].name = p /\ wire'[i].rev >= v
      <4>1. \/ v <= missed \/ seen[p] >= v
            \/ \E i \in DOMAIN wire : wire[i].name = p /\ wire[i].rev >= v
        BY <1>8, <3>4 DEF Since
      <4>2. CASE \E i \in DOMAIN wire : wire[i].name = p /\ wire[i].rev >= v
        BY <1>4, <1>7, <1>8, <3>3, <3>4, <4>2
      <4> QED BY <3>3, <3>4, <4>1, <4>2
    <3> QED BY <3>2, <3>3, <3>4
  <2>2. CASE p # q
    <3>1. seen'[p] = seen[p] /\ (p \in unsure' <=> p \in unsure) /\ Alike(p, shown', shown) /\ e.name # p
      BY <1>1, <1>5, <1>8, <2>2, GivenParts DEF News, Parts
    <3>2. ASSUME NEW v \in 0..now, Since(p, v)
          PROVE  phase' = "open" /\ p \notin unsure' /\ seen'[p] >= v => Alike(p, shown', room)
      BY <1>8, <3>1, <3>2, AlikeParts DEF Since
    <3>3. ASSUME NEW v \in 0..now, Since(p, v), phase' \in {"loading", "open"}
          PROVE  \/ v <= missed \/ seen'[p] >= v
                 \/ \E i \in DOMAIN wire' : wire'[i].name = p /\ wire'[i].rev >= v
      <4>1. \/ v <= missed \/ seen[p] >= v
            \/ \E i \in DOMAIN wire : wire[i].name = p /\ wire[i].rev >= v
        BY <1>8, <3>3 DEF Since
      <4> QED BY <1>4, <1>7, <1>8, <3>1, <4>1
    <3> QED BY <1>1, <3>1, <3>2, <3>3
  <2> QED BY <2>1, <2>2
<1> HIDE DEF Gets
<1>9. CASE e.name = "queue"
  <2>1. shown' = WithQueue(e.room) /\ Given({"queue"}, e.rev) /\ phase' = phase
    BY <1>4, <1>9 DEF OnMessage
  <2>2. /\ shown' \in RoomData /\ shown'.song = shown.song /\ shown'.everyone = shown.everyone
        /\ shown'.queue = e.room.queue
    BY <1>1, <1>5, <2>1 DEF WithQueue, RoomData
  <2>3. Gets("queue")
    BY <1>9, <2>1, <2>2 DEF Gets, Given, Alike, News
  <2>4. seen' \in [Parts -> Nat]
    BY <1>1, <1>5, <2>1, GivenParts DEF Given
  <2>5. "queue" \in News
    BY DEF News
  <2> QED BY <1>8, <2>2, <2>3, <2>4, <2>5
<1>10. CASE e.name = "state"
  <2>1. /\ Given({"state"}, e.rev) /\ phase' = phase
        /\ shown' = IF phase = "open" THEN WithState(e.room) ELSE shown
    BY <1>4, <1>10 DEF OnMessage
  <2>2. /\ shown' \in RoomData /\ shown'.queue = shown.queue
        /\ phase = "open" => shown'.song = e.room.song /\ shown'.everyone = e.room.everyone
    BY <1>1, <1>5, <2>1 DEF WithState, RoomData
  <2>3. Gets("state")
    BY <1>10, <2>1, <2>2 DEF Gets, Given, Alike, News
  <2>4. seen' \in [Parts -> Nat]
    BY <1>1, <1>5, <2>1, GivenParts DEF Given
  <2>5. "state" \in News
    BY DEF News
  <2> QED BY <1>8, <2>2, <2>3, <2>4, <2>5
<1>11. CASE e.name \in {"play", "pause", "seek"}
  <2>1. /\ UNCHANGED <<phase, shown>>
        /\ GivenBut({"deck"}, IF ready /\ SeeksAstray(e) THEN {"deck"} ELSE {}, e.rev)
    BY <1>4, <1>11 DEF OnMessage, page
  <2>2. /\ seen' \in [Parts -> Nat]
        /\ \A p \in News : seen'[p] = seen[p] /\ (p \in unsure' <=> p \in unsure)
    BY <1>1, <1>5, <2>1, DeckKeeps
  <2>3. ASSUME NEW p \in News, NEW v \in 0..now, Since(p, v)
        PROVE  /\ phase' = "open" /\ p \notin unsure' /\ seen'[p] >= v => Alike(p, shown', room)
               /\ phase' \in {"loading", "open"} =>
                    \/ v <= missed \/ seen'[p] >= v
                    \/ \E i \in DOMAIN wire' : wire'[i].name = p /\ wire'[i].rev >= v
    <3>1. e.name # p /\ e.name # "kicked"
      BY <1>11, <2>3 DEF News
    <3> QED BY <1>4, <1>7, <2>1, <2>2, <2>3, <3>1, SMTT(30) DEF Since
  <2> QED BY <1>1, <2>1, <2>2, <2>3
<1>12. CASE e.name = "kicked"
  <2>1. phase' = "kicked" /\ UNCHANGED <<shown, seen>>
    BY <1>4, <1>12 DEF OnMessage
  <2> QED BY <1>1, <2>1
<1> QED BY <1>4, <1>9, <1>10, <1>11, <1>12 DEF Event, Names

(* An answer gives the page a part as it was, or leaves the part alone.    *)
LEMMA OnAnswerKeeps ==
    ASSUME Following, phase \in {"loading", "open"}, NEW k \in Call, OnAnswer(k)
    PROVE  Following'
<1>1. /\ now \in Nat /\ room \in RoomData /\ shown \in RoomData /\ wire \in Seq(Event)
      /\ seen \in [Parts -> Nat] /\ missed \in Nat /\ missed <= now /\ fetched \in Nat
      /\ \A p \in News : seen[p] \in Nat /\ seen[p] <= now /\ fetched <= seen[p]
  BY DEF Following, Typed, Dated, Fit, News, Parts
<1>2. UNCHANGED <<room, now, wire, missed>>
  BY DEF OnAnswer, Stays, server
<1>3. CallsKeep
  <2>1. call' = [call EXCEPT ![k] = NoCall] /\ call = [j \in Call |-> call[j]]
    BY DEF OnAnswer, Following, Typed
  <2> QED BY <2>1 DEF CallsKeep, Back, NoCall
<1>4. PICK c : c = call[k]
  OBVIOUS
<1>5. c.room \in RoomData /\ c.rev \in Nat /\ c.rev <= now
  BY <1>4 DEF OnAnswer, Back, Following, Typed, Dated
<1>6. \A p \in News, v \in 0..now : Since(p, v) /\ c.rev >= v => Alike(p, c.room, room)
  BY <1>4 DEF OnAnswer, Back, Since
<1> DEFINE Fair(p) ==
             \A v \in 0..now : Since(p, v) =>
               /\ phase' = "open" /\ p \notin unsure' /\ seen'[p] >= v => Alike(p, shown', room)
               /\ seen[p] >= v => seen'[p] >= v
<1> SUFFICES /\ shown' \in RoomData /\ seen' \in [Parts -> Nat] /\ fetched' \in Nat
             /\ \A p \in News : seen'[p] <= now /\ fetched' <= seen'[p] /\ Fair(p)
  <2>1. /\ UNCHANGED <<room, now>> /\ missed' \in Nat /\ missed <= missed' /\ missed' <= now
        /\ wire' \in Seq(Event)
        /\ \A i \in DOMAIN wire' : \E j \in DOMAIN wire : wire'[i] = wire[j]
    BY <1>1, <1>2
  <2>2. \A i, j \in DOMAIN wire' : i <= j => wire'[i].rev <= wire'[j].rev
    BY <1>2 DEF Following, Dated
  <2>3. ASSUME NEW p \in News, NEW v \in 0..now, Since(p, v), Fair(p)
        PROVE  /\ phase' = "open" /\ p \notin unsure' /\ seen'[p] >= v => Alike(p, shown', room)
               /\ phase' \in {"loading", "open"} =>
                    \/ v <= missed' \/ seen'[p] >= v
                    \/ \E i \in DOMAIN wire' : wire'[i].name = p /\ wire'[i].rev >= v
    BY <1>2, <2>3 DEF Since
  <2> QED BY <1>3, <2>1, <2>2, <2>3, PartsKeep
<1>7. ASSUME NEW p \in News, seen'[p] >= c.rev, seen'[p] >= seen[p], seen'[p] \in {seen[p], c.rev},
             p \notin unsure' => seen'[p] = c.rev, phase' = "open" => Alike(p, shown', c.room)
      PROVE  Fair(p) /\ seen'[p] <= now /\ fetched <= seen'[p]
  <2>1. ASSUME NEW v \in 0..now, Since(p, v)
        PROVE  /\ phase' = "open" /\ p \notin unsure' /\ seen'[p] >= v => Alike(p, shown', room)
               /\ seen[p] >= v => seen'[p] >= v
    <3>1. v \in Nat /\ seen[p] \in Nat /\ (c.rev >= v => Alike(p, c.room, room))
      BY <1>1, <1>6, <1>7, <2>1
    <3> QED BY <1>5, <1>7, <2>1, <3>1, GivenKeeps
  <2> QED BY <1>1, <1>5, <1>7, <2>1
<1>8. ASSUME NEW p \in News, seen'[p] = seen[p], p \notin unsure' => p \notin unsure,
             Alike(p, shown', shown), phase' = "open" => phase = "open"
      PROVE  Fair(p) /\ seen'[p] <= now /\ fetched <= seen'[p]
  <2>1. ASSUME NEW v \in 0..now, Since(p, v)
        PROVE  phase' = "open" /\ p \notin unsure' /\ seen'[p] >= v => Alike(p, shown', room)
    BY <1>8, <2>1, AlikeParts DEF Since
  <2> QED BY <1>1, <1>8, <2>1
<1> HIDE DEF Fair
<1>9. CASE c.kind = "load"
  <2>1. /\ shown' = c.room /\ phase' = "open"
        /\ fetched' = IF c.rev > fetched THEN c.rev ELSE fetched
        /\ Given(Parts, c.rev) \/ Given({"state", "queue"}, c.rev)
    BY <1>4, <1>9 DEF OnAnswer, Loaded
  <2>2. PICK parts : parts \in {Parts, {"state", "queue"}} /\ GivenBut(parts, {}, c.rev)
    BY <2>1 DEF Given
  <2>3. /\ seen' \in [Parts -> Nat]
        /\ \A p \in Parts \cap parts :
             /\ seen'[p] >= c.rev /\ seen'[p] >= seen[p] /\ seen'[p] \in {seen[p], c.rev}
             /\ p \notin unsure' => seen'[p] = c.rev
    BY <1>1, <1>5, <2>2, GivenParts
  <2>4. ASSUME NEW p \in News
        PROVE  Fair(p) /\ seen'[p] <= now /\ fetched <= seen'[p] /\ seen'[p] >= c.rev
    <3>1. /\ seen'[p] >= c.rev /\ seen'[p] >= seen[p] /\ seen'[p] \in {seen[p], c.rev}
          /\ p \notin unsure' => seen'[p] = c.rev
      BY <2>2, <2>3, <2>4 DEF News, Parts
    <3>2. Alike(p, shown', c.room)
      BY <2>1, AlikeParts
    <3> QED BY <1>7, <2>4, <3>1, <3>2
  <2> QED BY <1>1, <1>5, <2>1, <2>3, <2>4
<1>10. CASE c.kind \in {"playNow", "control"}
  <2>1. shown' = WithState(c.room) /\ Given({"state"}, c.rev) /\ UNCHANGED <<phase, fetched>>
    BY <1>4, <1>10 DEF OnAnswer
  <2>2. /\ shown' \in RoomData /\ shown'.queue = shown.queue
        /\ shown'.song = c.room.song /\ shown'.everyone = c.room.everyone
    BY <1>1, <1>5, <2>1 DEF WithState, RoomData
  <2>3. /\ seen' \in [Parts -> Nat]
        /\ seen'["state"] >= c.rev /\ seen'["state"] >= seen["state"]
        /\ seen'["state"] \in {seen["state"], c.rev}
        /\ "state" \notin unsure' => seen'["state"] = c.rev
        /\ seen'["queue"] = seen["queue"] /\ ("queue" \in unsure' <=> "queue" \in unsure)
    BY <1>1, <1>5, <2>1, GivenParts DEF Given, Parts
  <2>4. Alike("state", shown', c.room) /\ Alike("queue", shown', shown)
    BY <2>2 DEF Alike
  <2>5. "state" \in News /\ "queue" \in News /\ \A p \in News : p = "state" \/ p = "queue"
    BY DEF News
  <2>6. Fair("state") /\ seen'["state"] <= now /\ fetched <= seen'["state"]
    BY <1>7, <2>3, <2>4, <2>5
  <2>7. Fair("queue") /\ seen'["queue"] <= now /\ fetched <= seen'["queue"]
    BY <1>8, <2>1, <2>3, <2>4, <2>5
  <2> QED BY <1>1, <2>1, <2>2, <2>3, <2>5, <2>6, <2>7
<1>11. CASE c.kind = "queue"
  <2>1. shown' = WithQueue(c.room) /\ Given({"queue"}, c.rev) /\ UNCHANGED <<phase, fetched>>
    BY <1>4, <1>11 DEF OnAnswer
  <2>2. /\ shown' \in RoomData /\ shown'.queue = c.room.queue
        /\ shown'.song = shown.song /\ shown'.everyone = shown.everyone
    BY <1>1, <1>5, <2>1 DEF WithQueue, RoomData
  <2>3. /\ seen' \in [Parts -> Nat]
        /\ seen'["queue"] >= c.rev /\ seen'["queue"] >= seen["queue"]
        /\ seen'["queue"] \in {seen["queue"], c.rev}
        /\ "queue" \notin unsure' => seen'["queue"] = c.rev
        /\ seen'["state"] = seen["state"] /\ ("state" \in unsure' <=> "state" \in unsure)
    BY <1>1, <1>5, <2>1, GivenParts, SMTT(30) DEF Given, Parts
  <2>4. Alike("queue", shown', c.room) /\ Alike("state", shown', shown)
    BY <2>2 DEF Alike
  <2>5. "state" \in News /\ "queue" \in News /\ \A p \in News : p = "state" \/ p = "queue"
    BY DEF News
  <2>6. Fair("queue") /\ seen'["queue"] <= now /\ fetched <= seen'["queue"]
    BY <1>7, <2>3, <2>4, <2>5
  <2>7. Fair("state") /\ seen'["state"] <= now /\ fetched <= seen'["state"]
    BY <1>8, <2>1, <2>3, <2>4, <2>5
  <2> QED BY <1>1, <2>1, <2>2, <2>3, <2>5, <2>6, <2>7
<1>12. CASE c.kind = "next"
  <2>1. PICK left \in Remaining(c.room) : shown' = [WithState(c.room) EXCEPT !.queue = left]
    BY <1>4, <1>12 DEF OnAnswer
  <2>2. /\ seen' = [seen EXCEPT !["state"] = IF c.rev > @ THEN c.rev ELSE @]
        /\ unsure' = (IF c.rev < seen["state"] THEN unsure \cup {"state"} ELSE unsure \ {"state"})
                       \cup (IF FiltersAstray(c.room, c.rev) THEN {"queue"} ELSE {})
        /\ UNCHANGED <<phase, fetched>>
    BY <1>4, <1>12 DEF OnAnswer
  <2>3. left \in Seq(Item)
    BY <1>1, <2>1, RemainingTyped
  <2>4. /\ shown' \in RoomData /\ shown'.queue = left
        /\ shown'.song = c.room.song /\ shown'.everyone = c.room.everyone
    BY <1>1, <1>5, <2>1, <2>3 DEF WithState, RoomData
  <2>5. /\ seen' \in [Parts -> Nat]
        /\ seen'["state"] >= c.rev /\ seen'["state"] >= seen["state"]
        /\ seen'["state"] \in {seen["state"], c.rev}
        /\ "state" \notin unsure' => seen'["state"] = c.rev
        /\ seen'["queue"] = seen["queue"]
        /\ "queue" \notin unsure' => "queue" \notin unsure /\ ~FiltersAstray(c.room, c.rev)
    BY <1>1, <1>5, <2>2 DEF Parts
  <2>6. "state" \in News /\ "queue" \in News /\ \A p \in News : p = "state" \/ p = "queue"
    BY DEF News
  <2>7. Alike("state", shown', c.room)
    BY <2>4 DEF Alike
  <2>8. Fair("state") /\ seen'["state"] <= now /\ fetched <= seen'["state"]
    BY <1>7, <2>5, <2>6, <2>7
  <2>9. ASSUME NEW v \in 0..now, Since("queue", v),
               phase' = "open", "queue" \notin unsure', seen["queue"] >= v
        PROVE  Alike("queue", shown', room)
    <3>1. ~Queued(c.room, c.room.song) /\ c.rev >= seen["queue"]
      BY <1>1, <1>5, <2>5, <2>6, <2>9 DEF FiltersAstray
    <3>2. c.room.queue = room.queue
      <4>1. c.rev >= v
        BY <1>1, <1>5, <2>6, <2>9, <3>1
      <4> QED BY <1>6, <2>6, <2>9, <4>1 DEF Alike
    <3>3. shown.queue = room.queue
      BY <2>2, <2>5, <2>9 DEF Since, Alike
    <3>4. ~Queued(shown, c.room.song)
      BY <3>1, <3>2, <3>3 DEF Queued
    <3>5. left = shown.queue
      BY <1>1, <2>1, <3>4, RemainingAll
    <3> QED BY <2>4, <3>3, <3>5 DEF Alike
  <2>10. Fair("queue") /\ seen'["queue"] <= now /\ fetched <= seen'["queue"]
    BY <1>1, <2>5, <2>6, <2>9 DEF Fair
  <2> QED BY <1>1, <2>2, <2>4, <2>5, <2>6, <2>8, <2>10
<1> QED BY <1>4, <1>9, <1>10, <1>11, <1>12 DEF OnAnswer

-----------------------------------------------------------------------------
(* The socket and what is sent.                                            *)

Message == [action : {"play", "pause", "seek"}, pos : Nat]

(* Events are only on their way to a page that is attached.                *)
Linked ==
    /\ now <= MaxClock /\ me \in User
    /\ link \in {"down", "open", "attached"} /\ opened \in BOOLEAN
    /\ losses \in 0..MaxLosses
    /\ sent \in Seq(Message)
    /\ link # "attached" => wire = <<>>

(* What is lost with the connection, or was before, is noted as missed.    *)
LEMMA LossNoted ==
    ASSUME Following, Linked, Disconnected
    PROVE  /\ missed' \in Nat /\ missed <= missed' /\ missed' <= now
           /\ \A i \in DOMAIN wire : wire[i].rev \in Nat /\ wire[i].rev <= missed'
<1>1. /\ now \in Nat /\ wire \in Seq(Event) /\ missed \in Nat /\ missed <= now
      /\ missed' = IF wire # <<>> /\ Last(wire).rev > missed THEN Last(wire).rev ELSE missed
  BY DEF Following, Typed, Dated, Disconnected
<1>2. CASE wire = <<>>
  BY <1>1, <1>2
<1>3. CASE wire # <<>>
  <2>1. PICK n \in Nat \ {0} : n = Len(wire)
    BY <1>1, <1>3, EmptySeq
  <2>2. DOMAIN wire = 1..n /\ n \in DOMAIN wire
    BY <1>1, <2>1, LenProperties
  <2>3. \A i \in DOMAIN wire : wire[i] \in Event
    BY <1>1, <2>2, ElementOfSeq
  <2>4. \A i \in DOMAIN wire : wire[i].rev \in Nat
    BY <2>3 DEF Event
  <2>5. missed' = IF wire[n].rev > missed THEN wire[n].rev ELSE missed
    BY <1>1, <1>3, <2>1 DEF Last
  <2>6. \A i \in DOMAIN wire : wire[i].rev <= wire[n].rev
    BY <2>1, <2>2 DEF Following, Dated
  <2>7. wire[n].rev \in Nat /\ wire[n].rev <= now
    BY <2>2, <2>4 DEF Following, Dated
  <2>8. missed' \in Nat /\ missed <= missed' /\ missed' <= now /\ wire[n].rev <= missed'
    BY <1>1, <2>5, <2>7
  <2> QED BY <2>4, <2>6, <2>7, <2>8
<1> QED BY <1>2, <1>3

(* The connection goes, and all that was on its way to the page.           *)
LEMMA DisconnectedKeeps ==
    ASSUME Following, Linked, Disconnected
    PROVE  Following' /\ Linked'
<1>1. /\ now \in Nat /\ wire \in Seq(Event) /\ shown \in RoomData
      /\ seen \in [Parts -> Nat] /\ missed \in Nat /\ missed <= now /\ fetched \in Nat
      /\ \A p \in News : seen[p] \in Nat /\ seen[p] <= now /\ fetched <= seen[p]
  BY DEF Following, Typed, Dated, News, Parts
<1>2. /\ UNCHANGED <<room, now, me, call, phase, shown, fetched, opened>>
      /\ wire' = <<>> /\ sent' = <<>> /\ link' = "down" /\ losses' = losses + 1 /\ losses < MaxLosses
  BY DEF Disconnected, server, page
<1>3. /\ seen' \in [Parts -> Nat]
      /\ \A p \in News : seen'[p] = seen[p] /\ (p \in unsure' <=> p \in unsure)
  <2>1. Doubt({"deck"}) \/ UNCHANGED <<seen, unsure>>
    BY DEF Disconnected
  <2>2. {} \in SUBSET {"deck"} /\ 0 \in Int
    OBVIOUS
  <2> QED BY <1>1, <2>1, <2>2, DeckKeeps
<1>4. DOMAIN wire' = {} /\ wire' \in Seq(Event) /\ sent' \in Seq(Message)
  BY <1>2
<1>5. CallsKeep
  BY <1>2 DEF CallsKeep, Back, Following, Typed
<1>6. /\ missed' \in Nat /\ missed <= missed' /\ missed' <= now
      /\ \A i \in DOMAIN wire : wire[i].rev \in Nat /\ wire[i].rev <= missed'
  BY LossNoted
<1>7. ASSUME NEW p \in News, NEW v \in 0..now, Since(p, v)
      PROVE  /\ phase' = "open" /\ p \notin unsure' /\ seen'[p] >= v => Alike(p, shown', room)
             /\ phase' \in {"loading", "open"} =>
                  \/ v <= missed' \/ seen'[p] >= v
                  \/ \E i \in DOMAIN wire' : wire'[i].name = p /\ wire'[i].rev >= v
  <2>1. phase' = "open" /\ p \notin unsure' /\ seen'[p] >= v => Alike(p, shown', room)
    BY <1>2, <1>3, <1>7 DEF Since
  <2>2. \A i \in DOMAIN wire : wire[i].rev >= v => v <= missed'
    BY <1>6, <1>7
  <2>3. v <= missed => v <= missed'
    BY <1>1, <1>6, <1>7
  <2> QED BY <1>2, <1>3, <1>7, <2>1, <2>2, <2>3 DEF Since
<1>8. Following'
  <2>1. /\ UNCHANGED <<room, now>> /\ fetched' \in Nat /\ shown' \in RoomData
        /\ \A p \in News : seen'[p] <= now /\ fetched' <= seen'[p]
    BY <1>1, <1>2, <1>3
  <2>2. /\ \A i \in DOMAIN wire' : \E j \in DOMAIN wire : wire'[i] = wire[j]
        /\ \A i, j \in DOMAIN wire' : i <= j => wire'[i].rev <= wire'[j].rev
    BY <1>4
  <2> QED BY <1>3, <1>4, <1>5, <1>6, <1>7, <2>1, <2>2, PartsKeep
<1>9. Linked'
  BY <1>2, <1>4, PageAssumption DEF Linked
<1> QED BY <1>8, <1>9

(* A change keeps the wire in order.                                       *)
LEMMA ChangeLinked ==
    ASSUME Following, Linked, NEW new \in RoomData, NEW events \in Seq(Names),
           Change(new, events), sent' \in Seq(Message)
    PROVE  Linked'
<1>1. now \in Nat /\ now < MaxClock /\ now' = now + 1 /\ UNCHANGED <<me, link, opened>>
  BY DEF Following, Typed, Change
<1>2. losses' \in 0..MaxLosses
  <2>1. losses' \in {losses, losses + 1} /\ losses' <= MaxLosses
    BY DEF Change
  <2> QED BY <2>1, PageAssumption DEF Linked
<1>3. link # "attached" => wire' = <<>>
  BY DEF Change, Linked
<1> QED BY <1>1, <1>2, <1>3, PageAssumption DEF Linked

-----------------------------------------------------------------------------
(* The server.                                                             *)

(* A change that says which parts of the room it has touched.              *)
Legal(new, events) ==
    /\ Fit(new, now + 1, TRUE) /\ events \in Seq(Names)
    /\ \A p \in News : Alike(p, new, room) \/ \E i \in DOMAIN events : events[i] = p

(* Every operation of the server says which parts it has touched.          *)
LEMMA OpsLegal ==
    ASSUME Following
    PROVE  /\ \A song \in Song : CanAdd(room, song) => Legal(Add(room, song), <<"queue">>)
           /\ room.queue # <<>> => Legal(Advance(room, now + 1), <<"state", "queue">>)
           /\ \A song \in Song : Legal(PlayNow(room, song, now + 1), <<"state">>)
           /\ \A everyone \in BOOLEAN : Legal(Control(room, everyone), <<"state">>)
           /\ \A action \in {"play", "pause", "seek"}, pos \in Int :
                Legal(Playback(room, action, pos, now + 1), <<action>>)
           /\ \A target \in User : CanRemove(Host, target) =>
                Legal(RemoveUser(room, target), <<"kicked">>)
<1>1. /\ now \in Nat /\ now + 1 \in Nat /\ Fit(room, now, TRUE) /\ room \in RoomData
  BY DEF Following, Typed, Fit
<1>2. PICK t \in Nat : t = now + 1
  BY <1>1
<1>3. Fit(room, t, TRUE)
  <2>1. now <= t /\ TRUE \in BOOLEAN /\ (TRUE => TRUE)
    BY <1>1, <1>2
  <2> QED BY <1>1, <2>1, FitLater
<1>4. /\ <<"queue">> \in Seq(Names) /\ 1 \in DOMAIN <<"queue">> /\ <<"queue">>[1] = "queue"
      /\ <<"state">> \in Seq(Names) /\ 1 \in DOMAIN <<"state">> /\ <<"state">>[1] = "state"
      /\ <<"kicked">> \in Seq(Names)
  BY DEF Names
<1>5. /\ <<"state", "queue">> \in Seq(Names)
      /\ 1 \in DOMAIN <<"state", "queue">> /\ <<"state", "queue">>[1] = "state"
      /\ 2 \in DOMAIN <<"state", "queue">> /\ <<"state", "queue">>[2] = "queue"
  BY DEF Names
<1>6. \A p \in News : p = "state" \/ p = "queue"
  BY DEF News
<1>7. ASSUME NEW song \in Song, CanAdd(room, song)
      PROVE  Legal(Add(room, song), <<"queue">>)
  <2>1. Fit(Add(room, song), t, TRUE)
    BY <1>3, <1>7, QueueOpsFit
  <2>2. Alike("state", Add(room, song), room)
    BY <1>1 DEF Alike, Add, RoomData
  <2> QED BY <1>2, <1>4, <1>6, <2>1, <2>2 DEF Legal
<1>8. ASSUME room.queue # <<>>
      PROVE  Legal(Advance(room, now + 1), <<"state", "queue">>)
  <2>1. Fit(Advance(room, t), t, TRUE)
    BY <1>3, <1>8, PlaybackOpsFit
  <2> QED BY <1>2, <1>5, <1>6, <2>1 DEF Legal
<1>9. ASSUME NEW song \in Song
      PROVE  Legal(PlayNow(room, song, now + 1), <<"state">>)
  <2>1. Fit(PlayNow(room, song, t), t, TRUE)
    BY <1>3, <1>9, PlaybackOpsFit
  <2>2. Alike("queue", PlayNow(room, song, t), room)
    BY <1>1 DEF Alike, PlayNow, Start, RoomData
  <2> QED BY <1>2, <1>4, <1>6, <2>1, <2>2 DEF Legal
<1>10. ASSUME NEW everyone \in BOOLEAN
       PROVE  Legal(Control(room, everyone), <<"state">>)
  <2>1. Fit(Control(room, everyone), t, TRUE \/ everyone)
    BY <1>3, <1>10, PlaybackOpsFit
  <2>2. (TRUE \/ everyone) = TRUE
    OBVIOUS
  <2>3. Alike("queue", Control(room, everyone), room)
    BY <1>1 DEF Alike, Control, RoomData
  <2> QED BY <1>2, <1>4, <1>6, <2>1, <2>2, <2>3 DEF Legal
<1>11. ASSUME NEW action \in {"play", "pause", "seek"}, NEW pos \in Int
       PROVE  Legal(Playback(room, action, pos, now + 1), <<action>>)
  <2>1. Fit(Playback(room, action, pos, t), t, TRUE)
    BY <1>3, <1>11, PlaybackOpsFit
  <2>2. \A p \in News : Alike(p, Playback(room, action, pos, t), room)
    BY <1>1 DEF Alike, Playback, RoomData
  <2>3. <<action>> \in Seq(Names)
    BY <1>11 DEF Names
  <2> QED BY <1>2, <2>1, <2>2, <2>3 DEF Legal
<1>12. ASSUME NEW target \in User, CanRemove(Host, target)
       PROVE  Legal(RemoveUser(room, target), <<"kicked">>)
  <2>1. Fit(RemoveUser(room, target), t, TRUE)
    BY <1>3, <1>12, PeopleOpsFit
  <2>2. \A p \in News : Alike(p, RemoveUser(room, target), room)
    BY <1>1 DEF Alike, RemoveUser, RoomData
  <2> QED BY <1>2, <1>4, <2>1, <2>2 DEF Legal
<1> QED BY <1>7, <1>8, <1>9, <1>10, <1>11, <1>12

(* ... and so keeps the page informed.                                     *)
LEMMA LegalKeeps ==
    ASSUME Following, Linked, NEW new, NEW events, Legal(new, events), Change(new, events),
           PageKeeps, phase' = phase, CallsKeep, sent' \in Seq(Message)
    PROVE  Following' /\ Linked'
<1>1. /\ Fit(new, now + 1, TRUE) /\ new \in RoomData /\ events \in Seq(Names)
      /\ \A p \in News : Alike(p, new, room) \/ \E i \in DOMAIN events : events[i] = p
  BY DEF Legal, Fit
<1>2. Following'
  BY <1>1, ChangeKeeps
<1>3. Linked'
  BY <1>1, ChangeLinked
<1> QED BY <1>2, <1>3

(* A step of the page alone keeps it informed.                             *)
LEMMA StaysKeeps ==
    ASSUME Following, Linked, Stays, PageKeeps, CallsKeep, sent' \in Seq(Message)
    PROVE  Following' /\ Linked'
<1>1. UNCHANGED <<room, now, wire, missed, me, link, opened, losses>>
  BY DEF Stays, server
<1>2. Following'
  BY <1>1, RestKeeps
<1>3. Linked'
  BY <1>1 DEF Linked
<1> QED BY <1>2, <1>3

(* A step that leaves the page and its calls alone.                        *)
LEMMA PageRests ==
    ASSUME Following, UNCHANGED <<page, fetched>>,
           UNCHANGED <<seen, unsure>> \/ Doubt({"deck"})
    PROVE  PageKeeps /\ phase' = phase
<1>1. seen \in [Parts -> Nat] /\ 0 \in Int /\ {} \in SUBSET {"deck"}
  BY DEF Following, Typed
<1>2. /\ seen' \in [Parts -> Nat]
      /\ \A p \in News : seen'[p] = seen[p] /\ (p \in unsure' <=> p \in unsure)
  BY <1>1, DeckKeeps
<1> QED BY <1>2 DEF PageKeeps, page

(* Calls that are left alone keep what they hold.                          *)
LEMMA CallsRest ==
    ASSUME Following, UNCHANGED call
    PROVE  CallsKeep
BY DEF Following, Typed, CallsKeep, Back

(* What other people do reaches the page, or is noted as missed.           *)
LEMMA OtherChangeKeeps ==
    ASSUME Following, Linked, OtherChange
    PROVE  Following' /\ Linked'
<1>1. PageKeeps /\ phase' = phase /\ CallsKeep /\ sent' \in Seq(Message)
  <2>1. UNCHANGED <<sent, call, page, player, seen, unsure, fetched>>
    BY DEF OtherChange
  <2> QED BY <2>1, PageRests, CallsRest DEF Linked
<1>2. PICK user \in User \ {me} :
         \/ \E song \in Song :
              CanAdd(room, song) /\ Change(Add(room, song), <<"queue">>)
         \/ /\ \E after \in {NoSong, room.song} : CanNext(room, user, after, now)
            /\ Change(Advance(room, now + 1), <<"state", "queue">>)
         \/ \E song \in Song :
              MayControl(room, user) /\ Change(PlayNow(room, song, now + 1), <<"state">>)
         \/ /\ user = Host
            /\ \E everyone \in BOOLEAN : Change(Control(room, everyone), <<"state">>)
         \/ \E action \in {"play", "pause", "seek"}, pos \in Pos :
              /\ MayControl(room, user)
              /\ Change(Playback(room, action, pos, now + 1), <<action>>)
         \/ CanRemove(user, me) /\ Change(RemoveUser(room, me), <<"kicked">>)
  BY DEF OtherChange
<1>3. CASE \E song \in Song : CanAdd(room, song) /\ Change(Add(room, song), <<"queue">>)
  BY <1>1, <1>3, OpsLegal, LegalKeeps
<1>4. CASE /\ \E after \in {NoSong, room.song} : CanNext(room, user, after, now)
           /\ Change(Advance(room, now + 1), <<"state", "queue">>)
  <2>1. room.queue # <<>>
    BY <1>4 DEF CanNext
  <2> QED BY <1>1, <1>4, <2>1, OpsLegal, LegalKeeps
<1>5. CASE \E song \in Song :
             MayControl(room, user) /\ Change(PlayNow(room, song, now + 1), <<"state">>)
  BY <1>1, <1>5, OpsLegal, LegalKeeps
<1>6. CASE user = Host /\ \E everyone \in BOOLEAN : Change(Control(room, everyone), <<"state">>)
  BY <1>1, <1>6, OpsLegal, LegalKeeps
<1>7. CASE \E action \in {"play", "pause", "seek"}, pos \in Pos :
             /\ MayControl(room, user)
             /\ Change(Playback(room, action, pos, now + 1), <<action>>)
  BY <1>1, <1>7, OpsLegal, LegalKeeps
<1>8. CASE CanRemove(user, me) /\ Change(RemoveUser(room, me), <<"kicked">>)
  <2>1. CanRemove(Host, me) /\ me \in User
    BY <1>8 DEF CanRemove, Linked
  <2> QED BY <1>1, <1>8, <2>1, OpsLegal, LegalKeeps
<1> QED BY <1>2, <1>3, <1>4, <1>5, <1>6, <1>7, <1>8

(* What the user told the room reaches the page again.                     *)
LEMMA HandlePlaybackKeeps ==
    ASSUME Following, Linked, HandlePlayback
    PROVE  Following' /\ Linked'
<1>1. UNCHANGED <<call, page, player, fetched>> /\ sent # <<>> /\ sent' = Tail(sent)
  BY DEF HandlePlayback
<1>2. sent' \in Seq(Message) /\ Head(sent) \in Message
  BY <1>1, HeadTailProperties DEF Linked
<1>3. CASE MayControl(room, me)
  <2>1. PICK action \in {"play", "pause", "seek"}, pos \in Nat :
          action = Head(sent).action /\ pos = Head(sent).pos
    BY <1>2 DEF Message
  <2>2. /\ Change(Playback(room, action, pos, now + 1), <<action>>)
        /\ UNCHANGED <<seen, unsure>>
    BY <1>3, <2>1 DEF HandlePlayback
  <2>3. PageKeeps /\ phase' = phase /\ CallsKeep
    BY <1>1, <2>2, PageRests, CallsRest
  <2>4. Legal(Playback(room, action, pos, now + 1), <<action>>)
    <3>1. pos \in Int
      OBVIOUS
    <3> QED BY <3>1, OpsLegal
  <2> QED BY <1>2, <2>2, <2>3, <2>4, LegalKeeps
<1>4. CASE ~MayControl(room, me)
  <2>1. Stays /\ Doubt({"deck"})
    BY <1>4 DEF HandlePlayback
  <2> QED BY <1>1, <1>2, <2>1, PageRests, CallsRest, StaysKeeps
<1> QED BY <1>3, <1>4

(* What happens to one call.                                               *)
LEMMA CallChanges ==
    ASSUME Following, NEW k \in Call
    PROVE  /\ \A c : call' = [call EXCEPT ![k] = c] /\ (c.kind = "none" \/ c.phase = "sent") => CallsKeep
           /\ Answered(k, room', now') => CallsKeep
           /\ call' = [call EXCEPT ![k] = NoCall] => CallsKeep
           /\ \A c : Request(k, c) /\ c.phase = "sent" => CallsKeep
<1>1. call = [j \in Call |-> call[j]]
  BY DEF Following, Typed
<1>2. ASSUME NEW c, call' = [call EXCEPT ![k] = c], c.kind = "none" \/ c.phase = "sent"
      PROVE  CallsKeep
  <2>1. call' = [j \in Call |-> call'[j]] /\ call'[k] = c /\ \A j \in Call : j # k => call'[j] = call[j]
    BY <1>1, <1>2
  <2> QED BY <1>2, <2>1 DEF CallsKeep, Back
<1>3. ASSUME Answered(k, room', now')
      PROVE  CallsKeep
  <2>1. /\ call' = [j \in Call |-> call'[j]] /\ call'[k] = Answer(call[k], room', now')
        /\ \A j \in Call : j # k => call'[j] = call[j]
    BY <1>1, <1>3 DEF Answered
  <2>2. call'[k].room = room' /\ call'[k].rev = now'
    BY <2>1 DEF Answer
  <2> QED BY <2>1, <2>2 DEF CallsKeep, Back
<1>4. NoCall.kind = "none"
  BY DEF NoCall
<1> QED BY <1>2, <1>3, <1>4 DEF Request

(* The server handles a call.                                              *)
LEMMA HandleKeeps ==
    ASSUME Following, Linked, NEW k \in Call, Handle(k)
    PROVE  Following' /\ Linked'
<1>1. PageKeeps /\ phase' = phase /\ sent' \in Seq(Message)
  <2>1. UNCHANGED <<sent, page, player, seen, unsure, fetched>>
    BY DEF Handle
  <2> QED BY <2>1, PageRests DEF Linked
<1>2. ASSUME NEW new, NEW events, Legal(new, events), Does(k, new, events)
      PROVE  Following' /\ Linked'
  <2>1. Change(new, events) /\ Answered(k, room', now')
    BY <1>2 DEF Does, Change
  <2> QED BY <1>1, <1>2, <2>1, CallChanges, LegalKeeps
<1>3. ASSUME Tells(k)
      PROVE  Following' /\ Linked'
  <2>1. Stays /\ Answered(k, room', now')
    BY <1>3 DEF Tells, Stays, server
  <2> QED BY <1>1, <2>1, CallChanges, StaysKeeps
<1>4. ASSUME Refuses(k)
      PROVE  Following' /\ Linked'
  BY <1>1, <1>4, CallChanges, StaysKeeps DEF Refuses
<1>5. CASE call[k].kind = "load"
  BY <1>3, <1>5 DEF Handle
<1>6. CASE call[k].kind = "next"
  <2>1. \/ Tells(k) \/ Refuses(k)
        \/ room.queue # <<>> /\ Does(k, Advance(room, now + 1), <<"state", "queue">>)
    BY <1>6 DEF Handle, HandleNext, CanNext
  <2> QED BY <1>2, <1>3, <1>4, <2>1, OpsLegal
<1>7. CASE call[k].kind = "playNow"
  <2>1. \/ Refuses(k)
        \/ \E song \in Song : Does(k, PlayNow(room, song, now + 1), <<"state">>)
    BY <1>7 DEF Handle
  <2> QED BY <1>2, <1>4, <2>1, OpsLegal
<1>8. CASE call[k].kind = "control"
  <2>1. \E everyone \in BOOLEAN : Does(k, Control(room, everyone), <<"state">>)
    BY <1>8 DEF Handle
  <2> QED BY <1>2, <2>1, OpsLegal
<1>9. CASE call[k].kind = "queue"
  <2>1. \/ Refuses(k)
        \/ \E song \in Song : CanAdd(room, song) /\ Does(k, Add(room, song), <<"queue">>)
    BY <1>9 DEF Handle
  <2> QED BY <1>2, <1>4, <2>1, OpsLegal
<1> QED BY <1>5, <1>6, <1>7, <1>8, <1>9 DEF Handle

-----------------------------------------------------------------------------
(* What gives the page no news of the room or the queue.                   *)
LEMMA CallFailsKeeps ==
    ASSUME Following, Linked, NEW k \in Call, CallFails(k)
    PROVE  Following' /\ Linked'
<1>1. Stays /\ CallsKeep /\ sent' \in Seq(Message)
  BY CallChanges DEF CallFails, Linked
<1>2. PageKeeps
  BY DEF CallFails, PageKeeps, Following, Typed
<1> QED BY <1>1, <1>2, StaysKeeps

(* The effect and a player that gets ready only concern the player.        *)
LEMMA EffectKeeps ==
    ASSUME Following, Linked, Effect \/ OnReady
    PROVE  Following' /\ Linked'
<1>1. Stays /\ UNCHANGED <<sent, call, phase, shown, fetched>> /\ SyncShown
  BY DEF Effect, OnReady, page
<1>2. /\ seen' \in [Parts -> Nat]
      /\ \A p \in News : seen'[p] = seen[p] /\ (p \in unsure' <=> p \in unsure)
  <2>1. PICK wrong \in SUBSET {"deck"} :
          GivenBut({"deck"}, wrong, ShownRev) \/ UNCHANGED <<seen, unsure>>
    BY <1>1 DEF SyncShown
  <2>2. seen \in [Parts -> Nat] /\ ShownRev \in Int
    BY DEF Following, Typed, ShownRev, Parts
  <2> QED BY <2>1, <2>2, DeckKeeps
<1>3. PageKeeps /\ CallsKeep /\ sent' \in Seq(Message)
  BY <1>1, <1>2, CallsRest DEF PageKeeps, Linked
<1> QED BY <1>1, <1>3, StaysKeeps

(* What is sent is a message, and what is not puts the player in doubt.    *)
LEMMA SendsMessage ==
    ASSUME Linked, NEW action \in {"play", "pause", "seek"}, NEW pos \in Nat, Sends(action, pos)
    PROVE  /\ UNCHANGED <<seen, unsure>> \/ Doubt({"deck"})
           /\ sent' \in Seq(Message)
<1>1. [action |-> action, pos |-> pos] \in Message
  BY DEF Message
<1>2. <<[action |-> action, pos |-> pos]>> \in Seq(Message)
  BY <1>1
<1> QED BY <1>2 DEF Sends, Linked

(* Driving the player only concerns the player and the room.               *)
LEMMA DriveKeeps ==
    ASSUME Following, Linked, NEW action \in {"play", "pause", "seek"}, NEW pos \in Nat, NEW plays,
           Drive(action, pos, plays)
    PROVE  Following' /\ Linked'
<1>1. Stays /\ UNCHANGED <<call, page, fetched>> /\ Sends(action, pos)
  BY DEF Drive
<1>2. (UNCHANGED <<seen, unsure>> \/ Doubt({"deck"})) /\ sent' \in Seq(Message)
  BY <1>1, SendsMessage
<1> QED BY <1>1, <1>2, PageRests, CallsRest, StaysKeeps

(* So does the report of a player that a seek has started.                 *)
LEMMA OnUserPlayKeeps ==
    ASSUME Following, Linked, OnUserPlay, Position \in Nat
    PROVE  Following' /\ Linked'
<1>1. Stays /\ UNCHANGED <<call, page, fetched>>
  BY DEF OnUserPlay
<1>2. UNCHANGED <<sent, seen, unsure>> \/ Sends("play", Position)
  BY DEF OnUserPlay
<1>3. (UNCHANGED <<seen, unsure>> \/ Doubt({"deck"})) /\ sent' \in Seq(Message)
  BY <1>2, SendsMessage DEF Linked
<1> QED BY <1>1, <1>3, PageRests, CallsRest, StaysKeeps

(* The tap on a player that was refused sound is about the player.         *)
LEMMA StartListeningKeeps ==
    ASSUME Following, Linked, StartListening
    PROVE  Following' /\ Linked'
<1>1. Stays /\ UNCHANGED <<sent, call, page, fetched>>
  BY DEF StartListening
<1>2. PICK wrong \in SUBSET {"deck"} : GivenBut({"deck"}, wrong, ShownRev)
  BY DEF StartListening
<1>3. /\ seen' \in [Parts -> Nat]
      /\ \A p \in News : seen'[p] = seen[p] /\ (p \in unsure' <=> p \in unsure)
  <2>1. seen \in [Parts -> Nat] /\ ShownRev \in Int
    BY DEF Following, Typed, ShownRev, Parts
  <2> QED BY <1>2, <2>1, DeckKeeps
<1>4. PageKeeps /\ CallsKeep /\ sent' \in Seq(Message)
  BY <1>1, <1>3, CallsRest DEF PageKeeps, page, Linked
<1> QED BY <1>1, <1>4, StaysKeeps

(* A call that is made holds nothing yet.                                  *)
LEMMA AsksKeep ==
    ASSUME Following, Linked, UserCalls \/ OnEnded
    PROVE  Following' /\ Linked'
<1>1. Stays /\ UNCHANGED <<sent, page, seen, unsure, fetched>>
  BY DEF UserCalls, OnEnded
<1>2. UNCHANGED call \/ \E k \in Call : \E c : Request(k, c) /\ c.phase = "sent"
  <2>1. \A kind : Asks(kind).phase = "sent"
    BY DEF Asks
  <2>2. \A after, ended : AsksNext(after, ended).phase = "sent"
    BY DEF AsksNext
  <2> QED BY <2>1, <2>2 DEF UserCalls, OnEnded
<1>3. CallsKeep
  BY <1>2, CallChanges, CallsRest
<1>4. sent' \in Seq(Message)
  BY <1>1 DEF Linked
<1> QED BY <1>1, <1>3, <1>4, PageRests, StaysKeeps

(* The poll only clears the tap.                                           *)
LEMMA PollKeeps ==
    ASSUME Following, Linked, Poll
    PROVE  Following' /\ Linked'
<1>1. Stays /\ UNCHANGED <<sent, call, page, seen, unsure, fetched>>
  BY DEF Poll
<1>2. sent' \in Seq(Message)
  BY <1>1 DEF Linked
<1> QED BY <1>1, <1>2, PageRests, CallsRest, StaysKeeps

(* A connection that opens brings nothing yet.                             *)
LEMMA LinkUpKeeps ==
    ASSUME Following, Linked, OnOpen \/ Attached
    PROVE  Following' /\ Linked'
<1>1. /\ UNCHANGED <<room, now, me, wire, sent, losses, page, seen, unsure, missed, fetched>>
      /\ link # "attached" /\ link' \in {"open", "attached"} /\ opened' \in BOOLEAN
  BY DEF OnOpen, Attached, server, history, Linked
<1>2. CallsKeep
  <2>1. AsksRoom(TRUE).phase = "sent"
    BY DEF AsksRoom, Asks
  <2>2. UNCHANGED call \/ \E k \in Call : Request(k, AsksRoom(TRUE))
    BY DEF OnOpen, Attached
  <2> QED BY <2>1, <2>2, CallChanges, CallsRest
<1>3. Following'
  BY <1>1, <1>2, PageRests, RestKeeps
<1>4. Linked'
  BY <1>1 DEF Linked
<1> QED BY <1>3, <1>4

(* Time passes.                                                            *)
LEMMA TickKeeps ==
    ASSUME Following, Linked, Tick
    PROVE  Following' /\ Linked'
<1>1. /\ now \in Nat /\ now' = now + 1 /\ now < MaxClock
      /\ UNCHANGED <<room, me, link, opened, wire, sent, losses, call, phase, shown,
                     seen, unsure, missed, fetched>>
  BY DEF Following, Typed, Tick, socket, page, history
<1>2. Typed'
  <2>1. Fit(room, now, TRUE)
    BY DEF Following, Typed
  <2>2. PICK t \in Nat : t = now + 1
    BY <1>1
  <2>3. now <= t /\ TRUE \in BOOLEAN /\ (TRUE => TRUE)
    BY <1>1, <2>2
  <2>4. Fit(room, t, TRUE)
    BY <1>1, <2>1, <2>3, FitLater
  <2>5. Fit(room', now', TRUE) /\ now' \in Nat
    BY <1>1, <2>2, <2>4
  <2> QED BY <1>1, <2>5 DEF Following, Typed, Back
<1>3. Dated'
  <2>1. \A i \in DOMAIN wire : wire[i].rev \in Nat
    <3>1. wire \in Seq(Event)
      BY DEF Following, Typed
    <3>2. \A i \in DOMAIN wire : wire[i] \in Event
      BY <3>1, ElementOfSeq, LenProperties
    <3> QED BY <3>2 DEF Event
  <2>2. \A i \in DOMAIN wire : wire[i].rev <= now + 1
    BY <1>1, <2>1 DEF Following, Dated
  <2>3. \A k \in Call : Back(k) => call[k].rev <= now + 1
    BY <1>1 DEF Following, Typed, Dated
  <2>4. missed <= now + 1
    BY <1>1 DEF Following, Typed, Dated
  <2>5. \A p \in News : seen[p] <= now + 1 /\ fetched <= seen[p]
    BY <1>1 DEF Following, Typed, Dated, News, Parts
  <2> QED BY <1>1, <2>2, <2>3, <2>4, <2>5 DEF Following, Dated, Back
<1>4. UpToDate'
  <2>1. ASSUME NEW p \in News, NEW v \in 0..now, Since(p, v)
        PROVE  Since(p, v)'
    BY <1>1, <2>1 DEF Since, Back, Alike
  <2>2. \A v \in 0..now : v \in 0..now'
    BY <1>1
  <2> QED BY <2>1, <2>2 DEF Following, UpToDate
<1>5. Linked'
  BY <1>1, PageAssumption DEF Linked
<1> QED BY <1>2, <1>3, <1>4, <1>5 DEF Following

-----------------------------------------------------------------------------
(* The player.                                                             *)

Deck == [song : Song \cup {NoSong}, playing : BOOLEAN, held : BOOLEAN, origin : Int]

(* A player that is ready has the song of the page, unless the effect that *)
(* will give it that song has yet to run.                                  *)
Seated ==
    /\ phase \in {"loading", "open", "kicked", "failed"} /\ (ready => phase # "loading")
    /\ deck \in Deck /\ ~(deck.playing /\ deck.held)
    /\ unsure \subseteq Parts
    /\ deck.song = told
    /\ phase = "open" /\ ready /\ ~dirty /\ shown.song # NoSong => told = shown.song

(* What is put into the player is a state of the player.                   *)
LEMMA PutSits ==
    ASSUME NEW song \in Song \cup {NoSong}, NEW playing \in BOOLEAN, NEW position \in Int,
           NEW held \in BOOLEAN, now \in Nat
    PROVE  /\ Put(song, playing, position, held) \in Deck
           /\ Put(song, playing, position, held).song = song
           /\ ~(Put(song, playing, position, held).playing /\ Put(song, playing, position, held).held)
<1>1. PICK origin \in Int :
        origin = IF playing /\ ~held THEN position - now ELSE position
  <2>1. position - now \in Int /\ position \in Int
    OBVIOUS
  <2>2. (IF playing /\ ~held THEN position - now ELSE position) \in Int
    BY <2>1, Zenon
  <2> QED BY <2>2, Zenon
<1>2. PICK plays \in BOOLEAN : plays = (playing /\ ~held)
  OBVIOUS
<1>3. Put(song, playing, position, held) =
        [song |-> song, playing |-> plays, held |-> held, origin |-> origin]
  BY <1>1, <1>2 DEF Put
<1>4. ~(plays /\ held)
  BY <1>2
<1> QED BY <1>3, <1>4 DEF Deck

(* Where a room's playhead and a player's position are, in whole seconds.  *)
LEMMA TimesAreInts ==
    ASSUME now \in Nat
    PROVE  /\ \A data \in RoomData : Playhead(data, now) \in Int
           /\ \A position \in Int : Clip(position) \in Int
           /\ deck \in Deck => Position \in Int /\ GetTime \in Int
           /\ \A plays : Refusals(plays) \subseteq BOOLEAN
           /\ Starts \subseteq BOOLEAN
<1>1. ASSUME NEW data \in RoomData
      PROVE  Playhead(data, now) \in Int
  BY DEF Playhead, RoomData
<1>2. \A position \in Int : Clip(position) \in Int
  BY DEF Clip
<1>3. deck \in Deck => Position \in Int
  BY DEF Position, Deck
<1>4. deck \in Deck => GetTime \in Int
  BY <1>3 DEF GetTime
<1>5. \A plays : Refusals(plays) \subseteq BOOLEAN
  BY DEF Refusals
<1>6. Starts \subseteq BOOLEAN
  BY DEF Starts
<1> QED BY <1>1, <1>2, <1>3, <1>4, <1>5, <1>6

(* The player is given a song, or left as it is.                           *)
LEMMA SyncSeats ==
    ASSUME now \in Nat, deck \in Deck, ~(deck.playing /\ deck.held), deck.song = told,
           NEW data \in RoomData, NEW force \in BOOLEAN, Sync(data, force)
    PROVE  /\ deck' \in Deck /\ ~(deck'.playing /\ deck'.held) /\ deck'.song = told'
           /\ told' \in {told, data.song}
           /\ ready' /\ data.song # NoSong => told' = data.song
<1>1. CASE ready' /\ Acts(data, force)
  <2>1. PICK held \in Refusals(data.playing) :
          /\ told' = data.song
          /\ deck' = Put(data.song, data.playing, Clip(Playhead(data, now)), held)
    BY <1>1 DEF Sync
  <2>2. PICK position \in Int : position = Clip(Playhead(data, now))
    BY TimesAreInts
  <2>3. held \in BOOLEAN /\ data.song \in Song \cup {NoSong} /\ data.playing \in BOOLEAN
    BY TimesAreInts DEF RoomData
  <2>4. deck' = Put(data.song, data.playing, position, held)
    BY <2>1, <2>2
  <2> QED BY <2>1, <2>3, <2>4, PutSits
<1>2. CASE ~(ready' /\ Acts(data, force))
  <2>1. UNCHANGED <<told, deck>>
    BY <1>2 DEF Sync
  <2> QED BY <1>2, <2>1 DEF Acts
<1> QED BY <1>1, <1>2

(* What the page is given falls into parts.                                *)
LEMMA DoubtsParts ==
    ASSUME unsure \subseteq Parts
    PROVE  /\ \A parts, wrong \in SUBSET Parts : \A rev : GivenBut(parts, wrong, rev) => unsure' \subseteq Parts
           /\ \A parts \in SUBSET Parts : \A rev : Given(parts, rev) => unsure' \subseteq Parts
           /\ \A parts \in SUBSET Parts : Doubt(parts) => unsure' \subseteq Parts
<1>1. ASSUME NEW parts \in SUBSET Parts, NEW wrong \in SUBSET Parts, NEW rev, GivenBut(parts, wrong, rev)
      PROVE  unsure' \subseteq Parts
  BY <1>1 DEF GivenBut
<1>2. \A parts \in SUBSET Parts : \A rev : Given(parts, rev) => unsure' \subseteq Parts
  BY <1>1 DEF Given
<1>3. \A parts \in SUBSET Parts : Doubt(parts) => unsure' \subseteq Parts
  BY DEF Doubt
<1> QED BY <1>1, <1>2, <1>3

(* After the effect the player has the song of the page.                   *)
LEMMA SyncShownSeats ==
    ASSUME Following, Seated, Effect \/ OnReady
    PROVE  Seated'
<1>1. now \in Nat /\ shown \in RoomData
  BY DEF Following, Typed
<1>2. SyncShown /\ UNCHANGED <<phase, shown>> /\ (ready' => phase # "loading")
  BY DEF Effect, OnReady, page, Seated
<1>3. /\ deck' \in Deck /\ ~(deck'.playing /\ deck'.held) /\ deck'.song = told'
      /\ ready' /\ shown.song # NoSong => told' = shown.song
  BY <1>1, <1>2, SyncSeats DEF SyncShown, Seated
<1>4. unsure' \subseteq Parts
  <2>1. {"deck"} \in SUBSET Parts
    BY DEF Parts
  <2>2. PICK wrong \in SUBSET {"deck"} : GivenBut({"deck"}, wrong, ShownRev) \/ UNCHANGED unsure
    BY <1>2 DEF SyncShown
  <2>3. wrong \in SUBSET Parts
    BY <2>1
  <2> QED BY <2>1, <2>2, <2>3, DoubtsParts DEF Seated
<1> QED BY <1>2, <1>3, <1>4 DEF Seated

(* A new state makes the effect run; other events keep the song.           *)
LEMMA OnMessageSeats ==
    ASSUME Following, Seated, OnMessage
    PROVE  Seated'
<1>1. /\ now \in Nat /\ shown \in RoomData /\ UNCHANGED <<told, ready>> /\ wire # <<>>
      /\ deck \in Deck /\ deck.song \in Song \cup {NoSong} /\ deck.playing \in BOOLEAN
      /\ deck.held \in BOOLEAN
  BY DEF Following, Typed, OnMessage, Seated, Deck
<1>2. PICK e \in Event : e = Head(wire)
  BY <1>1, HeadTailProperties DEF Following, Typed
<1>3. e.room \in RoomData
  BY <1>2 DEF Event
<1>4. \A p \in {"state", "queue", "deck"} : {p} \in SUBSET Parts
  BY DEF Parts
<1>5. CASE e.name = "queue"
  <2>1. shown' = WithQueue(e.room) /\ Given({"queue"}, e.rev) /\ UNCHANGED <<phase, dirty, deck>>
    BY <1>2, <1>5 DEF OnMessage
  <2>2. shown'.song = shown.song
    BY <1>1, <1>3, <2>1 DEF WithQueue, RoomData
  <2>3. unsure' \subseteq Parts
    BY <1>4, <2>1, DoubtsParts DEF Seated
  <2> QED BY <1>1, <2>1, <2>2, <2>3 DEF Seated
<1>6. CASE e.name = "state"
  <2>1. /\ Given({"state"}, e.rev) /\ UNCHANGED <<phase, deck>>
        /\ phase = "open" => dirty'
    BY <1>2, <1>6 DEF OnMessage
  <2>2. unsure' \subseteq Parts
    BY <1>4, <2>1, DoubtsParts DEF Seated
  <2> QED BY <1>1, <2>1, <2>2 DEF Seated
<1>7. CASE e.name \in {"play", "pause", "seek"}
  <2>1. /\ IF ready THEN ApplyRemotePlayback(e) ELSE UNCHANGED <<deck, rest>>
        /\ GivenBut({"deck"}, IF ready /\ SeeksAstray(e) THEN {"deck"} ELSE {}, e.rev)
        /\ UNCHANGED <<phase, shown, dirty>>
    BY <1>2, <1>7 DEF OnMessage, page
  <2>2. unsure' \subseteq Parts
    <3>1. (IF ready /\ SeeksAstray(e) THEN {"deck"} ELSE {}) \in SUBSET Parts
      BY DEF Parts
    <3> QED BY <1>4, <2>1, <3>1, DoubtsParts DEF Seated
  <2>3. deck' \in Deck /\ ~(deck'.playing /\ deck'.held) /\ deck'.song = deck.song
    <3>1. CASE ready
      <4>1. PICK target \in Int :
              target = Clip(e.room.syncTime + (IF e.name = "play" THEN now - e.room.updatedAt ELSE 0))
        <5>1. e.room.syncTime + (IF e.name = "play" THEN now - e.room.updatedAt ELSE 0) \in Int
          BY <1>1, <1>3 DEF RoomData
        <5> QED BY <1>1, <5>1, TimesAreInts
      <4>2. PlaybackTo(e, target)
        BY <2>1, <3>1, <4>1 DEF ApplyRemotePlayback
      <4>3. /\ \A plays : Refusals(plays) \subseteq BOOLEAN
            /\ Starts \subseteq BOOLEAN
        BY <1>1, TimesAreInts
      <4>4. \E playing, still \in BOOLEAN : deck' = Put(deck.song, playing, target, still)
        <5>1. CASE e.name = "play"
          <6>1. PICK held \in Refusals(TRUE) : deck' = Put(deck.song, TRUE, target, held)
            BY <4>2, <5>1 DEF PlaybackTo
          <6> QED BY <4>3, <6>1
        <5>2. CASE e.name = "pause"
          BY <4>2, <5>2 DEF PlaybackTo
        <5>3. CASE e.name = "seek"
          <6>1. PICK starts \in Starts :
                  deck' = Put(deck.song, deck.playing \/ starts, target, deck.held /\ ~starts)
            BY <4>2, <5>3 DEF PlaybackTo
          <6>2. starts \in BOOLEAN
            BY <4>3
          <6>3. (deck.playing \/ starts) \in BOOLEAN /\ (deck.held /\ ~starts) \in BOOLEAN
            OBVIOUS
          <6> QED BY <6>1, <6>3
        <5> QED BY <1>7, <5>1, <5>2, <5>3
      <4> QED BY <1>1, <4>4, PutSits
    <3>2. CASE ~ready
      BY <2>1, <3>2 DEF Seated
    <3> QED BY <3>1, <3>2
  <2> QED BY <1>1, <2>1, <2>2, <2>3 DEF Seated
<1>8. CASE e.name = "kicked"
  <2>1. phase' = "kicked" /\ UNCHANGED <<shown, dirty, deck, unsure>>
    BY <1>2, <1>8 DEF OnMessage
  <2> QED BY <1>1, <2>1 DEF Seated
<1> QED BY <1>2, <1>5, <1>6, <1>7, <1>8 DEF Event, Names

(* The user, or the end of a song, moves the player but gives it no song.  *)
LEMMA PutSeats ==
    ASSUME Seated, UNCHANGED <<phase, shown, dirty, told, ready>>, unsure' \subseteq Parts,
           now \in Nat,
           \/ UNCHANGED deck
           \/ \E playing \in BOOLEAN, position \in Int : deck' = Put(deck.song, playing, position, FALSE)
    PROVE  Seated'
<1>1. deck \in Deck /\ deck.song \in Song \cup {NoSong} /\ FALSE \in BOOLEAN
  BY DEF Seated, Deck
<1>2. CASE UNCHANGED deck
  BY <1>2 DEF Seated
<1>3. CASE \E playing \in BOOLEAN, position \in Int : deck' = Put(deck.song, playing, position, FALSE)
  <2>1. PICK playing \in BOOLEAN, position \in Int : deck' = Put(deck.song, playing, position, FALSE)
    BY <1>3
  <2> DEFINE d == Put(deck.song, playing, position, FALSE)
  <2>2. d \in Deck /\ ~(d.playing /\ d.held) /\ d.song = deck.song
    BY <1>1, PutSits, ZenonT(60)
  <2>3. deck' \in Deck /\ ~(deck'.playing /\ deck'.held) /\ deck'.song = deck.song
    BY <2>1, <2>2
  <2> QED BY <2>3 DEF Seated
<1> QED BY <1>2, <1>3

(* No act of the user gives the player another song.                       *)
LEMMA UserSeats ==
    ASSUME Following, Seated, UserActs \/ OnEnded \/ Poll \/ OnUserPlay
    PROVE  Seated'
<1>1. /\ now \in Nat /\ shown \in RoomData /\ deck \in Deck
      /\ deck.playing \in BOOLEAN /\ shown.playing \in BOOLEAN
  BY DEF Following, Typed, Seated, Deck, RoomData
<1>2. {"deck"} \in SUBSET Parts /\ {} \in SUBSET Parts
  BY DEF Parts
<1>3. ASSUME NEW action, NEW pos \in Int, NEW plays \in BOOLEAN, Drive(action, pos, plays)
      PROVE  Seated'
  <2>1. UNCHANGED <<phase, shown, dirty, told, ready>>
    BY <1>3 DEF Drive, page
  <2>2. unsure' \subseteq Parts
    BY <1>2, <1>3, DoubtsParts DEF Drive, Sends, Seated
  <2>3. deck' = Put(deck.song, plays, pos, FALSE) \/ UNCHANGED deck
    BY <1>3 DEF Drive
  <2> QED BY <1>1, <1>3, <2>1, <2>2, <2>3, PutSeats
<1>4. CASE TogglePlay
  <2>1. PICK playing \in Playing : Drive(IF playing THEN "pause" ELSE "play", GetTime, ~playing)
    BY <1>4 DEF TogglePlay
  <2>2. GetTime \in Int
    BY <1>1, TimesAreInts
  <2>3. (~playing) \in BOOLEAN
    OBVIOUS
  <2> QED BY <1>3, <2>1, <2>2, <2>3
<1>5. CASE CommitSeek
  <2>1. PICK pos \in Pos, playing \in Playing, starts \in Starts :
          Drive("seek", pos, deck.playing \/ playing \/ starts)
    BY <1>5 DEF CommitSeek
  <2>2. pos \in Int /\ (deck.playing \/ playing \/ starts) \in BOOLEAN
    BY PageAssumption
  <2> QED BY <1>3, <2>1, <2>2
<1>6. CASE StartListening
  <2>1. PICK starts \in Starts :
          /\ UNCHANGED <<phase, shown, dirty, told, ready>>
          /\ deck' = Put(deck.song, deck.playing \/ shown.playing \/ starts,
                         Clip(Playhead(shown, now)), FALSE)
    BY <1>6 DEF StartListening, page
  <2>2. unsure' \subseteq Parts
    <3>1. GivenBut({"deck"}, IF deck'.playing /\ ~shown.playing THEN {"deck"} ELSE {}, ShownRev)
      BY <1>6 DEF StartListening
    <3>2. (IF deck'.playing /\ ~shown.playing THEN {"deck"} ELSE {}) \in SUBSET Parts
      BY <1>2
    <3> QED BY <1>2, <3>1, <3>2, DoubtsParts DEF Seated
  <2>3. PICK position \in Int : position = Clip(Playhead(shown, now))
    BY <1>1, TimesAreInts
  <2>4. (deck.playing \/ shown.playing \/ starts) \in BOOLEAN
    OBVIOUS
  <2> QED BY <1>1, <2>1, <2>2, <2>3, <2>4, PutSeats
<1>7. CASE UserCalls \/ Poll
  <2>1. UNCHANGED <<phase, shown, dirty, told, ready, deck, unsure>>
    BY <1>7 DEF UserCalls, Poll, page
  <2> QED BY <2>1 DEF Seated
<1>8. CASE OnEnded
  <2>1. /\ UNCHANGED <<phase, shown, dirty, told, ready, unsure>>
        /\ deck' = Put(deck.song, FALSE, Position, FALSE)
    BY <1>8 DEF OnEnded, page
  <2>2. PICK position \in Int : position = Position
    BY <1>1, TimesAreInts
  <2>3. unsure' \subseteq Parts
    BY <2>1 DEF Seated
  <2> QED BY <1>1, <2>1, <2>2, <2>3, PutSeats
<1>9. CASE OnUserPlay
  <2>1. UNCHANGED <<phase, shown, dirty, told, ready, deck>>
    BY <1>9 DEF OnUserPlay, page
  <2>2. unsure' \subseteq Parts
    BY <1>2, <1>9, DoubtsParts DEF OnUserPlay, Sends, Seated
  <2> QED BY <1>1, <2>1, <2>2, PutSeats
<1> QED BY <1>4, <1>5, <1>6, <1>7, <1>8, <1>9 DEF UserActs

(* A new state makes the effect run, a reload sets the song itself.        *)
LEMMA OnAnswerSeats ==
    ASSUME Following, Seated, NEW k \in Call, OnAnswer(k)
    PROVE  Seated'
<1>1. now \in Nat /\ shown \in RoomData /\ UNCHANGED ready
  BY DEF Following, Typed, OnAnswer
<1>2. PICK c : c = call[k]
  OBVIOUS
<1>3. c.room \in RoomData
  BY <1>2 DEF OnAnswer, Back, Following, Typed
<1>4. \A p \in {"state", "queue", "deck"} : {p} \in SUBSET Parts
  BY DEF Parts
<1>5. CASE c.kind = "load"
  <2>1. /\ phase' = "open" /\ dirty' = TRUE
        /\ Sync(c.room, TRUE) \/ UNCHANGED <<told, deck>>
        /\ Given(Parts, c.rev) \/ Given({"state", "queue"}, c.rev)
    BY <1>2, <1>5 DEF OnAnswer, Loaded
  <2>2. unsure' \subseteq Parts
    <3>1. Parts \in SUBSET Parts /\ {"state", "queue"} \in SUBSET Parts
      BY DEF Parts
    <3> QED BY <2>1, <3>1, DoubtsParts DEF Seated
  <2>3. deck' \in Deck /\ ~(deck'.playing /\ deck'.held) /\ deck'.song = told'
    BY <1>1, <1>3, <2>1, SyncSeats DEF Seated
  <2> QED BY <2>1, <2>2, <2>3 DEF Seated
<1>6. CASE c.kind = "next"
  <2>1. /\ dirty' = TRUE /\ UNCHANGED <<phase, told, deck>>
        /\ unsure' = (IF c.rev < seen["state"] THEN unsure \cup {"state"} ELSE unsure \ {"state"})
                       \cup (IF FiltersAstray(c.room, c.rev) THEN {"queue"} ELSE {})
    BY <1>2, <1>6 DEF OnAnswer
  <2>2. unsure' \subseteq Parts
    BY <2>1 DEF Seated, Parts
  <2> QED BY <1>1, <2>1, <2>2 DEF Seated
<1>7. CASE c.kind \in {"playNow", "control"}
  <2>1. dirty' = TRUE /\ UNCHANGED <<phase, told, deck>> /\ Given({"state"}, c.rev)
    BY <1>2, <1>7 DEF OnAnswer
  <2>2. unsure' \subseteq Parts
    BY <1>4, <2>1, DoubtsParts DEF Seated
  <2> QED BY <1>1, <2>1, <2>2 DEF Seated
<1>8. CASE c.kind = "queue"
  <2>1. /\ shown' = WithQueue(c.room) /\ Given({"queue"}, c.rev)
        /\ UNCHANGED <<phase, dirty, told, deck>>
    BY <1>2, <1>8 DEF OnAnswer
  <2>2. unsure' \subseteq Parts
    BY <1>4, <2>1, DoubtsParts DEF Seated
  <2>3. shown'.song = shown.song
    BY <1>1, <1>3, <2>1 DEF WithQueue, RoomData
  <2> QED BY <1>1, <2>1, <2>2, <2>3 DEF Seated
<1> QED BY <1>2, <1>5, <1>6, <1>7, <1>8 DEF OnAnswer

Rested == idle \in BOOLEAN /\ stirs \in BOOLEAN

(* Whatever the player is told, it is idle afterwards or it is not.        *)
LEMMA NextRested ==
    ASSUME Rested, Next
    PROVE  Rested'
<1>1. \A anew : idle' \in Idles(anew) => idle' \in BOOLEAN
  BY DEF Idles, Rested
<1>2. Starts \subseteq BOOLEAN
  BY DEF Starts
<1>3. CASE UNCHANGED rest
  BY <1>3 DEF rest, Rested
<1>4. \A data, force : Sync(data, force) => Rested'
  BY <1>1 DEF Sync, rest, Rested
<1>5. CASE Effect \/ OnReady
  BY <1>4, <1>5 DEF Effect, OnReady, SyncShown
<1>6. CASE OnMessage
  <2>1. UNCHANGED rest \/ PlaybackTo(Head(wire), Clip(Head(wire).room.syncTime
             + (IF Head(wire).name = "play" THEN now - Head(wire).room.updatedAt ELSE 0)))
    BY <1>6 DEF OnMessage, ApplyRemotePlayback
  <2>2. \A e, target : PlaybackTo(e, target) => Rested'
    BY <1>1, <1>2 DEF PlaybackTo, Rested
  <2> QED BY <1>3, <2>1, <2>2
<1>7. CASE OnUserPlay
  BY <1>7 DEF OnUserPlay, Rested
<1>8. CASE OnEnded
  BY <1>8 DEF OnEnded, Rested
<1>9. CASE TogglePlay
  BY <1>1, <1>9 DEF TogglePlay, Drive, Rested
<1>10. CASE CommitSeek
  BY <1>1, <1>2, <1>10 DEF CommitSeek, Drive, Rested
<1>11. CASE StartListening
  BY <1>1, <1>2, <1>11 DEF StartListening, Rested
<1>12. CASE \E k \in Call : OnAnswer(k)
  <2>1. PICK k \in Call : OnAnswer(k)
    BY <1>12
  <2>2. Sync(call[k].room, TRUE) \/ UNCHANGED rest
    BY <2>1 DEF OnAnswer, Loaded
  <2> QED BY <1>3, <1>4, <2>2
<1>13. CASE OtherChange \/ Tick \/ Poll \/ UserCalls \/ HandlePlayback \/ OnOpen \/ Attached \/ Disconnected
  BY <1>3, <1>13
     DEF OtherChange, Tick, Poll, UserCalls, HandlePlayback, OnOpen, Attached, Disconnected, player
<1>14. CASE \E k \in Call : Handle(k) \/ CallFails(k)
  BY <1>3, <1>14 DEF Handle, CallFails, player
<1> QED BY <1>5, <1>6, <1>7, <1>8, <1>9, <1>10, <1>11, <1>12, <1>13, <1>14 DEF Next, UserActs, Calls

-----------------------------------------------------------------------------
(* Where the player is.                                                    *)

SamePlay(a, b) ==
    /\ a.song = b.song /\ a.playing = b.playing
    /\ a.syncTime = b.syncTime /\ a.updatedAt = b.updatedAt

InStep == deck.playing = room.playing /\ Position = Playhead(room, now)

(* The room's song has come to its end, which may stop the player.         *)
Over ==
    /\ room.song # NoSong /\ Duration[room.song] > 0
    /\ Playhead(room, now) >= Duration[room.song]

(* No time is before the beginning of a song.                              *)
Placed == room.syncTime \in Nat /\ Position \in Nat

(* Player and room that are in step move with the clock alike.             *)
LEMMA TimePasses ==
    ASSUME deck \in Deck, UNCHANGED deck, room \in RoomData, room' \in RoomData,
           SamePlay(room', room), now \in Nat, now' \in {now, now + 1}
    PROVE  /\ InStep => InStep'
           /\ Over => Over'
           /\ Placed => Placed'
<1>1. PICK later \in 0..1 : now' = now + later
  <2>1. CASE now' = now
    BY <2>1
  <2>2. CASE now' = now + 1
    BY <2>2
  <2> QED BY <2>1, <2>2
<1>2. /\ room.syncTime \in Int /\ room.updatedAt \in Int /\ deck.origin \in Int
      /\ room.playing \in BOOLEAN /\ deck.playing \in BOOLEAN
  BY DEF RoomData, Deck
<1>3. /\ UNCHANGED <<deck.origin, deck.playing>>
      /\ room'.song = room.song /\ room'.playing = room.playing
      /\ room'.syncTime = room.syncTime /\ room'.updatedAt = room.updatedAt
  BY DEF SamePlay
<1>4. /\ Playhead(room, now) \in Int /\ Position \in Int
      /\ Playhead(room, now)' = Playhead(room, now) + (IF room.playing THEN later ELSE 0)
      /\ Position' = Position + (IF deck.playing THEN later ELSE 0)
  BY <1>1, <1>2, <1>3 DEF Playhead, Position
<1>5. InStep => InStep'
  BY <1>3, <1>4 DEF InStep
<1>6. Over => Over'
  <2> SUFFICES ASSUME Over PROVE Over'
    OBVIOUS
  <2>1. /\ room.song \in Song /\ Duration[room.song] \in Nat
        /\ Playhead(room, now) >= Duration[room.song]
    BY DEF Over, RoomData
  <2>2. Playhead(room, now)' >= Duration[room.song]
    BY <1>1, <1>4, <2>1
  <2>3. Playhead(room', now') >= Duration[room'.song]
    BY <1>3, <2>2
  <2> QED BY <1>3, <2>3 DEF Over
<1>7. Placed => Placed'
  BY <1>1, <1>3, <1>4 DEF Placed
<1> QED BY <1>5, <1>6, <1>7

(* The player is where it was put.                                         *)
LEMMA PutPlaces ==
    ASSUME now \in Nat, now' = now, NEW song, NEW playing \in BOOLEAN, NEW position \in Nat,
           NEW held \in BOOLEAN, deck' = Put(song, playing, position, held)
    PROVE  /\ Position' = position
           /\ deck'.playing = (playing /\ ~held) /\ deck'.held = held
<1>1. PICK plays \in BOOLEAN : plays = (playing /\ ~held)
  OBVIOUS
<1>2. deck' = [song |-> song, playing |-> plays, held |-> held,
               origin |-> IF plays THEN position - now ELSE position]
  BY <1>1 DEF Put
<1>3. deck'.playing = plays /\ deck'.held = held
      /\ deck'.origin = IF plays THEN position - now ELSE position
  BY <1>2
<1>6. Position' = IF deck'.playing THEN deck'.origin + now ELSE deck'.origin
  BY DEF Position
<1>4. CASE plays
  <2>1. deck'.origin = position - now /\ Position' = deck'.origin + now
    BY <1>3, <1>4, <1>6, Zenon
  <2>2. Position' = position
    BY <2>1
  <2> QED BY <1>1, <1>3, <2>2, Zenon
<1>5. CASE ~plays
  <2>1. Position' = position
    BY <1>3, <1>5, <1>6, Zenon
  <2> QED BY <1>1, <1>3, <2>1, Zenon
<1> QED BY <1>1, <1>3, <1>4, <1>5

(* Clipping makes a position of anything, and leaves the playhead alone.   *)
LEMMA ClipPlayhead ==
    ASSUME now \in Nat
    PROVE  /\ \A position \in Int : Clip(position) \in Nat
           /\ \A data \in RoomData : Clip(Playhead(data, now)) \in Nat
           /\ \A data \in RoomData : data.syncTime \in Nat /\ data.updatedAt <= now =>
                Clip(Playhead(data, now)) = Playhead(data, now)
<1>1. \A position \in Int : Clip(position) \in Nat /\ (position \in Nat => Clip(position) = position)
  BY DEF Clip
<1>2. \A data \in RoomData : Playhead(data, now) \in Int
  BY TimesAreInts
<1>3. ASSUME NEW data \in RoomData, data.syncTime \in Nat, data.updatedAt <= now
      PROVE  Playhead(data, now) \in Nat
  BY <1>3 DEF Playhead, RoomData
<1> QED BY <1>1, <1>2, <1>3

(* A player that is given the room as it is, is in step with it.           *)
LEMMA PutInStep ==
    ASSUME now \in Nat, UNCHANGED <<now, room>>, room \in RoomData, Placed, room.updatedAt <= now,
           NEW data \in RoomData, SamePlay(data, room), NEW held \in BOOLEAN, NEW song,
           deck' = Put(song, data.playing, Clip(Playhead(data, now)), held)
    PROVE  deck'.held \/ InStep'
<1>1. Playhead(data, now) = Playhead(room, now) /\ data.playing = room.playing
  BY DEF SamePlay, Playhead
<1>2. PICK position \in Nat : position = Clip(Playhead(data, now)) /\ position = Playhead(room, now)
  BY <1>1, ClipPlayhead DEF Placed
<1>3. data.playing \in BOOLEAN
  BY DEF RoomData
<1>4. Position' = position /\ deck'.playing = (data.playing /\ ~held) /\ deck'.held = held
  BY <1>2, <1>3, PutPlaces
<1>5. CASE ~held
  <2>1. deck'.playing = room'.playing
    BY <1>1, <1>3, <1>4, <1>5, Zenon
  <2>2. Position' = Playhead(room', now')
    BY <1>2, <1>4, Zenon
  <2> QED BY <2>1, <2>2 DEF InStep
<1>6. CASE held
  BY <1>4, <1>6, Zenon
<1> QED BY <1>5, <1>6

(* What has the room's playback in it, or changes it.                      *)
Airs == {"state", "play", "pause", "seek"}

(* The player is in step with a room that has played so since version v,   *)
(* if it was told that much and nothing else came in between.              *)
Plays(v) ==
    /\ phase = "open" /\ ready /\ "deck" \notin unsure /\ sent = <<>> /\ ~deck.held
    /\ deck.song = room.song /\ room.song # NoSong /\ seen["deck"] >= v
    => InStep \/ Over

(* The room has played so since version v, and the page was told, will be, *)
(* or missed it.                                                           *)
Heard(v) ==
    /\ \A i \in DOMAIN wire : wire[i].rev >= v => SamePlay(wire[i].room, room)
    /\ \A k \in Call : Back(k) /\ call[k].rev >= v => SamePlay(call[k].room, room)
    /\ phase = "open" /\ "state" \notin unsure /\ seen["state"] >= v => SamePlay(shown, room)
    /\ Plays(v)
    /\ phase \in {"loading", "open"} =>
         \/ v <= missed \/ seen["state"] >= v \/ seen["deck"] >= v
         \/ \E i \in DOMAIN wire : wire[i].name \in Airs /\ wire[i].rev >= v

Honest(e) == (e.name = "play" => e.room.playing) /\ (e.name = "pause" => ~e.room.playing)

(* Once the effect has run, the player knows what the page knows.          *)
Relayed ==
    ready /\ phase = "open" /\ ~dirty /\ "state" \notin unsure /\ shown.song # NoSong
    => seen["deck"] >= seen["state"]

Tuning ==
    /\ seen["deck"] <= now
    /\ Relayed
    /\ ~ready => deck.song = NoSong
    /\ \A i \in DOMAIN wire : Honest(wire[i])
    /\ \E v \in 0..now : Heard(v)

Base == Following /\ Linked /\ Seated /\ Placed

(* The facts that the rest of the argument uses again and again.           *)
LEMMA BaseFacts ==
    ASSUME Base
    PROVE  /\ now \in Nat /\ room \in RoomData /\ room.updatedAt <= now /\ shown \in RoomData
           /\ wire \in Seq(Event) /\ seen \in [Parts -> Nat] /\ seen["deck"] \in Nat
           /\ seen["state"] \in Nat /\ seen["state"] <= now
           /\ missed \in Nat /\ missed <= now /\ deck \in Deck /\ deck.song = told
           /\ \A i \in DOMAIN wire : wire[i] \in Event /\ wire[i].rev \in Nat /\ wire[i].rev <= now
<1>1. /\ now \in Nat /\ Fit(room, now, TRUE) /\ shown \in RoomData
      /\ wire \in Seq(Event) /\ seen \in [Parts -> Nat] /\ missed \in Nat /\ missed <= now
      /\ deck \in Deck /\ deck.song = told
  BY DEF Base, Following, Typed, Dated, Seated
<1>2. \A i \in DOMAIN wire : wire[i] \in Event
  BY <1>1, ElementOfSeq, LenProperties
<1>3. \A i \in DOMAIN wire : wire[i].rev \in Nat
  BY <1>2 DEF Event
<1>4. \A i \in DOMAIN wire : wire[i].rev <= now
  BY DEF Base, Following, Dated
<1>5. seen["deck"] \in Nat /\ seen["state"] \in Nat
  BY <1>1 DEF Parts
<1>6. seen["state"] <= now
  BY DEF Base, Following, Dated, News
<1>7. room \in RoomData /\ room.updatedAt <= now
  BY <1>1 DEF Fit
<1> QED BY <1>1, <1>2, <1>3, <1>4, <1>5, <1>6, <1>7

(* Playing the same is an equivalence.                                     *)
LEMMA SamePlays ==
    ASSUME NEW a, NEW b, NEW c
    PROVE  /\ SamePlay(a, a)
           /\ SamePlay(a, b) => SamePlay(b, a)
           /\ SamePlay(a, b) /\ SamePlay(b, c) => SamePlay(a, c)
BY DEF SamePlay

(* The page rests, and the room plays on as it did.                        *)
LEMMA TuningRests ==
    ASSUME Base, Tuning, room' \in RoomData, SamePlay(room', room), now' \in {now, now + 1},
           UNCHANGED <<shown, deck, ready, dirty, seen>>, phase' \in {phase, "failed"},
           unsure' \in {unsure, unsure \cup {"deck"}},
           sent' = <<>> => sent = <<>> \/ "deck" \in unsure',
           CallsKeep, missed \in Nat, missed' \in Nat, missed <= missed',
           \A i \in DOMAIN wire : i \in DOMAIN wire' /\ wire'[i] = wire[i],
           \A i \in DOMAIN wire' \ DOMAIN wire : wire'[i].room = room' /\ Honest(wire'[i])
    PROVE  Tuning'
<1>1. /\ now \in Nat /\ now <= now' /\ room \in RoomData /\ deck \in Deck
      /\ seen["deck"] \in Nat /\ now' \in Nat
  BY BaseFacts
<1>2. seen'["deck"] <= now'
  BY <1>1 DEF Tuning
<1>3. Relayed'
  BY DEF Tuning, Relayed
<1>4. \A i \in DOMAIN wire' : Honest(wire'[i])
  BY DEF Tuning
<1>5. PICK v \in 0..now : Heard(v)
  BY DEF Tuning
<1>6. \A i \in DOMAIN wire' : wire'[i].rev >= v => SamePlay(wire'[i].room, room')
  BY <1>5, SamePlays DEF Heard
<1>7. ASSUME NEW k \in Call, Back(k)', call'[k].rev >= v
      PROVE  SamePlay(call'[k].room, room')
  <2>1. CASE Back(k) /\ call'[k] = call[k]
    <3>1. SamePlay(call[k].room, room)
      BY <1>5, <1>7, <2>1 DEF Heard
    <3> QED BY <2>1, <3>1 DEF SamePlay
  <2>2. CASE call'[k].room = room'
    BY <2>2 DEF SamePlay
  <2> QED BY <1>7, <2>1, <2>2 DEF CallsKeep
<1>8. phase' = "open" /\ "state" \notin unsure' /\ seen'["state"] >= v => SamePlay(shown', room')
  BY <1>5, SamePlays DEF Heard
<1>9. Plays(v)'
  <2>1. InStep \/ Over => InStep' \/ Over'
    BY <1>1, TimePasses
  <2>2. room'.song = room.song
    BY DEF SamePlay
  <2>3. Plays(v)
    BY <1>5 DEF Heard
  <2> QED BY <2>1, <2>2, <2>3 DEF Plays
<1>10. phase' \in {"loading", "open"} =>
         \/ v <= missed' \/ seen'["state"] >= v \/ seen'["deck"] >= v
         \/ \E i \in DOMAIN wire' : wire'[i].name \in Airs /\ wire'[i].rev >= v
  <2>1. v <= missed => v <= missed'
    OBVIOUS
  <2> QED BY <1>5, <2>1 DEF Heard
<1>11. Heard(v)'
  BY <1>6, <1>7, <1>8, <1>9, <1>10 DEF Heard, Back
<1>12. v \in 0..now'
  BY <1>1
<1> QED BY <1>2, <1>3, <1>4, <1>11, <1>12 DEF Tuning

(* The page rests, and the room plays something else, and says so.         *)
LEMMA TuningRestarts ==
    ASSUME Base, Tuning, now' = now + 1,
           UNCHANGED <<shown, deck, ready, dirty, seen, phase, unsure>>,
           CallsKeep, \/ now' <= missed'
                      \/ \E i \in DOMAIN wire' : wire'[i].name \in Airs /\ wire'[i].rev >= now',
           \A i \in DOMAIN wire : i \in DOMAIN wire' /\ wire'[i] = wire[i],
           \A i \in DOMAIN wire' \ DOMAIN wire : wire'[i].room = room' /\ Honest(wire'[i])
    PROVE  Tuning'
<1>1. /\ now \in Nat /\ now' \in Nat /\ seen["deck"] \in Nat /\ seen["deck"] <= now
      /\ seen["state"] \in Nat /\ seen["state"] <= now
  BY BaseFacts DEF Tuning
<1>2. seen'["deck"] <= now' /\ ~(seen'["deck"] >= now') /\ ~(seen'["state"] >= now')
  BY <1>1
<1>3. Relayed'
  BY DEF Tuning, Relayed
<1>4. \A i \in DOMAIN wire' : Honest(wire'[i])
  BY DEF Tuning
<1>5. PICK v \in Nat : v = now'
  BY <1>1
<1>6. \A i \in DOMAIN wire' : wire'[i].rev >= v => SamePlay(wire'[i].room, room')
  <2>1. \A i \in DOMAIN wire : ~(wire[i].rev >= v)
    BY <1>1, <1>5, BaseFacts
  <2> QED BY <2>1, SamePlays
<1>7. \A k \in Call : Back(k)' /\ call'[k].rev >= v => SamePlay(call'[k].room, room')
  <2>1. \A k \in Call : Back(k) => ~(call[k].rev >= v)
    BY <1>1, <1>5 DEF Base, Following, Typed, Dated
  <2> QED BY <2>1, SamePlays DEF CallsKeep
<1>8. Plays(v)'
  BY <1>2, <1>5 DEF Plays
<1>9. Heard(v)'
  BY <1>2, <1>5, <1>6, <1>7, <1>8 DEF Heard, Back
<1> QED BY <1>1, <1>2, <1>3, <1>4, <1>5, <1>9 DEF Tuning

(* The page is told something, or the player is.                           *)
LEMMA TuningMoves ==
    ASSUME Base, Tuning, UNCHANGED <<room, now>>, CallsKeep,
           \A i \in DOMAIN wire' : \E j \in DOMAIN wire : wire'[i] = wire[j],
           seen'["deck"] <= now, Relayed', ~ready' => deck'.song = NoSong,
           \A v \in 0..now : Heard(v) =>
             /\ phase' = "open" /\ "state" \notin unsure' /\ seen'["state"] >= v =>
                  SamePlay(shown', room)
             /\ Plays(v)'
             /\ phase' \in {"loading", "open"} =>
                  \/ v <= missed' \/ seen'["state"] >= v \/ seen'["deck"] >= v
                  \/ \E i \in DOMAIN wire' : wire'[i].name \in Airs /\ wire'[i].rev >= v
    PROVE  Tuning'
<1>1. PICK v \in 0..now : Heard(v)
  BY DEF Tuning
<1>2. \A i \in DOMAIN wire' : wire'[i].rev >= v => SamePlay(wire'[i].room, room')
  BY <1>1 DEF Heard
<1>3. \A k \in Call : Back(k)' /\ call'[k].rev >= v => SamePlay(call'[k].room, room')
  BY <1>1, SamePlays DEF Heard, CallsKeep
<1>4. /\ phase' = "open" /\ "state" \notin unsure' /\ seen'["state"] >= v =>
           SamePlay(shown', room)
      /\ Plays(v)'
      /\ phase' \in {"loading", "open"} =>
           \/ v <= missed' \/ seen'["state"] >= v \/ seen'["deck"] >= v
           \/ \E i \in DOMAIN wire' : wire'[i].name \in Airs /\ wire'[i].rev >= v
  BY <1>1
<1>5. Heard(v)'
  BY <1>2, <1>3, <1>4 DEF Heard, Back
<1>6. \A i \in DOMAIN wire' : Honest(wire'[i])
  BY DEF Tuning
<1> QED BY <1>1, <1>5, <1>6 DEF Tuning

-----------------------------------------------------------------------------
(* The server and the player.                                              *)

(* A change says whether it has touched the playback, and how.             *)
Audible(new, events) ==
    /\ new.syncTime \in Nat
    /\ SamePlay(new, room) \/ \E i \in DOMAIN events : events[i] \in Airs
    /\ \A i \in DOMAIN events :
         (events[i] = "play" => new.playing) /\ (events[i] = "pause" => ~new.playing)

(* Every operation of the server says how it has touched playback.         *)
LEMMA OpsAudible ==
    ASSUME Base
    PROVE  /\ \A song \in Song : Audible(Add(room, song), <<"queue">>)
           /\ Audible(Advance(room, now + 1), <<"state", "queue">>)
           /\ \A song \in Song : Audible(PlayNow(room, song, now + 1), <<"state">>)
           /\ \A everyone \in BOOLEAN : Audible(Control(room, everyone), <<"state">>)
           /\ \A action \in {"play", "pause", "seek"}, pos \in Nat :
                Audible(Playback(room, action, pos, now + 1), <<action>>)
           /\ \A target \in User : Audible(RemoveUser(room, target), <<"kicked">>)
<1>1. room \in RoomData /\ room.syncTime \in Nat
  BY BaseFacts DEF Base, Placed
<1>2. ASSUME NEW song \in Song
      PROVE  Audible(Add(room, song), <<"queue">>)
  BY <1>1 DEF Audible, Add, SamePlay, RoomData
<1>3. Audible(Advance(room, now + 1), <<"state", "queue">>)
  <2>1. Advance(room, now + 1).syncTime \in Nat
    BY <1>1 DEF Advance, Start, RoomData
  <2>2. 1 \in DOMAIN <<"state", "queue">> /\ <<"state", "queue">>[1] \in Airs
    BY DEF Airs
  <2>3. \A i \in DOMAIN <<"state", "queue">> : <<"state", "queue">>[i] \notin {"play", "pause"}
    OBVIOUS
  <2> QED BY <2>1, <2>2, <2>3 DEF Audible
<1>4. ASSUME NEW song \in Song
      PROVE  Audible(PlayNow(room, song, now + 1), <<"state">>)
  BY <1>1 DEF Audible, PlayNow, Start, RoomData, Airs
<1>5. ASSUME NEW everyone \in BOOLEAN
      PROVE  Audible(Control(room, everyone), <<"state">>)
  BY <1>1 DEF Audible, Control, RoomData, Airs
<1>6. ASSUME NEW action \in {"play", "pause", "seek"}, NEW pos \in Nat
      PROVE  Audible(Playback(room, action, pos, now + 1), <<action>>)
  <2>1. PICK new : new = Playback(room, action, pos, now + 1)
    OBVIOUS
  <2>2. new.syncTime = pos
    BY <1>1, <2>1 DEF Playback, RoomData
  <2>3. (action = "play" => new.playing) /\ (action = "pause" => ~new.playing)
    BY <1>1, <2>1 DEF Playback, RoomData
  <2>4. \A i \in DOMAIN <<action>> : <<action>>[i] = action
    OBVIOUS
  <2>5. 1 \in DOMAIN <<action>> /\ <<action>>[1] \in Airs
    BY DEF Airs
  <2> QED BY <2>1, <2>2, <2>3, <2>4, <2>5 DEF Audible
<1>7. ASSUME NEW target \in User
      PROVE  Audible(RemoveUser(room, target), <<"kicked">>)
  BY <1>1 DEF Audible, RemoveUser, SamePlay, RoomData
<1> QED BY <1>2, <1>3, <1>4, <1>5, <1>6, <1>7

(* A change of the room is a new version of its playback, or none.         *)
LEMMA ChangeTunes ==
    ASSUME Base, Tuning, NEW new, NEW events, Change(new, events), Legal(new, events),
           Audible(new, events),
           UNCHANGED sent \/ \E i \in DOMAIN events : events[i] \in Airs,
           UNCHANGED <<shown, deck, ready, dirty, seen, phase, unsure>>, CallsKeep
    PROVE  Placed' /\ Tuning'
<1>1. /\ now \in Nat /\ room \in RoomData /\ new \in RoomData /\ events \in Seq(Names) /\ deck \in Deck
      /\ now' = now + 1 /\ room' = new /\ missed \in Nat /\ missed <= now
      /\ missed' \in {missed, now + 1}
  BY BaseFacts DEF Change, Legal, Fit
<1>2. /\ \A i \in DOMAIN wire : i \in DOMAIN wire' /\ wire'[i] = wire[i]
      /\ \A i \in DOMAIN wire' \ DOMAIN wire :
           wire'[i].room = new /\ \E j \in DOMAIN events : wire'[i].name = events[j]
      /\ \A j \in DOMAIN events :
           \/ missed' = now + 1
           \/ \E i \in DOMAIN wire' : wire'[i].name = events[j] /\ wire'[i].rev = now + 1
  <2>1. Typed /\ new \in RoomData /\ events \in Seq(Names) /\ Change(new, events)
    BY <1>1 DEF Base, Following
  <2>2. \A i \in DOMAIN wire : i \in DOMAIN wire' /\ wire'[i] = wire[i]
    BY <2>1, WireGrows
  <2>3. \A i \in DOMAIN wire' \ DOMAIN wire : wire'[i].room = new
    BY <2>1, WireGrows
  <2>4. \A i \in DOMAIN wire' \ DOMAIN wire : \E j \in DOMAIN events : wire'[i].name = events[j]
    BY <2>1, WireGrows
  <2>5. \A j \in DOMAIN events :
          \/ missed' = now + 1
          \/ \E i \in DOMAIN wire' : wire'[i].name = events[j] /\ wire'[i].rev = now + 1
    BY <2>1, WireGrows
  <2> QED BY <2>2, <2>3, <2>4, <2>5
<1>3. \A i \in DOMAIN wire' \ DOMAIN wire : wire'[i].room = room' /\ Honest(wire'[i])
  BY <1>1, <1>2 DEF Audible, Honest
<1>4. Placed'
  <2>1. Position' \in Nat
    <3>1. Position = Position /\ deck.origin \in Int /\ deck.playing \in BOOLEAN
      BY <1>1 DEF Deck
    <3>2. Position' = IF deck.playing THEN deck.origin + (now + 1) ELSE deck.origin
      BY <1>1 DEF Position
    <3>3. Position \in Nat
      BY DEF Base, Placed
    <3> QED BY <1>1, <3>1, <3>2, <3>3 DEF Position
  <2> QED BY <1>1, <2>1 DEF Placed, Audible
<1>5. CASE \E i \in DOMAIN events : events[i] \in Airs
  <2>1. \/ now' <= missed'
        \/ \E i \in DOMAIN wire' : wire'[i].name \in Airs /\ wire'[i].rev >= now'
    <3>1. PICK j \in DOMAIN events : events[j] \in Airs
      BY <1>5
    <3>2. \/ missed' = now'
          \/ \E i \in DOMAIN wire' : wire'[i].name \in Airs /\ wire'[i].rev = now'
      BY <1>1, <1>2, <3>1
    <3>3. now' \in Nat
      BY <1>1
    <3> QED BY <3>2, <3>3
  <2>2. \A i \in DOMAIN wire : i \in DOMAIN wire' /\ wire'[i] = wire[i]
    BY <1>2
  <2>3. UNCHANGED <<shown, deck, ready, dirty, seen, phase, unsure>> /\ now' = now + 1
    BY <1>1
  <2> QED BY <1>3, <1>4, <2>1, <2>2, <2>3, TuningRestarts
<1>6. CASE SamePlay(new, room) /\ UNCHANGED sent
  <2>1. missed' \in Nat /\ missed <= missed'
    BY <1>1
  <2>2. room' \in RoomData /\ SamePlay(room', room) /\ now' \in {now, now + 1}
    BY <1>1, <1>6
  <2>3. /\ phase' \in {phase, "failed"} /\ unsure' \in {unsure, unsure \cup {"deck"}}
        /\ sent' = <<>> => sent = <<>> \/ "deck" \in unsure'
    BY <1>6
  <2>4. \A i \in DOMAIN wire : i \in DOMAIN wire' /\ wire'[i] = wire[i]
    BY <1>2
  <2>5. UNCHANGED <<shown, deck, ready, dirty, seen>> /\ missed \in Nat
    BY <1>1
  <2> QED BY <1>3, <1>4, <2>1, <2>2, <2>3, <2>4, <2>5, TuningRests
<1> QED BY <1>4, <1>5, <1>6 DEF Audible

(* Nothing happens to the room, and nothing reaches the page.              *)
LEMMA StillTunes ==
    ASSUME Base, Tuning, UNCHANGED <<room, wire, missed, shown, deck, ready, dirty, seen>>,
           now' \in {now, now + 1}, phase' \in {phase, "failed"}, CallsKeep,
           UNCHANGED unsure \/ Doubt({"deck"}), UNCHANGED sent \/ "deck" \in unsure'
    PROVE  Placed' /\ Tuning'
<1>1. room \in RoomData /\ deck \in Deck /\ now \in Nat /\ missed \in Nat /\ SamePlay(room', room)
  BY BaseFacts, SamePlays
<1>2. Placed'
  BY <1>1, TimePasses DEF Base
<1>3. /\ unsure' \in {unsure, unsure \cup {"deck"}} /\ room' \in RoomData
      /\ sent' = <<>> => sent = <<>> \/ "deck" \in unsure'
      /\ missed' \in Nat /\ missed <= missed'
  BY <1>1 DEF Doubt
<1>4. /\ \A i \in DOMAIN wire : i \in DOMAIN wire' /\ wire'[i] = wire[i]
      /\ \A i \in DOMAIN wire' \ DOMAIN wire : wire'[i].room = room' /\ Honest(wire'[i])
  OBVIOUS
<1>5. Tuning'
  BY <1>1, <1>3, <1>4, TuningRests
<1> QED BY <1>2, <1>5

(* What other people do to the playback is announced or missed.            *)
LEMMA OtherChangeTunes ==
    ASSUME Base, Tuning, OtherChange
    PROVE  Placed' /\ Tuning'
<1>1. UNCHANGED <<sent, shown, deck, ready, dirty, seen, phase, unsure>> /\ CallsKeep
  <2>1. UNCHANGED <<sent, call, page, player, seen, unsure, fetched>>
    BY DEF OtherChange
  <2> QED BY <2>1, CallsRest DEF page, player, Base
<1>2. ASSUME NEW new, NEW events, Change(new, events), Legal(new, events), Audible(new, events)
      PROVE  Placed' /\ Tuning'
  BY <1>1, <1>2, ChangeTunes
<1>3. Following /\ me \in User
  BY DEF Base, Linked
<1>4. PICK user \in User \ {me} :
         \/ \E song \in Song :
              CanAdd(room, song) /\ Change(Add(room, song), <<"queue">>)
         \/ /\ \E after \in {NoSong, room.song} : CanNext(room, user, after, now)
            /\ Change(Advance(room, now + 1), <<"state", "queue">>)
         \/ \E song \in Song :
              MayControl(room, user) /\ Change(PlayNow(room, song, now + 1), <<"state">>)
         \/ /\ user = Host
            /\ \E everyone \in BOOLEAN : Change(Control(room, everyone), <<"state">>)
         \/ \E action \in {"play", "pause", "seek"}, pos \in Pos :
              /\ MayControl(room, user)
              /\ Change(Playback(room, action, pos, now + 1), <<action>>)
         \/ CanRemove(user, me) /\ Change(RemoveUser(room, me), <<"kicked">>)
  BY DEF OtherChange
<1>5. CASE \E song \in Song : CanAdd(room, song) /\ Change(Add(room, song), <<"queue">>)
  BY <1>2, <1>3, <1>5, OpsLegal, OpsAudible
<1>6. CASE /\ \E after \in {NoSong, room.song} : CanNext(room, user, after, now)
           /\ Change(Advance(room, now + 1), <<"state", "queue">>)
  <2>1. room.queue # <<>>
    BY <1>6 DEF CanNext
  <2> QED BY <1>2, <1>3, <1>6, <2>1, OpsLegal, OpsAudible
<1>7. CASE \E song \in Song :
             MayControl(room, user) /\ Change(PlayNow(room, song, now + 1), <<"state">>)
  BY <1>2, <1>3, <1>7, OpsLegal, OpsAudible
<1>8. CASE user = Host /\ \E everyone \in BOOLEAN : Change(Control(room, everyone), <<"state">>)
  BY <1>2, <1>3, <1>8, OpsLegal, OpsAudible
<1>9. CASE \E action \in {"play", "pause", "seek"}, pos \in Pos :
             /\ MayControl(room, user)
             /\ Change(Playback(room, action, pos, now + 1), <<action>>)
  <2>1. PICK action \in {"play", "pause", "seek"}, pos \in Pos :
          Change(Playback(room, action, pos, now + 1), <<action>>)
    BY <1>9
  <2>2. pos \in Nat /\ pos \in Int
    BY PageAssumption
  <2>3. Legal(Playback(room, action, pos, now + 1), <<action>>)
    BY <1>3, <2>2, OpsLegal
  <2>4. Audible(Playback(room, action, pos, now + 1), <<action>>)
    BY <2>2, OpsAudible
  <2> QED BY <1>2, <2>1, <2>3, <2>4
<1>10. CASE CanRemove(user, me) /\ Change(RemoveUser(room, me), <<"kicked">>)
  <2>1. CanRemove(Host, me)
    BY <1>10 DEF CanRemove
  <2> QED BY <1>2, <1>3, <1>10, <2>1, OpsLegal, OpsAudible
<1> QED BY <1>4, <1>5, <1>6, <1>7, <1>8, <1>9, <1>10

(* What the user told the room is what the room then plays.                *)
LEMMA HandlePlaybackTunes ==
    ASSUME Base, Tuning, HandlePlayback
    PROVE  Placed' /\ Tuning'
<1>1. /\ UNCHANGED <<shown, deck, ready, dirty, seen, phase>> /\ CallsKeep
      /\ sent # <<>> /\ sent' = Tail(sent) /\ sent \in Seq(Message)
  <2>1. UNCHANGED <<call, page, player, fetched>> /\ UNCHANGED seen
    BY DEF HandlePlayback, Doubt
  <2> QED BY <2>1, CallsRest DEF HandlePlayback, page, player, Base, Linked
<1>2. CASE MayControl(room, me)
  <2>1. Head(sent) \in Message
    BY <1>1, HeadTailProperties
  <2>2. PICK action \in {"play", "pause", "seek"}, pos \in Nat :
          action = Head(sent).action /\ pos = Head(sent).pos
    BY <2>1 DEF Message
  <2>3. /\ Change(Playback(room, action, pos, now + 1), <<action>>)
        /\ UNCHANGED unsure
    BY <1>2, <2>2 DEF HandlePlayback
  <2>4. Legal(Playback(room, action, pos, now + 1), <<action>>)
    <3>1. pos \in Int /\ Following
      BY DEF Base
    <3> QED BY <3>1, OpsLegal
  <2>5. Audible(Playback(room, action, pos, now + 1), <<action>>)
    BY OpsAudible
  <2>6. \E i \in DOMAIN <<action>> : <<action>>[i] \in Airs
    <3>1. 1 \in DOMAIN <<action>> /\ <<action>>[1] = action
      OBVIOUS
    <3> QED BY <3>1 DEF Airs
  <2> QED BY <1>1, <2>3, <2>4, <2>5, <2>6, ChangeTunes
<1>3. CASE ~MayControl(room, me)
  <2>1. Stays /\ Doubt({"deck"})
    BY <1>3 DEF HandlePlayback
  <2>2. UNCHANGED <<room, now, wire, missed>> /\ "deck" \in unsure'
    BY <2>1 DEF Stays, server, Doubt
  <2> QED BY <1>1, <2>1, <2>2, StillTunes
<1> QED BY <1>2, <1>3

(* What a call does to the playback is announced or missed.                *)
LEMMA HandleTunes ==
    ASSUME Base, Tuning, NEW k \in Call, Handle(k)
    PROVE  Placed' /\ Tuning'
<1>1. UNCHANGED <<sent, shown, deck, ready, dirty, seen, phase, unsure>> /\ Following
  BY DEF Handle, page, player, Base
<1>2. ASSUME NEW new, NEW events, Legal(new, events), Audible(new, events), Does(k, new, events)
      PROVE  Placed' /\ Tuning'
  <2>1. Change(new, events) /\ Answered(k, room', now')
    BY <1>2 DEF Does, Change
  <2>2. CallsKeep
    BY <1>1, <2>1, CallChanges
  <2> QED BY <1>1, <1>2, <2>1, <2>2, ChangeTunes
<1>3. ASSUME Tells(k) \/ Refuses(k)
      PROVE  Placed' /\ Tuning'
  <2>1. Stays /\ (Answered(k, room', now') \/ call' = [call EXCEPT ![k] = NoCall])
    BY <1>3 DEF Tells, Refuses, Stays, server
  <2>2. CallsKeep
    BY <1>1, <2>1, CallChanges
  <2>3. UNCHANGED <<room, now, wire, missed>>
    BY <2>1 DEF Stays, server
  <2> QED BY <1>1, <2>2, <2>3, StillTunes
<1>4. CASE call[k].kind = "load"
  BY <1>3, <1>4 DEF Handle
<1>5. CASE call[k].kind = "next"
  <2>1. \/ Tells(k) \/ Refuses(k)
        \/ room.queue # <<>> /\ Does(k, Advance(room, now + 1), <<"state", "queue">>)
    BY <1>5 DEF Handle, HandleNext, CanNext
  <2> QED BY <1>1, <1>2, <1>3, <2>1, OpsLegal, OpsAudible
<1>6. CASE call[k].kind = "playNow"
  <2>1. \/ Refuses(k)
        \/ \E song \in Song : Does(k, PlayNow(room, song, now + 1), <<"state">>)
    BY <1>6 DEF Handle
  <2> QED BY <1>1, <1>2, <1>3, <2>1, OpsLegal, OpsAudible
<1>7. CASE call[k].kind = "control"
  <2>1. \E everyone \in BOOLEAN : Does(k, Control(room, everyone), <<"state">>)
    BY <1>7 DEF Handle
  <2> QED BY <1>1, <1>2, <2>1, OpsLegal, OpsAudible
<1>8. CASE call[k].kind = "queue"
  <2>1. \/ Refuses(k)
        \/ \E song \in Song : CanAdd(room, song) /\ Does(k, Add(room, song), <<"queue">>)
    BY <1>8 DEF Handle
  <2> QED BY <1>1, <1>2, <1>3, <2>1, OpsLegal, OpsAudible
<1> QED BY <1>4, <1>5, <1>6, <1>7, <1>8 DEF Handle

(* The player is told something of version rev.                            *)
LEMMA DeckGiven ==
    ASSUME Base, Tuning, NEW wrong \in SUBSET {"deck"}, NEW rev \in Int, rev <= now,
           GivenBut({"deck"}, wrong, rev)
    PROVE  /\ seen'["state"] = seen["state"] /\ ("state" \in unsure' <=> "state" \in unsure)
           /\ seen'["deck"] \in Nat /\ seen'["deck"] <= now
           /\ seen'["deck"] >= rev /\ seen'["deck"] >= seen["deck"]
           /\ "deck" \notin unsure' => seen'["deck"] = rev /\ wrong = {}
<1>1. seen \in [Parts -> Nat] /\ seen["deck"] \in Nat /\ seen["deck"] <= now /\ now \in Nat
  BY BaseFacts DEF Tuning
<1>2. /\ seen'["state"] = IF "state" \in {"deck"} /\ rev > seen["state"] THEN rev ELSE seen["state"]
      /\ seen'["deck"] = IF "deck" \in {"deck"} /\ rev > seen["deck"] THEN rev ELSE seen["deck"]
      /\ unsure' = (unsure \ {"deck"}) \cup wrong \cup {p \in {"deck"} : rev < seen[p]}
  BY DEF GivenBut, Parts
<1>3. seen'["deck"] = IF rev > seen["deck"] THEN rev ELSE seen["deck"]
  BY <1>2
<1>4. "deck" \notin unsure' => ~(rev < seen["deck"]) /\ wrong = {}
  BY <1>2
<1> QED BY <1>1, <1>2, <1>3, <1>4

(* What the page shows is given to its player, when the player lets it.    *)
LEMMA EffectTunes ==
    ASSUME Base, Tuning, Effect \/ OnReady
    PROVE  Placed' /\ Tuning'
<1>1. /\ now \in Nat /\ room \in RoomData /\ room.updatedAt <= now /\ shown \in RoomData
      /\ deck \in Deck /\ seen["deck"] \in Nat /\ seen["deck"] <= now
      /\ seen["state"] \in Nat /\ seen["state"] <= now /\ deck.song = told /\ Placed
  BY BaseFacts DEF Tuning, Base
<1>2. /\ UNCHANGED <<room, now, wire, missed, call, sent, phase, shown>> /\ SyncShown
      /\ ready' <=> ready \/ OnReady
      /\ UNCHANGED dirty \/ ~dirty'
  BY DEF Effect, OnReady, Stays, server, page
<1>3. CallsKeep
  BY <1>2, CallsRest DEF Base
<1>4. /\ ShownRev \in Int /\ ShownRev <= now
      /\ "state" \notin unsure => ShownRev = seen["state"]
      /\ ShownRev >= 0 => "state" \notin unsure
  BY <1>1 DEF ShownRev
<1>5. UNCHANGED deck \/ \E held \in BOOLEAN :
        /\ ready' /\ Acts(shown, FALSE)
        /\ deck' = Put(shown.song, shown.playing, Clip(Playhead(shown, now)), held)
  BY <1>1, <1>2, TimesAreInts DEF SyncShown, Sync
<1>6. Placed'
  <2>1. CASE UNCHANGED deck
    BY <1>2, <2>1 DEF Base, Placed, Position
  <2>2. CASE ~UNCHANGED deck
    <3>1. PICK held \in BOOLEAN :
            deck' = Put(shown.song, shown.playing, Clip(Playhead(shown, now)), held)
      BY <1>5, <2>2
    <3>2. PICK position \in Nat : position = Clip(Playhead(shown, now))
      BY <1>1, ClipPlayhead
    <3>3. shown.playing \in BOOLEAN
      BY <1>1 DEF RoomData
    <3>4. Position' = position
      BY <1>1, <1>2, <3>1, <3>2, <3>3, PutPlaces
    <3> QED BY <1>2, <3>4 DEF Base, Placed
  <2> QED BY <2>1, <2>2
<1>7. ~ready' => deck'.song = NoSong
  BY <1>2, <1>5 DEF Tuning
<1> DEFINE given == /\ ready' /\ shown.song # NoSong
                    /\ Acts(shown, FALSE) \/ ShownRev >= seen["deck"]
<1>8. CASE given
  <2>1. PICK wrong \in SUBSET {"deck"} :
          /\ GivenBut({"deck"}, wrong, ShownRev)
          /\ ~Acts(shown, FALSE) /\ Unnoticed => wrong # {}
    BY <1>2, <1>8 DEF SyncShown
  <2>2. /\ seen'["state"] = seen["state"] /\ ("state" \in unsure' <=> "state" \in unsure)
        /\ seen'["deck"] \in Nat /\ seen'["deck"] <= now
        /\ seen'["deck"] >= ShownRev /\ seen'["deck"] >= seen["deck"]
        /\ "deck" \notin unsure' => seen'["deck"] = ShownRev /\ wrong = {}
    BY <1>4, <2>1, DeckGiven
  <2>3. Relayed'
    BY <1>4, <2>2 DEF Relayed
  <2>4. ASSUME NEW v \in 0..now, Heard(v)
        PROVE  Plays(v)'
    <3> SUFFICES ASSUME phase' = "open", "deck" \notin unsure', ~deck'.held, seen'["deck"] >= v
                 PROVE  InStep'
      BY DEF Plays
    <3>1. "state" \notin unsure /\ seen["state"] >= v
      BY <1>1, <1>4, <2>2
    <3>2. SamePlay(shown, room)
      BY <1>2, <2>4, <3>1 DEF Heard
    <3>3. CASE Acts(shown, FALSE)
      <4>1. PICK held \in BOOLEAN :
              deck' = Put(shown.song, shown.playing, Clip(Playhead(shown, now)), held)
        BY <1>1, <1>2, <1>8, <3>3, TimesAreInts DEF SyncShown, Sync
      <4> QED BY <1>1, <1>2, <3>2, <4>1, PutInStep
    <3>4. CASE ~Acts(shown, FALSE)
      <4>1. UNCHANGED deck /\ ~Unnoticed
        BY <1>5, <2>1, <2>2, <3>4
      <4>2. deck.playing = shown.playing /\ Position = Playhead(shown, now)
        BY <4>1 DEF Unnoticed
      <4>3. shown.playing = room.playing /\ Playhead(shown, now) = Playhead(room, now)
        BY <3>2 DEF SamePlay, Playhead
      <4> QED BY <1>2, <4>1, <4>2, <4>3 DEF InStep, Position
    <3> QED BY <3>3, <3>4
  <2>5. ASSUME NEW v \in 0..now, Heard(v)
        PROVE  /\ phase' = "open" /\ "state" \notin unsure' /\ seen'["state"] >= v =>
                    SamePlay(shown', room)
               /\ phase' \in {"loading", "open"} =>
                    \/ v <= missed' \/ seen'["state"] >= v \/ seen'["deck"] >= v
                    \/ \E i \in DOMAIN wire' : wire'[i].name \in Airs /\ wire'[i].rev >= v
    <3>1. seen["deck"] >= v => seen'["deck"] >= v
      BY <1>1, <2>2
    <3> QED BY <1>2, <2>2, <2>5, <3>1 DEF Heard
  <2>6. \A i \in DOMAIN wire' : \E j \in DOMAIN wire : wire'[i] = wire[j]
    BY <1>2
  <2> QED BY <1>2, <1>3, <1>6, <1>7, <2>2, <2>3, <2>4, <2>5, <2>6, TuningMoves
<1>9. CASE ~given
  <2>1. UNCHANGED <<seen, unsure>>
    BY <1>2, <1>9 DEF SyncShown
  <2>2. UNCHANGED deck
    BY <1>5, <1>9 DEF Acts
  <2>3. Relayed'
    <3> SUFFICES ASSUME ready', "state" \notin unsure, shown.song # NoSong
                 PROVE  seen["deck"] >= seen["state"]
      BY <1>2, <2>1 DEF Relayed
    <3>1. ~(ShownRev >= seen["deck"])
      BY <1>9
    <3>2. ShownRev = seen["state"]
      BY <1>4
    <3> HIDE DEF given
    <3> QED BY <1>1, <3>1, <3>2
  <2>4. ready \/ ~ready' \/ deck.song # room.song \/ room.song = NoSong
    BY DEF Tuning
  <2>5. ASSUME NEW v \in 0..now, Heard(v)
        PROVE  Plays(v)'
    <3>1. Plays(v)
      BY <2>5 DEF Heard
    <3>2. InStep \/ Over => InStep' \/ Over'
      BY <1>2, <2>2 DEF InStep, Over, Position
    <3> QED BY <1>2, <2>1, <2>2, <2>4, <3>1, <3>2 DEF Plays
  <2>6. \A i \in DOMAIN wire' : \E j \in DOMAIN wire : wire'[i] = wire[j]
    BY <1>2
  <2>7. seen'["deck"] <= now
    BY <1>1, <2>1
  <2>8. ASSUME NEW v \in 0..now, Heard(v)
        PROVE  /\ phase' = "open" /\ "state" \notin unsure' /\ seen'["state"] >= v =>
                    SamePlay(shown', room)
               /\ phase' \in {"loading", "open"} =>
                    \/ v <= missed' \/ seen'["state"] >= v \/ seen'["deck"] >= v
                    \/ \E i \in DOMAIN wire' : wire'[i].name \in Airs /\ wire'[i].rev >= v
    BY <1>2, <2>1, <2>8 DEF Heard
  <2> QED BY <1>2, <1>3, <1>6, <1>7, <2>3, <2>5, <2>6, <2>7, <2>8, TuningMoves
<1> QED BY <1>8, <1>9

-----------------------------------------------------------------------------
(* The user and the socket.                                                *)

(* Calls are made, or lost, and nothing reaches the page.                  *)
LEMMA QuietStepsTune ==
    ASSUME Base, Tuning,
           \/ Tick \/ OnOpen \/ Attached \/ Poll \/ UserCalls
           \/ \E k \in Call : CallFails(k)
    PROVE  Placed' /\ Tuning'
<1>1. Following /\ now \in Nat
  BY BaseFacts DEF Base
<1>2. /\ UNCHANGED <<room, wire, missed, shown, deck, ready, dirty, seen, unsure, sent>>
      /\ now' \in {now, now + 1} /\ phase' \in {phase, "failed"}
  <2>1. CASE Tick \/ OnOpen \/ Attached
    BY <2>1 DEF Tick, OnOpen, Attached, socket, server, page, player, history
  <2>2. CASE Poll \/ UserCalls
    BY <2>2 DEF Poll, UserCalls, Stays, server, page
  <2>3. CASE \E k \in Call : CallFails(k)
    BY <2>3 DEF CallFails, Stays, server, player
  <2> QED BY <2>1, <2>2, <2>3
<1>3. CallsKeep
  <2>1. CASE UNCHANGED call
    BY <1>1, <2>1, CallsRest
  <2>2. CASE \E k \in Call : \E c : Request(k, c) /\ c.phase = "sent"
    BY <1>1, <2>2, CallChanges
  <2>3. CASE \E k \in Call : call' = [call EXCEPT ![k] = NoCall]
    BY <1>1, <2>3, CallChanges
  <2>4. /\ \A kind : Asks(kind).phase = "sent"
        /\ \A force : AsksRoom(force).phase = "sent"
    BY DEF Asks, AsksRoom
  <2> QED BY <2>1, <2>2, <2>3, <2>4 DEF Tick, OnOpen, Attached, Poll, UserCalls, CallFails
<1> QED BY <1>2, <1>3, StillTunes

(* What the user does to the player is on its way, or in doubt.            *)
LEMMA DriveTunes ==
    ASSUME Base, Tuning, NEW action, NEW pos \in Nat, NEW plays \in BOOLEAN,
           Drive(action, pos, plays)
    PROVE  Placed' /\ Tuning'
<1>1. /\ now \in Nat /\ deck \in Deck /\ seen["deck"] <= now /\ Following /\ Placed
  BY BaseFacts DEF Tuning, Base
<1>2. /\ UNCHANGED <<room, now, wire, missed, call, phase, shown, dirty, ready, seen>>
      /\ ready => deck' = Put(deck.song, plays, pos, FALSE)
      /\ ~ready => UNCHANGED deck
      /\ unsure' \in {unsure, unsure \cup {"deck"}}
      /\ ready => "deck" \in unsure' \/ sent' # <<>>
  <2>1. /\ UNCHANGED <<room, now, wire, missed, call, phase, shown, dirty, ready>>
        /\ ready => deck' = Put(deck.song, plays, pos, FALSE)
        /\ ~ready => UNCHANGED deck
    BY DEF Drive, Stays, server, page
  <2>2. CASE link = "down"
    <3>1. UNCHANGED seen /\ unsure' \in {unsure, unsure \cup {"deck"}}
          /\ (ready => "deck" \in unsure')
      BY <2>2 DEF Drive, Sends, Doubt
    <3> QED BY <2>1, <3>1
  <2>3. CASE link # "down"
    <3>1. /\ UNCHANGED <<seen, unsure>> /\ sent' = <<[action |-> action, pos |-> pos]>>
      BY <2>3 DEF Drive, Sends
    <3>2. sent' # <<>>
      BY <3>1
    <3> QED BY <2>1, <3>1, <3>2
  <2> QED BY <2>2, <2>3
<1>3. CallsKeep
  BY <1>1, <1>2, CallsRest
<1>4. Placed'
  <2>1. CASE ready
    <3>1. Position' = pos
      BY <1>1, <1>2, <2>1, PutPlaces
    <3> QED BY <1>1, <1>2, <3>1 DEF Placed
  <2>2. CASE ~ready
    BY <1>1, <1>2, <2>2 DEF Placed, Position
  <2> QED BY <2>1, <2>2
<1>5. Relayed' /\ (~ready' => deck'.song = NoSong) /\ seen'["deck"] <= now
  BY <1>1, <1>2 DEF Tuning, Relayed
<1>6. \A i \in DOMAIN wire' : \E j \in DOMAIN wire : wire'[i] = wire[j]
  BY <1>2
<1>7. \A v \in 0..now : Heard(v) =>
        /\ phase' = "open" /\ "state" \notin unsure' /\ seen'["state"] >= v => SamePlay(shown', room)
        /\ Plays(v)'
        /\ phase' \in {"loading", "open"} =>
             \/ v <= missed' \/ seen'["state"] >= v \/ seen'["deck"] >= v
             \/ \E i \in DOMAIN wire' : wire'[i].name \in Airs /\ wire'[i].rev >= v
  <2> TAKE v \in 0..now
  <2> HAVE Heard(v)
  <2>1. phase' = "open" /\ "state" \notin unsure' /\ seen'["state"] >= v => SamePlay(shown', room)
    BY <1>2 DEF Heard
  <2>2. Plays(v)'
    BY <1>2 DEF Plays
  <2>3. phase' \in {"loading", "open"} =>
             \/ v <= missed' \/ seen'["state"] >= v \/ seen'["deck"] >= v
             \/ \E i \in DOMAIN wire' : wire'[i].name \in Airs /\ wire'[i].rev >= v
    BY <1>2 DEF Heard
  <2> QED BY <2>1, <2>2, <2>3
<1> QED BY <1>2, <1>3, <1>4, <1>5, <1>6, <1>7, TuningMoves

(* What a started player reports is on its way, in doubt, or not heard.    *)
LEMMA OnUserPlayTunes ==
    ASSUME Base, Tuning, OnUserPlay
    PROVE  Placed' /\ Tuning'
<1>1. /\ UNCHANGED <<room, now, wire, missed, call, phase, shown, dirty, deck, ready>>
      /\ now \in Nat /\ seen["deck"] <= now /\ Following /\ Placed
  BY BaseFacts DEF OnUserPlay, Stays, server, page, Tuning, Base
<1>2. CallsKeep
  BY <1>1, CallsRest
<1>3. UNCHANGED <<sent, seen, unsure>> \/ Sends("play", Position)
  BY DEF OnUserPlay
<1>4. CASE UNCHANGED sent /\ UNCHANGED seen /\ (UNCHANGED unsure \/ Doubt({"deck"}))
  BY <1>1, <1>2, <1>4, StillTunes
<1>5. CASE sent' = <<[action |-> "play", pos |-> Position]>> /\ UNCHANGED <<seen, unsure>>
  <2>1. Placed'
    BY <1>1 DEF Placed, Position
  <2>2. Relayed' /\ (~ready' => deck'.song = NoSong) /\ seen'["deck"] <= now
    BY <1>1, <1>5 DEF Tuning, Relayed
  <2>3. sent' # <<>>
    BY <1>5
  <2>4. \A i \in DOMAIN wire' : \E j \in DOMAIN wire : wire'[i] = wire[j]
    BY <1>1
  <2>5. \A v \in 0..now : Heard(v) =>
          /\ phase' = "open" /\ "state" \notin unsure' /\ seen'["state"] >= v => SamePlay(shown', room)
          /\ Plays(v)'
          /\ phase' \in {"loading", "open"} =>
               \/ v <= missed' \/ seen'["state"] >= v \/ seen'["deck"] >= v
               \/ \E i \in DOMAIN wire' : wire'[i].name \in Airs /\ wire'[i].rev >= v
    <3> TAKE v \in 0..now
    <3> HAVE Heard(v)
    <3>1. Plays(v)'
      BY <2>3 DEF Plays
    <3> QED BY <1>1, <1>5, <3>1 DEF Heard
  <2> QED BY <1>1, <1>2, <2>1, <2>2, <2>4, <2>5, TuningMoves
<1> QED BY <1>3, <1>4, <1>5 DEF Sends, Doubt

(* A tap puts the player where the page takes the room to be.              *)
LEMMA StartListeningTunes ==
    ASSUME Base, Tuning, StartListening
    PROVE  Placed' /\ Tuning'
<1>1. /\ now \in Nat /\ room \in RoomData /\ room.updatedAt <= now /\ shown \in RoomData
      /\ deck \in Deck /\ seen["state"] \in Nat /\ seen["state"] <= now /\ Following /\ Placed
      /\ seen["deck"] \in Nat
  BY BaseFacts DEF Base
<1>2. PICK starts \in Starts :
        /\ UNCHANGED <<room, now, wire, missed, call, sent, phase, shown, dirty, ready>>
        /\ deck' = Put(deck.song, deck.playing \/ shown.playing \/ starts,
                       Clip(Playhead(shown, now)), FALSE)
        /\ GivenBut({"deck"}, IF deck'.playing /\ ~shown.playing THEN {"deck"} ELSE {}, ShownRev)
  BY DEF StartListening, Stays, server, page
<1>3. CallsKeep
  BY <1>1, <1>2, CallsRest
<1>4. /\ ShownRev \in Int /\ ShownRev <= now
      /\ "state" \notin unsure => ShownRev = seen["state"]
      /\ ShownRev >= 0 => "state" \notin unsure
  BY <1>1 DEF ShownRev
<1>5. PICK wrong \in SUBSET {"deck"} :
        /\ GivenBut({"deck"}, wrong, ShownRev)
        /\ wrong = {} => ~(deck'.playing /\ ~shown.playing)
  BY <1>2
<1>6. /\ seen'["state"] = seen["state"] /\ ("state" \in unsure' <=> "state" \in unsure)
      /\ seen'["deck"] \in Nat /\ seen'["deck"] <= now
      /\ seen'["deck"] >= ShownRev /\ seen'["deck"] >= seen["deck"]
      /\ "deck" \notin unsure' => seen'["deck"] = ShownRev /\ wrong = {}
  BY <1>4, <1>5, DeckGiven
<1>7. deck'.song = deck.song /\ deck.playing \in BOOLEAN /\ shown.playing \in BOOLEAN
  BY <1>1, <1>2 DEF Put, Deck, RoomData
<1>8. Placed'
  <2>1. PICK position \in Nat : position = Clip(Playhead(shown, now))
    BY <1>1, ClipPlayhead
  <2>2. PICK playing \in BOOLEAN : playing = (deck.playing \/ shown.playing \/ starts)
    OBVIOUS
  <2>3. deck' = Put(deck.song, playing, position, FALSE)
    BY <1>2, <2>1, <2>2
  <2>4. Position' = position
    BY <1>1, <1>2, <2>3, PutPlaces
  <2> QED BY <1>1, <1>2, <2>4 DEF Placed
<1>9. Relayed'
  BY <1>2, <1>4, <1>6 DEF Relayed
<1>10. ~ready' => deck'.song = NoSong
  BY <1>2, <1>7 DEF Tuning
<1>11. ASSUME NEW v \in 0..now, Heard(v)
       PROVE  Plays(v)'
  <2> SUFFICES ASSUME phase' = "open", "deck" \notin unsure', ~deck'.held, seen'["deck"] >= v
               PROVE  InStep'
    BY DEF Plays
  <2>1. "state" \notin unsure /\ seen["state"] >= v
    BY <1>1, <1>4, <1>6
  <2>2. SamePlay(shown, room)
    BY <1>2, <1>11, <2>1 DEF Heard
  <2>3. (deck.playing \/ shown.playing \/ starts) = shown.playing
    <3>1. ~(deck'.playing /\ ~shown.playing)
      BY <1>5, <1>6
    <3>2. PICK playing \in BOOLEAN : playing = (deck.playing \/ shown.playing \/ starts)
      OBVIOUS
    <3>3. deck'.playing = playing
      BY <1>2, <3>2 DEF Put
    <3> QED BY <1>7, <3>1, <3>2, <3>3
  <2>4. deck' = Put(deck.song, shown.playing, Clip(Playhead(shown, now)), FALSE)
    BY <1>2, <2>3
  <2> QED BY <1>1, <1>2, <2>2, <2>4, PutInStep
<1>12. ASSUME NEW v \in 0..now, Heard(v)
       PROVE  /\ phase' = "open" /\ "state" \notin unsure' /\ seen'["state"] >= v =>
                   SamePlay(shown', room)
              /\ phase' \in {"loading", "open"} =>
                   \/ v <= missed' \/ seen'["state"] >= v \/ seen'["deck"] >= v
                   \/ \E i \in DOMAIN wire' : wire'[i].name \in Airs /\ wire'[i].rev >= v
  <2>1. seen["deck"] >= v => seen'["deck"] >= v
    BY <1>1, <1>6
  <2> QED BY <1>2, <1>6, <1>12, <2>1 DEF Heard
<1>13. \A i \in DOMAIN wire' : \E j \in DOMAIN wire : wire'[i] = wire[j]
  BY <1>2
<1> QED BY <1>2, <1>3, <1>6, <1>8, <1>9, <1>10, <1>11, <1>12, <1>13, TuningMoves

(* The end of a song stops the player, and is the end of the room's song   *)
(* if the player was in step.                                              *)
LEMMA OnEndedTunes ==
    ASSUME Base, Tuning, OnEnded
    PROVE  Placed' /\ Tuning'
<1>1. /\ now \in Nat /\ deck \in Deck /\ seen["deck"] <= now /\ Following /\ Placed
      /\ room \in RoomData
  BY BaseFacts DEF Tuning, Base
<1>2. /\ UNCHANGED <<room, now, wire, missed, sent, phase, shown, dirty, ready, seen, unsure>>
      /\ deck.playing /\ Duration[deck.song] > 0 /\ Position >= Duration[deck.song]
      /\ deck' = Put(deck.song, FALSE, Position, FALSE)
  BY DEF OnEnded, Stays, server, page
<1>3. CallsKeep
  <2>1. \A after, ended : AsksNext(after, ended).phase = "sent"
    BY DEF AsksNext
  <2>2. UNCHANGED call \/ \E k \in Call : \E c : Request(k, c) /\ c.phase = "sent"
    BY <2>1 DEF OnEnded
  <2> QED BY <1>1, <2>2, CallChanges, CallsRest
<1>4. deck'.song = deck.song /\ ~deck.held
  BY <1>2 DEF Put, Base, Seated
<1>5. Placed'
  <2>1. PICK position \in Nat : position = Position
    BY <1>1 DEF Placed
  <2>2. deck' = Put(deck.song, FALSE, position, FALSE)
    BY <1>2, <2>1
  <2>3. Position' = position
    BY <1>1, <1>2, <2>2, PutPlaces
  <2> QED BY <1>1, <1>2, <2>3 DEF Placed
<1>6. Relayed' /\ (~ready' => deck'.song = NoSong) /\ seen'["deck"] <= now
  BY <1>1, <1>2, <1>4 DEF Tuning, Relayed
<1>7. ASSUME NEW v \in 0..now, Heard(v)
      PROVE  Plays(v)'
  <2>1. Plays(v)
    BY <1>7 DEF Heard
  <2>2. deck.song = room.song /\ room.song # NoSong => (InStep => Over)
    BY <1>2 DEF InStep, Over
  <2>3. Over => Over'
    BY <1>2 DEF Over
  <2> QED BY <1>2, <1>4, <2>1, <2>2, <2>3 DEF Plays
<1>8. ASSUME NEW v \in 0..now, Heard(v)
      PROVE  /\ phase' = "open" /\ "state" \notin unsure' /\ seen'["state"] >= v =>
                  SamePlay(shown', room)
             /\ phase' \in {"loading", "open"} =>
                  \/ v <= missed' \/ seen'["state"] >= v \/ seen'["deck"] >= v
                  \/ \E i \in DOMAIN wire' : wire'[i].name \in Airs /\ wire'[i].rev >= v
  BY <1>2, <1>8 DEF Heard
<1>9. \A i \in DOMAIN wire' : \E j \in DOMAIN wire : wire'[i] = wire[j]
  BY <1>2
<1> QED BY <1>2, <1>3, <1>5, <1>6, <1>7, <1>8, <1>9, TuningMoves

(* What is lost with the connection is missed, or in doubt.                *)
LEMMA DisconnectedTunes ==
    ASSUME Base, Tuning, Disconnected
    PROVE  Placed' /\ Tuning'
<1>1. /\ now \in Nat /\ seen["deck"] <= now /\ Following /\ Linked /\ Placed /\ missed \in Nat
  BY BaseFacts DEF Tuning, Base
<1>2. /\ UNCHANGED <<room, now, call, phase, shown, dirty, ready, deck, seen>>
      /\ wire' = <<>> /\ unsure' \in {unsure, unsure \cup {"deck"}}
      /\ sent = <<>> \/ "deck" \in unsure'
  BY DEF Disconnected, server, page, player, Doubt
<1>3. /\ missed' \in Nat /\ missed <= missed'
      /\ \A i \in DOMAIN wire : wire[i].rev \in Nat /\ wire[i].rev <= missed'
  BY <1>1, LossNoted
<1>4. CallsKeep
  BY <1>1, <1>2, CallsRest
<1>5. Placed'
  BY <1>1, <1>2 DEF Placed, Position
<1>6. Relayed' /\ (~ready' => deck'.song = NoSong) /\ seen'["deck"] <= now
  BY <1>1, <1>2 DEF Tuning, Relayed
<1>7. ASSUME NEW v \in 0..now, Heard(v)
      PROVE  Plays(v)'
  <2>1. Plays(v)
    BY <1>7 DEF Heard
  <2>2. InStep \/ Over => InStep' \/ Over'
    BY <1>2 DEF InStep, Over, Position
  <2> QED BY <1>2, <2>1, <2>2 DEF Plays
<1>8. ASSUME NEW v \in 0..now, Heard(v)
      PROVE  /\ phase' = "open" /\ "state" \notin unsure' /\ seen'["state"] >= v =>
                  SamePlay(shown', room)
             /\ phase' \in {"loading", "open"} =>
                  \/ v <= missed' \/ seen'["state"] >= v \/ seen'["deck"] >= v
                  \/ \E i \in DOMAIN wire' : wire'[i].name \in Airs /\ wire'[i].rev >= v
  <2>1. \A i \in DOMAIN wire : wire[i].rev >= v => v <= missed'
    BY <1>3
  <2>2. v <= missed => v <= missed'
    BY <1>1, <1>3
  <2> QED BY <1>2, <1>8, <2>1, <2>2 DEF Heard
<1>9. \A i \in DOMAIN wire' : \E j \in DOMAIN wire : wire'[i] = wire[j]
  BY <1>2
<1> QED BY <1>2, <1>4, <1>5, <1>6, <1>7, <1>8, <1>9, TuningMoves

-----------------------------------------------------------------------------
(* What the page is told.                                                  *)

(* The page keeps what it shows of the playback, or is given it anew.      *)
StateKept ==
    /\ phase' = "open" => phase = "open" /\ SamePlay(shown', shown) /\ dirty' = dirty
    /\ seen'["state"] = seen["state"] /\ ("state" \in unsure' <=> "state" \in unsure)

StateGiven(data, rev) ==
    /\ phase' = "open" => SamePlay(shown', data) /\ dirty'
    /\ seen'["state"] >= rev /\ seen'["state"] >= seen["state"]
    /\ "state" \notin unsure' => seen'["state"] = rev

(* The page is told something that does not reach its player.              *)
LEMMA PageTunes ==
    ASSUME Base, Tuning, UNCHANGED <<room, now, deck, ready, sent, missed>>, CallsKeep,
           phase \in {"loading", "open"},
           \A i \in DOMAIN wire' : \E j \in DOMAIN wire : wire'[i] = wire[j],
           \A i \in DOMAIN wire : wire[i].name \in Airs =>
             \/ \E j \in DOMAIN wire' : wire'[j] = wire[i]
             \/ seen'["state"] >= wire[i].rev
             \/ phase' \notin {"loading", "open"},
           seen'["deck"] = seen["deck"], "deck" \in unsure' <=> "deck" \in unsure,
           seen' \in [Parts -> Nat],
           NEW data, NEW rev \in Nat,
           \A v \in 0..now : Heard(v) /\ rev >= v => SamePlay(data, room),
           StateKept \/ StateGiven(data, rev)
    PROVE  Placed' /\ Tuning'
<1>1. /\ now \in Nat /\ seen["deck"] \in Nat /\ seen["deck"] <= now /\ Placed /\ seen["state"] \in Nat
      /\ phase # "loading" \/ ~ready
      /\ \A i \in DOMAIN wire : wire[i].rev \in Nat
  BY BaseFacts DEF Tuning, Base, Seated
<1>2. seen'["state"] \in Nat /\ seen'["state"] >= seen["state"]
  BY <1>1 DEF StateKept, StateGiven, Parts
<1>3. Placed'
  BY <1>1 DEF Placed, Position
<1>4. Relayed'
  BY <1>1 DEF StateKept, StateGiven, Tuning, Relayed, SamePlay
<1>5. (~ready' => deck'.song = NoSong) /\ seen'["deck"] <= now
  BY <1>1 DEF Tuning
<1>6. ASSUME NEW v \in 0..now, Heard(v)
      PROVE  phase' = "open" /\ "state" \notin unsure' /\ seen'["state"] >= v => SamePlay(shown', room)
  <2>1. CASE StateKept
    BY <1>6, <2>1 DEF StateKept, Heard, SamePlay
  <2>2. CASE StateGiven(data, rev)
    <3> SUFFICES ASSUME phase' = "open", "state" \notin unsure', seen'["state"] >= v
                 PROVE  SamePlay(shown', room)
      OBVIOUS
    <3>1. SamePlay(shown', data) /\ rev >= v
      BY <2>2 DEF StateGiven
    <3>2. SamePlay(data, room)
      BY <1>6, <3>1
    <3> QED BY <3>1, <3>2, SamePlays
  <2> QED BY <2>1, <2>2
<1>7. ASSUME NEW v \in 0..now, Heard(v)
      PROVE  Plays(v)'
  <2>1. Plays(v)
    BY <1>7 DEF Heard
  <2>2. InStep \/ Over => InStep' \/ Over'
    BY DEF InStep, Over, Position
  <2>3. phase' = "open" /\ ready' => phase = "open" /\ ready
    BY <1>1
  <2> QED BY <2>1, <2>2, <2>3 DEF Plays
<1>8. ASSUME NEW v \in 0..now, Heard(v), phase' \in {"loading", "open"}
      PROVE  \/ v <= missed' \/ seen'["state"] >= v \/ seen'["deck"] >= v
             \/ \E i \in DOMAIN wire' : wire'[i].name \in Airs /\ wire'[i].rev >= v
  <2>1. seen["state"] >= v => seen'["state"] >= v
    BY <1>1, <1>2
  <2>2. ASSUME NEW i \in DOMAIN wire, wire[i].name \in Airs, wire[i].rev >= v
        PROVE  \/ seen'["state"] >= v
               \/ \E j \in DOMAIN wire' : wire'[j].name \in Airs /\ wire'[j].rev >= v
    <3>1. CASE \E j \in DOMAIN wire' : wire'[j] = wire[i]
      BY <2>2, <3>1
    <3>2. CASE seen'["state"] >= wire[i].rev
      BY <1>1, <1>2, <2>2, <3>2
    <3> QED BY <1>8, <2>2, <3>1, <3>2
  <2>3. \/ v <= missed \/ seen["state"] >= v \/ seen["deck"] >= v
        \/ \E i \in DOMAIN wire : wire[i].name \in Airs /\ wire[i].rev >= v
    BY <1>8 DEF Heard
  <2> QED BY <2>1, <2>2, <2>3
<1> QED BY <1>3, <1>4, <1>5, <1>6, <1>7, <1>8, TuningMoves

(* An event that leaves no doubt puts the player in step.                  *)
LEMMA OnMessageTunes ==
    ASSUME Base, Tuning, phase \in {"loading", "open"}, OnMessage
    PROVE  Placed' /\ Tuning'
<1>1. /\ now \in Nat /\ room \in RoomData /\ room.updatedAt <= now /\ shown \in RoomData
      /\ seen \in [Parts -> Nat] /\ seen["deck"] \in Nat /\ seen["deck"] <= now
      /\ deck \in Deck /\ Following /\ Placed /\ seen["state"] \in Nat
  BY BaseFacts DEF Tuning, Base
<1>2. /\ UNCHANGED <<room, now, missed, sent, ready, call>> /\ wire # <<>>
      /\ wire' = IF Head(wire).name = "kicked" THEN <<>> ELSE Tail(wire)
  BY DEF OnMessage, server
<1>3. CallsKeep
  BY <1>1, <1>2, CallsRest
<1>4. PICK e \in Event : e = Head(wire) /\ 1 \in DOMAIN wire /\ e = wire[1]
  BY <1>1, <1>2, WireShrinks
<1>5. e.room \in RoomData /\ e.rev \in Nat /\ e.rev <= now /\ Honest(e)
  BY <1>4, BaseFacts DEF Event, Tuning
<1>6. \A v \in 0..now : Heard(v) /\ e.rev >= v => SamePlay(e.room, room)
  BY <1>4 DEF Heard
<1>7. /\ \A i \in DOMAIN wire' : \E j \in DOMAIN wire : wire'[i] = wire[j]
      /\ e.name # "kicked" =>
           \A i \in DOMAIN wire : i = 1 \/ \E j \in DOMAIN wire' : wire'[j] = wire[i]
  BY <1>1, <1>2, <1>4, WireShrinks
<1> DEFINE Passes ==
             \A i \in DOMAIN wire : wire[i].name \in Airs =>
               \/ \E j \in DOMAIN wire' : wire'[j] = wire[i]
               \/ seen'["state"] >= wire[i].rev
               \/ phase' \notin {"loading", "open"}
<1>8. CASE e.name = "queue"
  <2>1. /\ shown' = WithQueue(e.room) /\ GivenBut({"queue"}, {}, e.rev)
        /\ UNCHANGED <<phase, dirty, deck>>
    BY <1>4, <1>8 DEF OnMessage, Given
  <2>2. /\ seen' \in [Parts -> Nat]
        /\ \A p \in {"state", "deck"} : seen'[p] = seen[p] /\ (p \in unsure' <=> p \in unsure)
    BY <1>1, <1>5, <2>1, GivenParts DEF Parts
  <2>3. SamePlay(shown', shown)
    BY <1>1, <2>1 DEF WithQueue, SamePlay, RoomData
  <2>4. StateKept
    BY <2>1, <2>2, <2>3 DEF StateKept
  <2>5. Passes
    BY <1>4, <1>7, <1>8 DEF Airs
  <2>6. UNCHANGED <<room, now, deck, ready, sent, missed>>
    BY <1>2, <2>1
  <2>7. seen'["deck"] = seen["deck"] /\ ("deck" \in unsure' <=> "deck" \in unsure)
    BY <2>2
  <2> QED BY <1>3, <1>5, <1>6, <1>7, <2>2, <2>4, <2>5, <2>6, <2>7, PageTunes
<1>9. CASE e.name = "state"
  <2>1. /\ GivenBut({"state"}, {}, e.rev) /\ UNCHANGED <<phase, deck>>
        /\ phase = "open" => shown' = WithState(e.room) /\ dirty'
    BY <1>4, <1>9 DEF OnMessage, Given
  <2>2. /\ seen' \in [Parts -> Nat]
        /\ seen'["deck"] = seen["deck"] /\ ("deck" \in unsure' <=> "deck" \in unsure)
        /\ seen'["state"] >= e.rev /\ seen'["state"] >= seen["state"]
        /\ "state" \notin unsure' => seen'["state"] = e.rev
    BY <1>1, <1>5, <2>1, GivenParts DEF Parts
  <2>3. phase = "open" => SamePlay(shown', e.room)
    BY <1>5, <2>1 DEF WithState, SamePlay, RoomData
  <2>4. StateGiven(e.room, e.rev)
    BY <2>1, <2>2, <2>3 DEF StateGiven
  <2>5. Passes
    BY <1>4, <1>7, <1>9, <2>2
  <2>6. UNCHANGED <<room, now, deck, ready, sent, missed>>
    BY <1>2, <2>1
  <2> QED BY <1>3, <1>5, <1>6, <1>7, <2>2, <2>4, <2>5, <2>6, PageTunes
<1>10. CASE e.name = "kicked"
  <2>1. phase' = "kicked" /\ UNCHANGED <<deck, seen, unsure>>
    BY <1>4, <1>10 DEF OnMessage
  <2>2. StateKept /\ Passes
    BY <2>1 DEF StateKept
  <2>3. UNCHANGED <<room, now, deck, ready, sent, missed>> /\ seen' \in [Parts -> Nat]
    BY <1>1, <1>2, <2>1
  <2>4. seen'["deck"] = seen["deck"] /\ ("deck" \in unsure' <=> "deck" \in unsure)
    BY <2>1
  <2> QED BY <1>3, <1>5, <1>6, <1>7, <2>2, <2>3, <2>4, PageTunes
<1>11. CASE e.name \in {"play", "pause", "seek"}
  <2> DEFINE wrong == IF ready /\ SeeksAstray(e) THEN {"deck"} ELSE {}
             target == Clip(e.room.syncTime + (IF e.name = "play" THEN now - e.room.updatedAt ELSE 0))
  <2>1. /\ IF ready THEN ApplyRemotePlayback(e) ELSE UNCHANGED <<deck, rest>>
        /\ GivenBut({"deck"}, wrong, e.rev)
        /\ UNCHANGED <<phase, shown, dirty>>
    BY <1>4, <1>11 DEF OnMessage, page
  <2>2. wrong \in SUBSET {"deck"} /\ (ready /\ wrong = {} => ~SeeksAstray(e))
    OBVIOUS
  <2> HIDE DEF wrong
  <2>3. /\ seen'["state"] = seen["state"] /\ ("state" \in unsure' <=> "state" \in unsure)
        /\ seen'["deck"] \in Nat /\ seen'["deck"] <= now
        /\ seen'["deck"] >= e.rev /\ seen'["deck"] >= seen["deck"]
        /\ "deck" \notin unsure' => seen'["deck"] = e.rev /\ wrong = {}
    BY <1>5, <2>1, <2>2, DeckGiven
  <2>4. target \in Nat
    <3>1. PICK start \in Int, then \in Int : start = e.room.syncTime /\ then = e.room.updatedAt
      BY <1>5 DEF RoomData
    <3>2. e.room.syncTime + (IF e.name = "play" THEN now - e.room.updatedAt ELSE 0) \in Int
      <4>1. now \in Nat
        BY <1>1
      <4> HIDE DEF target
      <4> QED BY <3>1, <4>1
    <3> QED BY <1>1, <3>2, ClipPlayhead
  <2>5. ready =>
          \/ e.name = "play" /\ \E held \in BOOLEAN : deck' = Put(deck.song, TRUE, target, held)
          \/ e.name = "pause" /\ deck' = Put(deck.song, FALSE, target, FALSE)
          \/ /\ e.name = "seek"
             /\ \E starts \in BOOLEAN :
                  deck' = Put(deck.song, deck.playing \/ starts, target, deck.held /\ ~starts)
    <3>1. ready => PlaybackTo(e, target)
      BY <2>1 DEF ApplyRemotePlayback
    <3>2. (\A plays : Refusals(plays) \subseteq BOOLEAN) /\ Starts \subseteq BOOLEAN
      BY <1>1, TimesAreInts
    <3> HIDE DEF target
    <3> QED BY <3>1, <3>2 DEF PlaybackTo
  <2>6. target = Clip(IF e.name = "play" THEN e.room.syncTime + (now - e.room.updatedAt)
                                         ELSE e.room.syncTime)
    BY <1>1, <1>5, SMTT(30) DEF RoomData
  <2> HIDE DEF target
  <2>7. e.room.playing \in BOOLEAN /\ deck.playing \in BOOLEAN /\ deck.held \in BOOLEAN
    BY <1>1, <1>5 DEF RoomData, Deck
  <2>8. ready => \E playing, held \in BOOLEAN : deck' = Put(deck.song, playing, target, held)
    <3>1. \A starts \in BOOLEAN :
            (deck.playing \/ starts) \in BOOLEAN /\ (deck.held /\ ~starts) \in BOOLEAN
      OBVIOUS
    <3> QED BY <2>5, <3>1
  <2>9. ASSUME ready, ~SeeksAstray(e)
        PROVE  \E held \in BOOLEAN :
                 deck' = Put(deck.song, e.room.playing, Clip(Playhead(e.room, now)), held)
    <3>1. CASE e.name = "play"
      <4>1. e.room.playing = TRUE
        BY <1>5, <2>7, <3>1 DEF Honest
      <4>2. target = Clip(Playhead(e.room, now))
        BY <2>6, <3>1, <4>1 DEF Playhead
      <4>3. \E held \in BOOLEAN : deck' = Put(deck.song, TRUE, target, held)
        BY <2>5, <2>9, <3>1
      <4> QED BY <4>1, <4>2, <4>3
    <3>2. CASE e.name = "pause"
      <4>1. e.room.playing = FALSE
        BY <1>5, <2>7, <3>2 DEF Honest
      <4>2. target = Clip(Playhead(e.room, now))
        BY <2>6, <3>2, <4>1 DEF Playhead
      <4>3. deck' = Put(deck.song, FALSE, target, FALSE)
        BY <2>5, <2>9, <3>2
      <4> QED BY <4>1, <4>2, <4>3
    <3>3. CASE e.name = "seek"
      <4> PICK starts \in BOOLEAN :
                 deck' = Put(deck.song, deck.playing \/ starts, target, deck.held /\ ~starts)
        BY <2>5, <2>9, <3>3
      <4> DEFINE plays == deck.playing \/ starts
                 held == deck.held /\ ~starts
      <4>3. plays \in BOOLEAN /\ held \in BOOLEAN /\ deck' = Put(deck.song, plays, target, held)
        OBVIOUS
      <4>4. ~(plays /\ held)
        BY DEF Base, Seated
      <4> HIDE DEF plays, held
      <4>5. deck'.playing = plays
        BY <4>3, <4>4 DEF Put
      <4>1. plays = e.room.playing /\ (e.room.playing => now = e.room.updatedAt)
        BY <2>7, <2>9, <3>3, <4>3, <4>5 DEF SeeksAstray
      <4>2. target = Clip(Playhead(e.room, now))
        <5>1. Playhead(e.room, now) = e.room.syncTime
          BY <1>1, <1>5, <4>1 DEF Playhead, RoomData
        <5> QED BY <2>6, <3>3, <5>1
      <4> QED BY <4>1, <4>2, <4>3
    <3> QED BY <1>11, <3>1, <3>2, <3>3
  <2>10. Placed'
    <3>1. CASE ready
      <4>1. PICK playing \in BOOLEAN, held \in BOOLEAN : deck' = Put(deck.song, playing, target, held)
        BY <2>8, <3>1
      <4>2. Position' = target
        BY <1>1, <1>2, <2>4, <4>1, PutPlaces
      <4> QED BY <1>1, <1>2, <2>4, <4>2 DEF Placed
    <3>2. CASE ~ready
      BY <1>1, <1>2, <2>1, <3>2 DEF Placed, Position
    <3> QED BY <3>1, <3>2
  <2>11. Relayed'
    BY <1>1, <1>2, <2>1, <2>3 DEF Tuning, Relayed
  <2>12. ~ready' => deck'.song = NoSong
    BY <1>2, <2>1 DEF Tuning
  <2>13. ASSUME NEW v \in 0..now, Heard(v)
         PROVE  Plays(v)'
    <3> SUFFICES ASSUME ready', "deck" \notin unsure', ~deck'.held, seen'["deck"] >= v
                 PROVE  InStep'
      BY DEF Plays
    <3>1. ready /\ e.rev >= v /\ ~SeeksAstray(e)
      BY <1>2, <2>2, <2>3
    <3>2. SamePlay(e.room, room)
      BY <1>6, <2>13, <3>1
    <3>3. PICK held \in BOOLEAN :
            deck' = Put(deck.song, e.room.playing, Clip(Playhead(e.room, now)), held)
      BY <2>9, <3>1
    <3> QED BY <1>1, <1>2, <1>5, <3>2, <3>3, PutInStep
  <2>14. ASSUME NEW v \in 0..now, Heard(v)
         PROVE  /\ phase' = "open" /\ "state" \notin unsure' /\ seen'["state"] >= v =>
                     SamePlay(shown', room)
                /\ phase' \in {"loading", "open"} =>
                     \/ v <= missed' \/ seen'["state"] >= v \/ seen'["deck"] >= v
                     \/ \E i \in DOMAIN wire' : wire'[i].name \in Airs /\ wire'[i].rev >= v
    <3>1. seen["deck"] >= v => seen'["deck"] >= v
      BY <1>1, <2>3
    <3>2. e.rev >= v => seen'["deck"] >= v
      BY <1>5, <2>3
    <3>3. \A i \in DOMAIN wire : i = 1 \/ \E j \in DOMAIN wire' : wire'[j] = wire[i]
      BY <1>7, <1>11
    <3> QED BY <1>2, <1>4, <2>1, <2>3, <2>14, <3>1, <3>2, <3>3 DEF Heard
  <2> QED BY <1>2, <1>3, <1>7, <2>3, <2>10, <2>11, <2>12, <2>13, <2>14, TuningMoves
<1> QED BY <1>4, <1>8, <1>9, <1>10, <1>11 DEF Event, Names

(* An answer makes the effect run, or puts the player in step.             *)
LEMMA OnAnswerTunes ==
    ASSUME Base, Tuning, phase \in {"loading", "open"}, NEW k \in Call, OnAnswer(k)
    PROVE  Placed' /\ Tuning'
<1>1. /\ now \in Nat /\ room \in RoomData /\ room.updatedAt <= now /\ shown \in RoomData
      /\ seen \in [Parts -> Nat] /\ seen["deck"] \in Nat /\ seen["deck"] <= now
      /\ deck \in Deck /\ Following /\ Placed /\ seen["state"] \in Nat
  BY BaseFacts DEF Tuning, Base
<1>2. UNCHANGED <<room, now, wire, missed, sent, ready>>
  BY DEF OnAnswer, Stays, server
<1>3. CallsKeep
  <2>1. call' = [call EXCEPT ![k] = NoCall]
    BY DEF OnAnswer
  <2> QED BY <1>1, <2>1, CallChanges
<1>4. PICK c : c = call[k]
  OBVIOUS
<1>5. c.room \in RoomData /\ c.rev \in Nat /\ c.rev <= now
  BY <1>1, <1>4 DEF OnAnswer, Back, Following, Typed, Dated
<1>6. \A v \in 0..now : Heard(v) /\ c.rev >= v => SamePlay(c.room, room)
  BY <1>4 DEF OnAnswer, Back, Heard
<1>7. /\ \A i \in DOMAIN wire' : \E j \in DOMAIN wire : wire'[i] = wire[j]
      /\ \A i \in DOMAIN wire : wire[i].name \in Airs =>
           \/ \E j \in DOMAIN wire' : wire'[j] = wire[i]
           \/ seen'["state"] >= wire[i].rev
           \/ phase' \notin {"loading", "open"}
  BY <1>2
<1>8. ASSUME UNCHANGED deck, seen' \in [Parts -> Nat], seen'["deck"] = seen["deck"],
             "deck" \in unsure' <=> "deck" \in unsure,
             StateKept \/ StateGiven(c.room, c.rev)
      PROVE  Placed' /\ Tuning'
  <2>1. UNCHANGED <<room, now, deck, ready, sent, missed>>
    BY <1>2, <1>8
  <2> QED BY <1>3, <1>5, <1>6, <1>7, <1>8, <2>1, PageTunes
<1>9. CASE c.kind = "queue"
  <2>1. /\ shown' = WithQueue(c.room) /\ GivenBut({"queue"}, {}, c.rev)
        /\ UNCHANGED <<phase, dirty, deck>>
    BY <1>4, <1>9 DEF OnAnswer, Given
  <2>2. /\ seen' \in [Parts -> Nat]
        /\ \A p \in {"state", "deck"} : seen'[p] = seen[p] /\ (p \in unsure' <=> p \in unsure)
    BY <1>1, <1>5, <2>1, GivenParts DEF Parts
  <2>3. SamePlay(shown', shown)
    BY <1>1, <2>1 DEF WithQueue, SamePlay, RoomData
  <2>4. StateKept
    BY <2>1, <2>2, <2>3 DEF StateKept
  <2> QED BY <1>8, <2>1, <2>2, <2>4
<1>10. CASE c.kind \in {"playNow", "control"}
  <2>1. /\ shown' = WithState(c.room) /\ GivenBut({"state"}, {}, c.rev) /\ dirty'
        /\ UNCHANGED <<phase, deck>>
    BY <1>4, <1>10 DEF OnAnswer, Given
  <2>2. /\ seen' \in [Parts -> Nat]
        /\ seen'["deck"] = seen["deck"] /\ ("deck" \in unsure' <=> "deck" \in unsure)
        /\ seen'["state"] >= c.rev /\ seen'["state"] >= seen["state"]
        /\ "state" \notin unsure' => seen'["state"] = c.rev
    BY <1>1, <1>5, <2>1, GivenParts DEF Parts
  <2>3. SamePlay(shown', c.room)
    BY <1>5, <2>1 DEF WithState, SamePlay, RoomData
  <2>4. StateGiven(c.room, c.rev)
    BY <2>1, <2>2, <2>3 DEF StateGiven
  <2> QED BY <1>8, <2>1, <2>2, <2>4
<1>11. CASE c.kind = "next"
  <2>1. PICK left \in Remaining(c.room) : shown' = [WithState(c.room) EXCEPT !.queue = left]
    BY <1>4, <1>11 DEF OnAnswer
  <2>2. /\ seen' = [seen EXCEPT !["state"] = IF c.rev > @ THEN c.rev ELSE @]
        /\ unsure' = (IF c.rev < seen["state"] THEN unsure \cup {"state"} ELSE unsure \ {"state"})
                       \cup (IF FiltersAstray(c.room, c.rev) THEN {"queue"} ELSE {})
        /\ UNCHANGED deck /\ dirty'
    BY <1>4, <1>11 DEF OnAnswer
  <2>3. /\ seen' \in [Parts -> Nat]
        /\ seen'["deck"] = seen["deck"] /\ ("deck" \in unsure' <=> "deck" \in unsure)
        /\ seen'["state"] >= c.rev /\ seen'["state"] >= seen["state"]
        /\ "state" \notin unsure' => seen'["state"] = c.rev
    BY <1>1, <1>5, <2>2 DEF Parts
  <2>4. SamePlay(shown', c.room)
    BY <1>5, <2>1 DEF WithState, SamePlay, RoomData
  <2>5. StateGiven(c.room, c.rev)
    BY <2>2, <2>3, <2>4 DEF StateGiven
  <2> QED BY <1>8, <2>2, <2>3, <2>5
<1>12. CASE c.kind = "load"
  <2> DEFINE plays == c.force /\ ready /\ c.room.song # NoSong
  <2>1. /\ shown' = c.room /\ phase' = "open" /\ dirty'
        /\ c.force => Sync(c.room, TRUE)
        /\ ~c.force => UNCHANGED deck
        /\ GivenBut(IF plays THEN Parts ELSE {"state", "queue"}, {}, c.rev)
    BY <1>4, <1>12 DEF OnAnswer, Loaded, Given
  <2>2. SamePlay(shown', c.room)
    BY <2>1, SamePlays
  <2>3. CASE ~plays
    <3>1. UNCHANGED deck
      BY <1>2, <2>1, <2>3 DEF Sync, Acts
    <3>2. GivenBut({"state", "queue"}, {}, c.rev)
      BY <2>1, <2>3
    <3>3. /\ seen' \in [Parts -> Nat]
          /\ seen'["deck"] = seen["deck"] /\ ("deck" \in unsure' <=> "deck" \in unsure)
          /\ seen'["state"] >= c.rev /\ seen'["state"] >= seen["state"]
          /\ "state" \notin unsure' => seen'["state"] = c.rev
      BY <1>1, <1>5, <3>2, GivenParts DEF Parts
    <3>4. StateGiven(c.room, c.rev)
      BY <2>1, <2>2, <3>3 DEF StateGiven
    <3> QED BY <1>8, <3>1, <3>3, <3>4
  <2>4. CASE plays
    <3>1. ready /\ Sync(c.room, TRUE) /\ GivenBut(Parts, {}, c.rev) /\ c.room.song # NoSong
      BY <2>1, <2>4
    <3>2. PICK held \in BOOLEAN :
            deck' = Put(c.room.song, c.room.playing, Clip(Playhead(c.room, now)), held)
      BY <1>1, <1>2, <3>1, TimesAreInts DEF Sync, Acts
    <3>3. /\ seen' \in [Parts -> Nat]
          /\ \A p \in {"state", "deck"} :
               /\ seen'[p] >= c.rev /\ seen'[p] >= seen[p] /\ seen'[p] \in {seen[p], c.rev}
               /\ p \notin unsure' => seen'[p] = c.rev
      BY <1>1, <1>5, <3>1, GivenParts DEF Parts
    <3>4. Placed'
      <4>1. PICK position \in Nat : position = Clip(Playhead(c.room, now))
        BY <1>1, <1>5, ClipPlayhead
      <4>2. c.room.playing \in BOOLEAN
        BY <1>5 DEF RoomData
      <4>3. Position' = position
        BY <1>1, <1>2, <3>2, <4>1, <4>2, PutPlaces
      <4> QED BY <1>1, <1>2, <4>3 DEF Placed
    <3>5. Relayed' /\ (~ready' => deck'.song = NoSong)
      BY <1>2, <2>1, <3>1 DEF Relayed
    <3>6. seen'["deck"] <= now
      BY <1>1, <1>5, <3>3
    <3>7. ASSUME NEW v \in 0..now, Heard(v)
          PROVE  Plays(v)'
      <4> SUFFICES ASSUME "deck" \notin unsure', ~deck'.held, seen'["deck"] >= v
                   PROVE  InStep'
        BY DEF Plays
      <4>1. c.rev >= v
        BY <3>3
      <4>2. SamePlay(c.room, room)
        BY <1>6, <3>7, <4>1
      <4> QED BY <1>1, <1>2, <1>5, <3>2, <4>2, PutInStep
    <3>8. ASSUME NEW v \in 0..now, Heard(v)
          PROVE  /\ phase' = "open" /\ "state" \notin unsure' /\ seen'["state"] >= v =>
                      SamePlay(shown', room)
                 /\ phase' \in {"loading", "open"} =>
                      \/ v <= missed' \/ seen'["state"] >= v \/ seen'["deck"] >= v
                      \/ \E i \in DOMAIN wire' : wire'[i].name \in Airs /\ wire'[i].rev >= v
      <4>1. "state" \notin unsure' /\ seen'["state"] >= v => SamePlay(shown', room)
        <5>1. "state" \notin unsure' => seen'["state"] = c.rev
          BY <3>3
        <5> QED BY <1>6, <2>1, <3>8, <5>1
      <4>2. (seen["deck"] >= v => seen'["deck"] >= v) /\ (seen["state"] >= v => seen'["state"] >= v)
        <5>1. seen'["state"] \in Nat /\ seen'["deck"] \in Nat
          BY <3>3 DEF Parts
        <5> QED BY <1>1, <3>3, <5>1
      <4>3. \/ v <= missed \/ seen["state"] >= v \/ seen["deck"] >= v
            \/ \E i \in DOMAIN wire : wire[i].name \in Airs /\ wire[i].rev >= v
        BY <3>8 DEF Heard
      <4> QED BY <1>2, <4>1, <4>2, <4>3
    <3>9. \A i \in DOMAIN wire' : \E j \in DOMAIN wire : wire'[i] = wire[j]
      BY <1>2
    <3> QED BY <1>2, <1>3, <3>4, <3>5, <3>6, <3>7, <3>8, <3>9, TuningMoves
  <2> QED BY <2>3, <2>4
<1> QED BY <1>4, <1>9, <1>10, <1>11, <1>12 DEF OnAnswer

(* Every step keeps the player in tune.                                    *)
LEMMA NextTunes ==
    ASSUME Base, Tuning, Next
    PROVE  Placed' /\ Tuning'
<1>1. phase \in {"loading", "open"}
  BY DEF Next
<1>2. CASE TogglePlay
  <2>1. PICK playing \in Playing : Drive(IF playing THEN "pause" ELSE "play", GetTime, ~playing)
    BY <1>2 DEF TogglePlay
  <2>2. GetTime \in Nat
    BY DEF GetTime, Base, Placed
  <2>3. (~playing) \in BOOLEAN
    OBVIOUS
  <2> QED BY <2>1, <2>2, <2>3, DriveTunes
<1>3. CASE CommitSeek
  <2>1. PICK pos \in Pos, playing \in Playing, starts \in Starts :
          Drive("seek", pos, deck.playing \/ playing \/ starts)
    BY <1>3 DEF CommitSeek
  <2>2. pos \in Nat /\ (deck.playing \/ playing \/ starts) \in BOOLEAN
    BY PageAssumption
  <2> QED BY <2>1, <2>2, DriveTunes
<1>4. CASE Calls
  <2>1. PICK k \in Call : Handle(k) \/ OnAnswer(k) \/ CallFails(k)
    BY <1>4 DEF Calls
  <2> QED BY <1>1, <2>1, HandleTunes, OnAnswerTunes, QuietStepsTune
<1>5. CASE StartListening
  BY <1>5, StartListeningTunes
<1>6. CASE UserCalls \/ Tick \/ Poll \/ OnOpen \/ Attached
  BY <1>6, QuietStepsTune
<1>7. CASE OtherChange \/ HandlePlayback
  BY <1>7, OtherChangeTunes, HandlePlaybackTunes
<1>8. CASE Effect \/ OnReady
  BY <1>8, EffectTunes
<1>9. CASE OnMessage
  BY <1>1, <1>9, OnMessageTunes
<1>10. CASE OnEnded \/ Disconnected
  BY <1>10, OnEndedTunes, DisconnectedTunes
<1>11. CASE OnUserPlay
  BY <1>11, OnUserPlayTunes
<1> QED BY <1>2, <1>3, <1>4, <1>5, <1>6, <1>7, <1>8, <1>9, <1>10, <1>11 DEF Next, UserActs

-----------------------------------------------------------------------------
(* The invariant of the page.                                              *)

IInv == Base /\ Rested /\ Tuning

(* A page that is being opened knows nothing and plays nothing.            *)
LEMMA InitIInv == Init => IInv
<1> SUFFICES ASSUME Init
             PROVE  IInv
  OBVIOUS
<1>1. /\ now = 0 /\ me \in User /\ link = "down" /\ opened = FALSE /\ wire = <<>> /\ sent = <<>>
      /\ losses = 0 /\ phase = "loading" /\ shown = NewRoom(0) /\ ready = FALSE /\ told = NoSong
      /\ idle = FALSE /\ stirs = FALSE
      /\ deck = [song |-> NoSong, playing |-> FALSE, held |-> FALSE, origin |-> 0]
      /\ seen = [p \in Parts |-> 0] /\ unsure = {} /\ missed = 0 /\ fetched = 0
  BY DEF Init
<1>2. shown \in RoomData
  BY <1>1, NewRoomFit DEF Fit
<1>3. Fit(room, 0, TRUE)
  <2>1. PICK data : data = NewRoom(0)
    OBVIOUS
  <2>2. /\ data \in RoomData /\ data.updatedAt = 0 /\ data.syncTime = 0 /\ data.everyone = FALSE
    BY <2>1, NewRoomFit DEF Fit, NewRoom
  <2>3. room = [data EXCEPT !.song = FirstSong, !.playing = FirstSong # NoSong,
                            !.queue = FirstQueue, !.users = User]
    BY <2>1 DEF Init
  <2>4. PICK plays \in BOOLEAN : plays = (FirstSong # NoSong)
    OBVIOUS
  <2>5. room = [data EXCEPT !.song = FirstSong, !.playing = plays,
                            !.queue = FirstQueue, !.users = User]
    BY <2>3, <2>4
  <2>6. room \in RoomData
    BY <2>2, <2>5, PageAssumption DEF RoomData
  <2>7. /\ room.queue = FirstQueue /\ room.users = User /\ room.updatedAt = 0
        /\ room.everyone = FALSE
    BY <2>2, <2>5 DEF RoomData
  <2>8. WellFormed(room) /\ Ranked(room.queue)
    BY <2>7, PageAssumption DEF WellFormed
  <2> QED BY <2>6, <2>7, <2>8 DEF Fit
<1>4. call = [k \in Call |-> call[k]] /\ \A k \in Call : ~Back(k)
  <2>1. PICK first \in Call :
          call = [k \in Call |-> IF k = first THEN AsksRoom(FALSE) ELSE NoCall]
    BY DEF Init
  <2>2. AsksRoom(FALSE).phase = "sent" /\ NoCall.kind = "none"
    BY DEF AsksRoom, Asks, NoCall
  <2> QED BY <2>1, <2>2 DEF Back
<1>5. wire \in Seq(Event) /\ DOMAIN wire = {} /\ sent \in Seq(Message)
  BY <1>1
<1>6. Typed
  BY <1>1, <1>2, <1>3, <1>4, <1>5 DEF Typed
<1>7. Dated
  BY <1>1, <1>4, <1>5 DEF Dated, News, Parts
<1>8. UpToDate
  <2>1. ASSUME NEW p \in News
        PROVE  Since(p, 0)
    BY <1>1, <1>4, <1>5, <2>1 DEF Since, News, Parts
  <2> QED BY <1>1, <2>1 DEF UpToDate
<1>9. Linked
  <2>1. now <= MaxClock /\ losses \in 0..MaxLosses
    BY <1>1, PageAssumption
  <2> QED BY <1>1, <1>5, <2>1 DEF Linked
<1>10. Seated
  BY <1>1 DEF Seated, Deck
<1>11. Placed
  <2>1. Position = 0
    BY <1>1 DEF Position
  <2>2. room.syncTime = 0
    <3>1. PICK data : data = NewRoom(0)
      OBVIOUS
    <3>2. data.syncTime = 0
      BY <3>1 DEF NewRoom
    <3>3. room.syncTime = data.syncTime
      BY <3>1, NewRoomFit DEF Init, Fit, RoomData
    <3> QED BY <3>2, <3>3
  <2> QED BY <2>1, <2>2 DEF Placed
<1>12. Tuning
  <2>1. seen["deck"] = 0 /\ seen["state"] = 0
    BY <1>1 DEF Parts
  <2>2. deck.song = NoSong /\ Relayed
    BY <1>1 DEF Relayed
  <2>3. Plays(0)
    BY <1>1 DEF Plays
  <2>4. Heard(0)
    BY <1>1, <1>4, <1>5, <2>1, <2>3 DEF Heard
  <2> QED BY <1>1, <1>5, <2>1, <2>2, <2>4 DEF Tuning
<1>13. Rested
  BY <1>1 DEF Rested
<1> QED BY <1>6, <1>7, <1>8, <1>9, <1>10, <1>11, <1>12, <1>13 DEF IInv, Base, Following

(* A step that changes nothing keeps the invariant.                        *)
LEMMA SameIInv ==
    ASSUME IInv, UNCHANGED vars
    PROVE  IInv'
<1>1. UNCHANGED <<room, now, me, link, opened, wire, sent, losses, call, phase, shown, dirty,
                  told, ready, deck, idle, stirs, seen, unsure, missed, fetched>>
  BY DEF vars, server, socket, page, player, rest, history
<1>2. CallsKeep /\ PageKeeps
  BY <1>1 DEF CallsKeep, PageKeeps, Back, IInv, Base, Following, Typed
<1>3. Following'
  BY <1>1, <1>2, RestKeeps DEF IInv, Base
<1>4. Linked' /\ Seated'
  BY <1>1 DEF IInv, Base, Linked, Seated
<1>5. Placed' /\ Tuning' /\ Rested'
  BY <1>1, <1>2, StillTunes DEF IInv, Rested
<1> QED BY <1>3, <1>4, <1>5 DEF IInv, Base

(* What was proved of each action, put together.                           *)
LEMMA NextKeeps ==
    ASSUME Following, Linked, Seated, Placed, Next
    PROVE  Following' /\ Linked' /\ Seated'
<1>1. phase \in {"loading", "open"}
  BY DEF Next
<1>2. ASSUME OtherChange \/ Tick \/ HandlePlayback \/ OnOpen \/ Attached \/ Disconnected
      PROVE  Following' /\ Linked' /\ Seated'
  <2>1. Following' /\ Linked'
    BY <1>2, OtherChangeKeeps, TickKeeps, HandlePlaybackKeeps, LinkUpKeeps, DisconnectedKeeps
  <2>2. UNCHANGED <<page, told, ready, deck>> /\ (UNCHANGED unsure \/ Doubt({"deck"}))
    BY <1>2 DEF OtherChange, Tick, HandlePlayback, OnOpen, Attached, Disconnected, player, history
  <2>3. unsure' \subseteq Parts
    <3>1. {"deck"} \in SUBSET Parts
      BY DEF Parts
    <3> QED BY <2>2, <3>1, DoubtsParts DEF Seated
  <2>4. Seated'
    BY <2>2, <2>3 DEF Seated, page
  <2> QED BY <2>1, <2>4
<1>3. CASE Effect \/ OnReady
  BY <1>3, EffectKeeps, SyncShownSeats
<1>4. CASE OnMessage
  <2>1. Linked'
    <3>1. /\ UNCHANGED <<now, me, opened, sent, losses, missed>> /\ wire # <<>>
          /\ wire' = IF Head(wire).name = "kicked" THEN <<>> ELSE Tail(wire)
          /\ link' = link \/ (link' = "down" /\ Head(wire).name = "kicked")
      BY <1>4 DEF OnMessage, server
    <3>2. link = "attached" /\ (link' # "attached" => wire' = <<>>)
      BY <3>1 DEF Linked
    <3> QED BY <3>1, <3>2 DEF Linked
  <2> QED BY <1>1, <1>4, <2>1, OnMessageKeeps, OnMessageSeats
<1>5. CASE Poll \/ OnEnded \/ OnUserPlay \/ UserActs
  <2>1. Following' /\ Linked'
    <3>1. CASE TogglePlay
      <4>1. PICK playing \in Playing : Drive(IF playing THEN "pause" ELSE "play", GetTime, ~playing)
        BY <3>1 DEF TogglePlay
      <4>2. GetTime \in Nat /\ (IF playing THEN "pause" ELSE "play") \in {"play", "pause", "seek"}
        BY DEF GetTime, Placed
      <4> QED BY <4>1, <4>2, DriveKeeps
    <3>2. CASE CommitSeek
      <4>1. PICK pos \in Pos, playing \in Playing, starts \in Starts :
              Drive("seek", pos, deck.playing \/ playing \/ starts)
        BY <3>2 DEF CommitSeek
      <4>2. pos \in Nat
        BY PageAssumption
      <4> QED BY <4>1, <4>2, DriveKeeps
    <3>3. CASE StartListening
      BY <3>3, StartListeningKeeps
    <3>4. CASE Poll \/ OnEnded \/ UserCalls
      BY <3>4, PollKeeps, AsksKeep
    <3>5. CASE OnUserPlay
      BY <3>5, OnUserPlayKeeps DEF Placed
    <3> QED BY <1>5, <3>1, <3>2, <3>3, <3>4, <3>5 DEF UserActs
  <2>2. Seated'
    BY <1>5, UserSeats
  <2> QED BY <2>1, <2>2
<1>6. CASE Calls
  <2>1. PICK k \in Call : Handle(k) \/ OnAnswer(k) \/ CallFails(k)
    BY <1>6 DEF Calls
  <2>2. CASE Handle(k)
    <3>1. Following' /\ Linked'
      BY <2>2, HandleKeeps
    <3>2. Seated'
      BY <2>2 DEF Handle, Seated, page, player
    <3> QED BY <3>1, <3>2
  <2>3. CASE OnAnswer(k)
    <3>1. Linked'
      BY <2>3 DEF OnAnswer, Stays, server, Linked
    <3> QED BY <1>1, <2>3, <3>1, OnAnswerKeeps, OnAnswerSeats
  <2>4. CASE CallFails(k)
    <3>1. Following' /\ Linked'
      BY <2>4, CallFailsKeeps
    <3>2. Seated'
      BY <1>1, <2>4 DEF CallFails, Seated, player
    <3> QED BY <3>1, <3>2
  <2> QED BY <2>1, <2>2, <2>3, <2>4
<1> QED BY <1>2, <1>3, <1>4, <1>5, <1>6 DEF Next

(* Every step keeps the invariant.                                         *)
LEMMA NextIInv ==
    ASSUME IInv, [Next]_vars
    PROVE  IInv'
<1>1. CASE UNCHANGED vars
  BY <1>1, SameIInv
<1>2. CASE Next
  <2>1. Following' /\ Linked' /\ Seated'
    BY <1>2, NextKeeps DEF IInv, Base
  <2>2. Placed' /\ Tuning'
    BY <1>2, NextTunes DEF IInv
  <2>3. Rested'
    BY <1>2, NextRested DEF IInv
  <2> QED BY <2>1, <2>2, <2>3 DEF IInv, Base
<1> QED BY <1>1, <1>2

(* The page always is in a state that the invariant describes.             *)
THEOREM Invariance == Spec => []IInv
<1>1. IInv /\ [Next]_vars => IInv'
  BY NextIInv
<1> QED BY <1>1, InitIInv, PTL DEF Spec

(* The state keeps its types (Room.tsx, RoomPage.TypeOK).                  *)
THEOREM TypeCorrect == Spec => []TypeOK
<1>1. IInv => TypeOK
  BY DEF IInv, Base, Following, Typed, Fit, Linked, Seated, Rested, Deck, TypeOK
<1> QED BY <1>1, Invariance, PTL

(* A player that is ready has the song that the page shows, once the       *)
(* effect on a changed room has run (syncPlayerToState).                   *)
THEOREM DeckFollowsHolds == Spec => []DeckFollows
<1>1. IInv => DeckFollows
  BY DEF IInv, Base, Seated, DeckFollows
<1> QED BY <1>1, Invariance, PTL

(* Once nothing is under way, the page shows the room.                     *)
LEMMA QuietShows == IInv => Settles
<1> SUFFICES ASSUME IInv, Quiet, missed <= fetched
             PROVE  /\ "state" \notin unsure =>
                         shown.song = room.song /\ shown.everyone = room.everyone
                    /\ "queue" \notin unsure => shown.queue = room.queue
  BY DEF Settles
<1>1. phase = "open" /\ DOMAIN wire = {}
  BY DEF Quiet
<1>2. ASSUME NEW p \in News, p \notin unsure
      PROVE  Alike(p, shown, room)
  <2>1. PICK v \in 0..now : Since(p, v)
    BY DEF IInv, Base, Following, UpToDate
  <2>2. fetched <= seen[p] /\ seen[p] \in Nat /\ fetched \in Nat /\ missed \in Nat
    BY DEF IInv, Base, Following, Typed, Dated, News, Parts
  <2>3. v <= missed \/ seen[p] >= v
    BY <1>1, <2>1 DEF Since
  <2>4. seen[p] >= v
    BY <2>1, <2>2, <2>3
  <2> QED BY <1>1, <1>2, <2>1, <2>4 DEF Since
<1> QED BY <1>2 DEF News, Alike

(* Once nothing is under way, the page shows the stored room unless it     *)
(* missed a change or was told old news (loadRoom, onmessage).             *)
THEOREM SettlesHolds == Spec => []Settles
BY QuietShows, Invariance, PTL

(* Once nothing is under way and nothing is in doubt, the player was told  *)
(* of the version that plays, so it is in step with it.                    *)
LEMMA QuietPlays == IInv => InTune
<1> SUFFICES ASSUME IInv, WellInformed, ready
             PROVE  /\ deck.song = room.song /\ deck.playing = room.playing
                    /\ Position = Playhead(room, now)
  BY DEF InTune
<1>1. /\ phase = "open" /\ ~dirty /\ sent = <<>> /\ DOMAIN wire = {} /\ Quiet
      /\ missed <= fetched /\ room.song # NoSong /\ ~deck.held
      /\ "state" \notin unsure /\ "deck" \notin unsure
  BY DEF WellInformed, Quiet
<1>2. shown.song = room.song
  BY <1>1, QuietShows DEF Settles
<1>3. deck.song = room.song
  BY <1>1, <1>2 DEF IInv, Base, Seated
<1>4. /\ now \in Nat /\ missed \in Nat /\ fetched \in Nat /\ fetched <= seen["state"]
      /\ seen["state"] \in Nat /\ seen["deck"] \in Nat /\ room \in RoomData
  BY BaseFacts DEF IInv, Base, Following, Typed, Dated, News
<1>5. PICK v \in 0..now : Heard(v)
  BY DEF IInv, Tuning
<1>6. seen["deck"] >= v
  <2>1. v <= missed \/ seen["state"] >= v \/ seen["deck"] >= v
    BY <1>1, <1>5 DEF Heard
  <2>2. seen["deck"] >= seen["state"]
    BY <1>1, <1>2 DEF IInv, Tuning, Relayed
  <2> QED BY <1>1, <1>4, <2>1, <2>2
<1>7. InStep \/ Over
  BY <1>1, <1>3, <1>5, <1>6 DEF Heard, Plays
<1>8. ~Over
  <2> SUFFICES ASSUME Over
               PROVE  FALSE
    OBVIOUS
  <2>1. /\ Playhead(room, now) \in Int /\ room.song \in Song
        /\ Duration[room.song] \in Nat
    BY <1>1, <1>4, TimesAreInts DEF RoomData
  <2>2. Playhead(room, now) < Duration[room.song]
    BY DEF Over, WellInformed
  <2>3. Playhead(room, now) >= Duration[room.song]
    BY DEF Over
  <2> QED BY <2>1, <2>2, <2>3
<1> QED BY <1>3, <1>7, <1>8 DEF InStep

(* Once nothing is under way, a player that was told enough plays what     *)
(* the room plays, where the room is (applyRemotePlayback).                *)
THEOREM InTuneHolds == Spec => []InTune
BY QuietPlays, Invariance, PTL

=============================================================================
