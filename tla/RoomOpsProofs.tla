--------------------------- MODULE RoomOpsProofs ---------------------------
(***************************************************************************)
(* What the handlers make of a stored room, for any users, songs and       *)
(* queues: a fit room stays fit, and a vote sorts.  Room and RoomPage rest *)
(* on these lemmas.                                                        *)
(***************************************************************************)
EXTENDS RoomOps, SequenceTheorems, FiniteSetTheorems, TLAPS

USE HostAssumption, SongAssumption, TimeAssumption

-----------------------------------------------------------------------------
(* Queues.                                                                 *)

GoodQueue(queue) ==
    /\ queue \in Seq(Item)
    /\ NoDuplicates(queue)
    /\ VotesAreVoters(queue)

(* A queue made of items of a ranked one in their order is ranked.         *)
LEMMA ThinnedRanked ==
    ASSUME NEW queue \in Seq(Item), Ranked(queue), NEW q \in Seq(Item),
           NEW from \in [1..Len(q) -> 1..Len(queue)],
           \A k \in 1..Len(q) : q[k] = queue[from[k]],
           \A j, k \in 1..Len(q) : j < k => from[j] < from[k]
    PROVE  Ranked(q)
<1>1. DOMAIN q = 1..Len(q) /\ DOMAIN queue = 1..Len(queue)
  BY LenProperties
<1> QED BY <1>1 DEF Ranked

(* Songs without a vote may be appended to any ranked queue.               *)
LEMMA AppendedRanked ==
    ASSUME NEW queue \in Seq(Item), Ranked(queue), NEW tail \in Seq(Item),
           \A k \in DOMAIN tail : tail[k].votes = 0
    PROVE  Ranked(queue \o tail)
<1> DEFINE n == Len(queue)
           q == queue \o tail
<1>1. /\ n \in Nat /\ Len(tail) \in Nat
      /\ DOMAIN queue = 1..n /\ DOMAIN tail = 1..Len(tail) /\ DOMAIN q = 1..n+Len(tail)
  BY LenProperties, ConcatProperties
<1>2. \A k \in 1..n+Len(tail) : q[k] = IF k <= n THEN queue[k] ELSE tail[k-n]
  BY ConcatProperties
<1>3. \A k \in 1..n : queue[k].votes \in Nat
  <2>1. \A k \in 1..n : queue[k] \in Item
    BY <1>1
  <2> QED BY <2>1 DEF Item
<1> HIDE DEF q
<1>4. ASSUME NEW j \in 1..n+Len(tail), NEW k \in 1..n+Len(tail), j < k
      PROVE  q[j].votes >= q[k].votes
  <2>1. CASE k <= n
    <3>1. j \in 1..n /\ k \in 1..n
      BY <1>1, <1>4, <2>1
    <3>2. q[j] = queue[j] /\ q[k] = queue[k]
      BY <1>1, <1>2, <3>1
    <3>3. queue[j].votes >= queue[k].votes
      BY <1>1, <1>4, <3>1 DEF Ranked
    <3> QED BY <3>2, <3>3
  <2>2. CASE k > n
    <3>1. q[k].votes = 0
      <4>1. k - n \in DOMAIN tail
        BY <1>1, <2>2
      <4>2. q[k] = tail[k-n]
        BY <1>2, <2>2
      <4> QED BY <4>1, <4>2
    <3>2. CASE j <= n
      <4>1. q[j].votes \in Nat
        BY <1>1, <1>2, <1>3, <3>2
      <4> QED BY <3>1, <4>1
    <3>3. CASE j > n
      <4>1. j - n \in DOMAIN tail
        BY <1>1, <3>3
      <4>2. q[j] = tail[j-n]
        BY <1>2, <3>3
      <4>3. q[j].votes = 0
        BY <4>1, <4>2
      <4> QED BY <3>1, <4>3
    <3> QED BY <1>1, <3>2, <3>3
  <2> QED BY <1>1, <2>1, <2>2
<1> QED BY <1>1, <1>4 DEF Ranked, q

(* A song nobody has voted for is a queue item.                            *)
LEMMA FreshItem ==
    ASSUME NEW song \in Song
    PROVE  /\ Fresh(song) \in Item
           /\ Fresh(song).song = song
           /\ Fresh(song).votes = 0
           /\ Fresh(song).votes = Cardinality(Fresh(song).voters)
<1>1. Cardinality({}) = 0
  BY FS_EmptySet
<1> QED BY <1>1 DEF Fresh, Item

(* A song that is not queued may be appended.                              *)
LEMMA AppendGood ==
    ASSUME NEW queue, GoodQueue(queue), Ranked(queue), NEW song \in Song,
           \A i \in DOMAIN queue : queue[i].song # song
    PROVE  GoodQueue(Append(queue, Fresh(song))) /\ Ranked(Append(queue, Fresh(song)))
<1> DEFINE n == Len(queue)
           q == Append(queue, Fresh(song))
<1>1. queue \in Seq(Item) /\ n \in Nat /\ DOMAIN queue = 1..n
  BY DEF GoodQueue
<1>2. q \in Seq(Item) /\ DOMAIN q = 1..n+1
  BY <1>1, FreshItem
<1>3. \A i \in 1..n : q[i] = queue[i]
  BY <1>1
<1>4. q[n+1] = Fresh(song)
  BY <1>1
<1>5. NoDuplicates(q)
  BY <1>1, <1>2, <1>3, <1>4, FreshItem DEF GoodQueue, NoDuplicates
<1>6. VotesAreVoters(q)
  BY <1>1, <1>2, <1>3, <1>4, FreshItem DEF GoodQueue, VotesAreVoters
<1>7. Ranked(q)
  <2>1. <<Fresh(song)>> \in Seq(Item) /\ \A k \in DOMAIN <<Fresh(song)>> : <<Fresh(song)>>[k].votes = 0
    BY FreshItem
  <2>2. q = queue \o <<Fresh(song)>>
    BY <1>1, FreshItem, AppendIsConcat
  <2> QED BY <1>1, <2>1, <2>2, AppendedRanked
<1> QED BY <1>2, <1>5, <1>6, <1>7 DEF GoodQueue

(* RemoveAt takes one item out and keeps the others in their order.        *)
LEMMA RemoveAtItems ==
    ASSUME NEW S, NEW s \in Seq(S), NEW i \in 1..Len(s)
    PROVE  /\ RemoveAt(s, i) \in Seq(S)
           /\ Len(RemoveAt(s, i)) = Len(s) - 1
           /\ \A k \in 1..Len(s)-1 : RemoveAt(s, i)[k] = IF k < i THEN s[k] ELSE s[k+1]
<1> DEFINE n == Len(s)
           A == SubSeq(s, 1, i-1)
           B == SubSeq(s, i+1, n)
<1>1. n \in Nat /\ i \in 1..n /\ \A k \in 1..n : s[k] \in S
  BY LenProperties, ElementOfSeq
<1>2. A \in Seq(S) /\ Len(A) = i - 1 /\ \A k \in 1..i-1 : A[k] = s[k]
  <2>1. \A k \in 1..i-1 : s[k] \in S
    BY <1>1
  <2>2. 1 \in Int /\ i - 1 \in Int
    BY <1>1
  <2>3. /\ A \in Seq(S) /\ Len(A) = IF 1 <= i-1 THEN (i-1)-1+1 ELSE 0
        /\ \A k \in 1..(i-1)-1+1 : A[k] = s[1+k-1]
    BY <2>1, <2>2, SubSeqProperties
  <2> HIDE DEF A
  <2> QED BY <1>1, <2>3
<1>3. B \in Seq(S) /\ Len(B) = n - i /\ \A k \in 1..n-i : B[k] = s[i+k]
  <2>1. \A k \in i+1..n : s[k] \in S
    BY <1>1
  <2>2. i + 1 \in Int /\ n \in Int
    BY <1>1
  <2>3. /\ B \in Seq(S) /\ Len(B) = IF i+1 <= n THEN n-(i+1)+1 ELSE 0
        /\ \A k \in 1..n-(i+1)+1 : B[k] = s[(i+1)+k-1]
    BY <2>1, <2>2, SubSeqProperties
  <2> HIDE DEF B
  <2>4. Len(B) = n - i /\ n-(i+1)+1 = n - i
    BY <1>1, <2>3
  <2>5. \A k \in 1..n-i : (i+1)+k-1 = i+k
    BY <1>1
  <2> QED BY <2>3, <2>4, <2>5
<1>4. RemoveAt(s, i) = A \o B
  BY DEF RemoveAt
<1> HIDE DEF A, B
<1>5. /\ A \o B \in Seq(S) /\ Len(A \o B) = Len(A) + Len(B)
      /\ \A k \in 1..Len(A) + Len(B) : (A \o B)[k] = IF k <= Len(A) THEN A[k] ELSE B[k - Len(A)]
  <2>1. A \in Seq(S) /\ B \in Seq(S)
    BY <1>2, <1>3
  <2> QED BY <2>1, ConcatProperties
<1>6. Len(A) + Len(B) = n - 1
  BY <1>1, <1>2, <1>3
<1>7. ASSUME NEW k \in 1..n-1
      PROVE  (A \o B)[k] = IF k < i THEN s[k] ELSE s[k+1]
  <2>1. CASE k < i
    BY <1>1, <1>2, <1>5, <1>6, <2>1
  <2>2. CASE ~(k < i)
    <3>1. (A \o B)[k] = B[k - (i-1)]
      BY <1>1, <1>2, <1>5, <1>6, <2>2
    <3>2. k - (i-1) \in 1..n-i /\ i + (k - (i-1)) = k+1
      BY <1>1, <2>2
    <3> QED BY <1>3, <2>2, <3>1, <3>2
  <2> QED BY <2>1, <2>2
<1> QED BY <1>4, <1>5, <1>6, <1>7

(* A queue made of items of a good one, none of them twice, is good.       *)
LEMMA RearrangedGood ==
    ASSUME NEW queue, GoodQueue(queue), NEW q, q \in Seq(Item),
           NEW from, from \in [1..Len(q) -> 1..Len(queue)],
           \A k \in 1..Len(q) : q[k] = queue[from[k]],
           \A j, k \in 1..Len(q) : from[j] = from[k] => j = k
    PROVE  GoodQueue(q)
<1>1. DOMAIN q = 1..Len(q) /\ DOMAIN queue = 1..Len(queue)
  BY LenProperties DEF GoodQueue
<1>2. NoDuplicates(q)
  BY <1>1 DEF GoodQueue, NoDuplicates
<1>3. VotesAreVoters(q)
  BY <1>1 DEF GoodQueue, VotesAreVoters
<1> QED BY <1>2, <1>3 DEF GoodQueue

(* Deleting an item keeps the queue good.                                  *)
LEMMA DeleteGood ==
    ASSUME NEW queue, GoodQueue(queue), Ranked(queue), NEW i \in DOMAIN queue
    PROVE  GoodQueue(RemoveAt(queue, i)) /\ Ranked(RemoveAt(queue, i))
<1> DEFINE n == Len(queue)
           q == RemoveAt(queue, i)
           from == [k \in 1..n-1 |-> IF k < i THEN k ELSE k+1]
<1>1. queue \in Seq(Item) /\ n \in Nat /\ i \in 1..n
  BY LenProperties DEF GoodQueue
<1>2. /\ q \in Seq(Item) /\ Len(q) = n-1
      /\ \A k \in 1..n-1 : q[k] = IF k < i THEN queue[k] ELSE queue[k+1]
  BY <1>1, RemoveAtItems
<1> HIDE DEF q
<1>3. from \in [1..Len(q) -> 1..Len(queue)]
  BY <1>1, <1>2
<1>4. \A k \in 1..Len(q) : q[k] = queue[from[k]]
  BY <1>1, <1>2
<1>5. \A j, k \in 1..Len(q) : from[j] = from[k] => j = k
  BY <1>1, <1>2
<1> HIDE DEF from
<1>6. GoodQueue(q)
  <2>1. q \in Seq(Item)
    BY <1>2
  <2> QED BY <2>1, <1>3, <1>4, <1>5, RearrangedGood
<1>7. Ranked(q)
  <2>1. q \in Seq(Item) /\ \A j, k \in 1..Len(q) : j < k => from[j] < from[k]
    BY <1>1, <1>2 DEF from
  <2> QED BY <1>1, <1>3, <1>4, <2>1, ThinnedRanked
<1> QED BY <1>6, <1>7 DEF q

(* A vote keeps the item's song and its count equal to its voters.         *)
LEMMA ToggleItem ==
    ASSUME NEW item \in Item, NEW user \in User
    PROVE  /\ Toggle(item, user) \in Item
           /\ Toggle(item, user).song = item.song
           /\ Toggle(item, user).votes = Cardinality(Toggle(item, user).voters)
<1> DEFINE voters == IF user \in item.voters THEN item.voters \ {user} ELSE item.voters \cup {user}
<1>1. voters \in SUBSET User
  BY DEF Item
<1>2. Cardinality(voters) \in Nat
  BY <1>1, FS_Subset, FS_CardinalityType
<1>3. Toggle(item, user) = [item EXCEPT !.voters = voters, !.votes = Cardinality(voters)]
  BY DEF Toggle
<1> HIDE DEF voters
<1> QED BY <1>1, <1>2, <1>3 DEF Item

LEMMA ToggledGood ==
    ASSUME NEW queue, GoodQueue(queue), NEW i \in DOMAIN queue, NEW user \in User
    PROVE  /\ GoodQueue([queue EXCEPT ![i] = Toggle(@, user)])
           /\ DOMAIN [queue EXCEPT ![i] = Toggle(@, user)] = DOMAIN queue
<1> DEFINE item == Toggle(queue[i], user)
           q == [queue EXCEPT ![i] = item]
<1>1. queue \in Seq(Item) /\ i \in 1..Len(queue) /\ DOMAIN queue = 1..Len(queue)
  BY LenProperties DEF GoodQueue
<1>2. queue[i] \in Item
  BY <1>1, ElementOfSeq
<1>3. item \in Item /\ item.song = queue[i].song /\ item.votes = Cardinality(item.voters)
  BY <1>2, ToggleItem
<1> HIDE DEF item
<1>4. q \in Seq(Item) /\ DOMAIN q = DOMAIN queue
  BY <1>1, <1>3
<1>5. \A k \in DOMAIN queue : q[k] = IF k = i THEN item ELSE queue[k]
  BY <1>1
<1>6. \A k \in DOMAIN queue : q[k].song = queue[k].song
  BY <1>3, <1>5
<1>7. \A k \in DOMAIN queue : q[k].votes = Cardinality(q[k].voters)
  BY <1>3, <1>5 DEF GoodQueue, VotesAreVoters
<1>8. q = [queue EXCEPT ![i] = Toggle(@, user)]
  BY DEF item
<1> HIDE DEF q
<1>9. NoDuplicates(q) /\ VotesAreVoters(q)
  BY <1>4, <1>6, <1>7 DEF GoodQueue, NoDuplicates, VotesAreVoters
<1> QED BY <1>4, <1>8, <1>9 DEF GoodQueue

(* Counting up to k, with or without one of the numbers.                   *)
LEMMA UpTo ==
    ASSUME NEW k \in Nat
    PROVE  /\ IsFiniteSet(1..k) /\ Cardinality(1..k) = k
           /\ \A i \in 1..k : IsFiniteSet((1..k) \ {i}) /\ Cardinality((1..k) \ {i}) = k - 1
<1>1. IsFiniteSet(1..k) /\ Cardinality(1..k) = k
  <2>1. 1 \in Int /\ k \in Int
    OBVIOUS
  <2>2. IsFiniteSet(1..k) /\ Cardinality(1..k) = IF 1 > k THEN 0 ELSE k-1+1
    BY <2>1, FS_Interval, Zenon
  <2> QED BY <2>2
<1>2. ASSUME NEW i \in 1..k
      PROVE  IsFiniteSet((1..k) \ {i}) /\ Cardinality((1..k) \ {i}) = k - 1
  <2> DEFINE all == 1..k
  <2>1. IsFiniteSet(all) /\ Cardinality(all) = k /\ i \in all
    BY <1>1
  <2> HIDE DEF all
  <2>2. IsFiniteSet(all \ {i}) /\ Cardinality(all \ {i}) = k - 1
    BY <2>1, FS_RemoveElement
  <2> QED BY <2>2 DEF all
<1> QED BY <1>1, <1>2

(* The place of an item is a position of the queue.                        *)
LEMMA PlaceInQueue ==
    ASSUME NEW queue, queue \in Seq(Item), NEW i \in DOMAIN queue
    PROVE  Place(queue, i) \in DOMAIN queue
<1> DEFINE n == Len(queue)
           others == (1..n) \ {i}
           before == {j \in DOMAIN queue \ {i} : Before(queue, j, i)}
<1>1. n \in Nat /\ DOMAIN queue = 1..n /\ i \in 1..n
  BY LenProperties
<1>2. IsFiniteSet(others) /\ Cardinality(others) = n - 1
  BY <1>1, UpTo
<1>3. before \in SUBSET others
  BY <1>1
<1> HIDE DEF others
<1>4. IsFiniteSet(before) /\ Cardinality(before) <= n - 1
  BY <1>2, <1>3, FS_Subset
<1>5. Place(queue, i) = 1 + Cardinality(before)
  BY DEF Place
<1> HIDE DEF before
<1>6. Cardinality(before) \in Nat
  BY <1>4, FS_CardinalityType
<1> QED BY <1>1, <1>4, <1>5, <1>6

(* Moving an item to another place keeps the queue good.                   *)
LEMMA MoveGood ==
    ASSUME NEW queue, GoodQueue(queue), NEW i \in DOMAIN queue, NEW p \in DOMAIN queue
    PROVE  GoodQueue(Move(queue, i, p))
<1> DEFINE n == Len(queue)
           from == [k \in 1..n |-> CASE k = p -> i
                                     [] k # p /\ i <= k /\ k < p -> k + 1
                                     [] k # p /\ p < k /\ k <= i -> k - 1
                                     [] OTHER -> k]
           q == [k \in 1..n |-> queue[from[k]]]
<1>1. queue \in Seq(Item) /\ n \in Nat /\ DOMAIN queue = 1..n
  BY LenProperties DEF GoodQueue
<1>2. i \in 1..n /\ p \in 1..n
  BY <1>1
<1>3. \A k \in 1..n : from[k] \in 1..n
  BY <1>1, <1>2
<1>4. \A j, k \in 1..n : from[j] = from[k] => j = k
  BY <1>1, <1>2
<1>5. Move(queue, i, p) = q
  BY <1>1 DEF Move
<1>6. from \in [1..n -> 1..n]
  BY <1>3
<1> HIDE DEF from
<1>7. \A k \in 1..n : queue[from[k]] \in Item
  BY <1>1, <1>3, ElementOfSeq
<1>8. q \in Seq(Item) /\ Len(q) = n
  BY <1>1, <1>7
<1>9. \A k \in 1..n : q[k] = queue[from[k]]
  OBVIOUS
<1> HIDE DEF q
<1>10. PICK f \in [1..Len(q) -> 1..Len(queue)] :
         /\ \A k \in 1..Len(q) : q[k] = queue[f[k]]
         /\ \A j, k \in 1..Len(q) : f[j] = f[k] => j = k
  BY <1>4, <1>6, <1>8, <1>9
<1>11. q \in Seq(Item)
  BY <1>8
<1>12. GoodQueue(q)
  BY <1>10, <1>11, RearrangedGood
<1> QED BY <1>5, <1>12

-----------------------------------------------------------------------------
(* The rank.                                                               *)

(* A queue in which only item i may be out of place.                       *)
RankedBut(queue, i) ==
    \A j, k \in DOMAIN queue \ {i} : j < k => queue[j].votes >= queue[k].votes

(* Exactly the items in front of its new place belong before item i.       *)
LEMMA PlaceSeparates ==
    ASSUME NEW queue, queue \in Seq(Item), NEW i \in DOMAIN queue, RankedBut(queue, i)
    PROVE  LET p == Place(queue, i) IN
           \A j \in DOMAIN queue \ {i} : Before(queue, j, i) <=> IF p <= i THEN j < p ELSE j <= p
<1> DEFINE n == Len(queue)
           before == {j \in DOMAIN queue \ {i} : Before(queue, j, i)}
           m == Cardinality(before)
           front == IF m < i THEN 1..m ELSE (1..m+1) \ {i}
<1>1. n \in Nat /\ DOMAIN queue = 1..n /\ i \in 1..n
  BY LenProperties
<1>2. Place(queue, i) = 1 + m /\ 1 + m \in 1..n
  BY <1>1, PlaceInQueue DEF Place
<1>3. IsFiniteSet(before) /\ before \in SUBSET (1..n \ {i})
  <2>1. IsFiniteSet(1..n)
    BY <1>1, UpTo
  <2>2. before \in SUBSET (1..n) /\ before \in SUBSET (1..n \ {i})
    BY <1>1
  <2> HIDE DEF before
  <2> QED BY <2>1, <2>2, FS_Subset
<1>4. \A j \in 1..n : queue[j].votes \in Nat
  <2>1. \A j \in 1..n : queue[j] \in Item
    BY <1>1
  <2> QED BY <2>1 DEF Item
<1>5. \A j, k \in (1..n) \ {i} : k \in before /\ j < k => j \in before
  BY <1>1, <1>4 DEF RankedBut, Before
<1>6. m \in Nat
  BY <1>3, FS_CardinalityType
<1>7. \A j \in (1..n) \ {i} : j \in before <=> Before(queue, j, i)
  BY <1>1
<1> HIDE DEF before, m
<1>8. m \in 0..n-1
  BY <1>1, <1>2, <1>6
<1>9. IsFiniteSet(front) /\ Cardinality(front) = m
  <2>1. CASE m < i
    BY <1>6, <2>1, UpTo
  <2>2. CASE ~(m < i)
    <3>1. PICK k \in Nat : k = m + 1
      BY <1>6
    <3>2. i \in 1..k
      BY <1>1, <1>6, <2>2, <3>1
    <3>3. IsFiniteSet((1..k) \ {i}) /\ Cardinality((1..k) \ {i}) = k - 1
      BY <3>2, UpTo
    <3> QED BY <1>6, <2>2, <3>1, <3>3
  <2> QED BY <2>1, <2>2
<1>10. \A j, k \in (1..n) \ {i} : k \in front /\ j < k => j \in front
  BY <1>1, <1>6
<1>11. front \in SUBSET (1..n \ {i})
  BY <1>1, <1>8
<1>12. \A j \in (1..n) \ {i} : j \in front <=> IF 1 + m <= i THEN j < 1 + m ELSE j <= 1 + m
  BY <1>1, <1>6
<1> HIDE DEF front
<1>13. before \subseteq front \/ front \subseteq before
  <2>1. SUFFICES ASSUME NEW j \in before, j \notin front, NEW k \in front, k \notin before PROVE FALSE
    OBVIOUS
  <2>2. j \in (1..n) \ {i} /\ k \in (1..n) \ {i}
    BY <1>3, <1>11
  <2>3. j < k \/ k < j \/ j = k
    BY <1>1, <2>2
  <2> QED BY <1>5, <1>10, <2>1, <2>2, <2>3
<1>14. before = front
  <2>1. Cardinality(before) = Cardinality(front)
    BY <1>9 DEF m
  <2> QED BY <1>3, <1>9, <1>13, <2>1, FS_Subset
<1> QED BY <1>1, <1>2, <1>7, <1>12, <1>14

(* The permutation that moves item i to place p, item by item.             *)
Source(i, p, k) ==
    CASE k = p -> i
      [] k # p /\ i <= k /\ k < p -> k + 1
      [] k # p /\ p < k /\ k <= i -> k - 1
      [] OTHER -> k

(* Moving the item out of place to its place sorts the queue.              *)
LEMMA MoveSorts ==
    ASSUME NEW queue, queue \in Seq(Item), NEW i \in DOMAIN queue, RankedBut(queue, i)
    PROVE  LET p == Place(queue, i) IN
           /\ IsStableSort(queue, Move(queue, i, p))
           /\ Ranked(Move(queue, i, p))
<1> DEFINE n == Len(queue)
           p == Place(queue, i)
           from == [k \in 1..n |-> Source(i, p, k)]
           q == [k \in 1..n |-> queue[from[k]]]
<1>1. n \in Nat /\ DOMAIN queue = 1..n /\ i \in 1..n
  BY LenProperties
<1>2. p \in 1..n
  BY <1>1, PlaceInQueue
<1>3. \A j \in (1..n) \ {i} : Before(queue, j, i) <=> IF p <= i THEN j < p ELSE j <= p
  BY <1>1, PlaceSeparates
<1> HIDE DEF p
<1>4. \A j \in 1..n : queue[j].votes \in Nat
  <2>1. \A j \in 1..n : queue[j] \in Item
    BY <1>1
  <2> QED BY <2>1 DEF Item
<1>5. \A j \in (1..n) \ {i} : Before(queue, j, i) \/ Before(queue, i, j)
  BY <1>1, <1>4 DEF Before
<1>6. \A j, k \in (1..n) \ {i} : j < k => Before(queue, j, k)
  BY <1>1, <1>4 DEF Before, RankedBut
<1>7. \A k \in 1..n : from[k] = Source(i, p, k) /\ from[k] \in 1..n /\ (from[k] = i <=> k = p)
  BY <1>1, <1>2 DEF Source
<1>8. \A a, b \in 1..n : a < b /\ a # p /\ b # p => from[a] < from[b]
  BY <1>1, <1>2 DEF Source
<1>9. \A b \in 1..n : p < b => ~Before(queue, from[b], i)
  BY <1>1, <1>2, <1>3, <1>7 DEF Source
<1>10. \A a \in 1..n : a < p => Before(queue, from[a], i)
  BY <1>1, <1>2, <1>3, <1>7 DEF Source
<1>11. from \in [1..n -> 1..n]
  BY <1>7
<1> HIDE DEF from
<1>12. ASSUME NEW a \in 1..n, NEW b \in 1..n, a < b
       PROVE  Before(queue, from[a], from[b])
  <2>1. CASE a = p
    BY <1>1, <1>5, <1>7, <1>9, <1>12, <2>1
  <2>2. CASE b = p
    BY <1>1, <1>7, <1>10, <1>12, <2>2
  <2>3. CASE a # p /\ b # p
    BY <1>6, <1>7, <1>8, <1>12, <2>3
  <2> QED BY <2>1, <2>2, <2>3
<1>13. Move(queue, i, p) = q
  BY <1>1, <1>7 DEF Move, Source, from
<1>14. IsStableSort(queue, q)
  BY <1>1, <1>11, <1>12 DEF IsStableSort
<1>15. Ranked(q)
  <2>1. DOMAIN q = 1..n
    OBVIOUS
  <2>2. ASSUME NEW a \in 1..n, NEW b \in 1..n, a < b
        PROVE  q[a].votes >= q[b].votes
    <3>1. Before(queue, from[a], from[b])
      BY <1>12, <2>2
    <3>2. queue[from[a]].votes \in Nat /\ queue[from[b]].votes \in Nat
      BY <1>4, <1>11
    <3>3. queue[from[a]].votes >= queue[from[b]].votes
      BY <3>1, <3>2 DEF Before
    <3> QED BY <3>3
  <2> QED BY <2>1, <2>2 DEF Ranked
<1> QED BY <1>13, <1>14, <1>15 DEF p

(* What is left when the first song has started is good.                   *)
LEMMA TailGood ==
    ASSUME NEW queue, GoodQueue(queue), Ranked(queue), queue # <<>>
    PROVE  GoodQueue(Tail(queue)) /\ Ranked(Tail(queue)) /\ queue[1].song \in Song
<1> DEFINE n == Len(queue)
           q == Tail(queue)
           from == [k \in 1..n-1 |-> k + 1]
<1>1. queue \in Seq(Item) /\ n \in Nat \ {0} /\ 1 \in 1..n
  BY EmptySeq DEF GoodQueue
<1>2. q \in Seq(Item) /\ Len(q) = n-1 /\ \A k \in 1..n-1 : q[k] = queue[k+1]
  BY <1>1, HeadTailProperties
<1>3. queue[1] \in Item
  BY <1>1, ElementOfSeq
<1> HIDE DEF q
<1>4. from \in [1..Len(q) -> 1..Len(queue)]
  BY <1>1, <1>2
<1>5. \A k \in 1..Len(q) : q[k] = queue[from[k]]
  BY <1>1, <1>2
<1>6. \A j, k \in 1..Len(q) : from[j] = from[k] => j = k
  BY <1>1, <1>2
<1> HIDE DEF from
<1>7. q \in Seq(Item)
  BY <1>2
<1>8. GoodQueue(q)
  BY <1>4, <1>5, <1>6, <1>7, RearrangedGood
<1>9. Ranked(q)
  <2>1. \A j, k \in 1..Len(q) : j < k => from[j] < from[k]
    BY <1>1, <1>2 DEF from
  <2> QED BY <1>1, <1>4, <1>5, <1>7, <2>1, ThinnedRanked
<1> QED BY <1>3, <1>8, <1>9 DEF q, Item

(* Of a batch, only songs are appended that are neither queued nor earlier *)
(* in the batch.                                                           *)
LEMMA BatchGood ==
    ASSUME NEW copy \in RoomData, GoodQueue(copy.queue), Ranked(copy.queue),
           NEW n \in Nat, NEW songs \in [1..n -> Song],
           NEW kept \in InOrder(Kept(copy, songs))
    PROVE  LET q == copy.queue \o [k \in DOMAIN kept |-> Fresh(songs[kept[k]])] IN
           GoodQueue(q) /\ Ranked(q)
<1> DEFINE S == Kept(copy, songs)
           m == Cardinality(S)
           A == copy.queue
           B == [k \in 1..m |-> Fresh(songs[kept[k]])]
           a == Len(A)
           q == A \o B
<1>1. S \in SUBSET (1..n) /\ n \in Int /\ 1 \in Int
  BY DEF Kept
<1>2. m \in Nat
  <2>1. IsFiniteSet(1..n)
    BY <1>1, FS_Interval, Zenon
  <2>2. IsFiniteSet(S)
    BY <1>1, <2>1, FS_Subset
  <2> QED BY <2>2, FS_CardinalityType
<1>3. /\ kept \in [1..m -> S]
      /\ \A i, j \in 1..m : i < j => kept[i] < kept[j]
  BY DEF InOrder
<1>4. \A k \in 1..m : kept[k] \in 1..n /\ songs[kept[k]] \in Song
  BY <1>1, <1>3
<1>5. \A k \in 1..m : \A i \in DOMAIN A : A[i].song # songs[kept[k]]
  <2>1. \A k \in 1..m : kept[k] \in S
    BY <1>3
  <2> QED BY <2>1 DEF Kept, Queued
<1>6. ASSUME NEW j \in 1..m, NEW k \in 1..m, j < k
      PROVE  songs[kept[j]] # songs[kept[k]]
  <2>1. kept[j] < kept[k] /\ kept[k] \in S /\ kept[j] \in 1..n /\ kept[k] \in 1..n
    BY <1>3, <1>4, <1>6
  <2>2. kept[j] \in 1..kept[k]-1
    BY <2>1
  <2>3. \A i \in 1..kept[k]-1 : songs[i] # songs[kept[k]]
    BY <2>1 DEF Kept
  <2> QED BY <2>2, <2>3
<1>7. \A j, k \in 1..m : songs[kept[j]] = songs[kept[k]] => j = k
  <2>1. SUFFICES ASSUME NEW j \in 1..m, NEW k \in 1..m, j # k
                 PROVE  songs[kept[j]] # songs[kept[k]]
    OBVIOUS
  <2>2. j < k \/ k < j
    BY <1>2, <2>1
  <2> QED BY <1>6, <2>2
<1> HIDE DEF S, m
<1>8. \A k \in 1..m : /\ B[k] \in Item /\ B[k].song = songs[kept[k]]
                      /\ B[k].votes = Cardinality(B[k].voters)
  BY <1>4, FreshItem
<1>9. \A k \in 1..m : B[k].votes = 0
  BY <1>4, FreshItem
<1>10. A \in Seq(Item) /\ a \in Nat /\ DOMAIN A = 1..a
  BY LenProperties DEF GoodQueue
<1>11. B \in Seq(Item) /\ Len(B) = m
  BY <1>2, <1>8
<1>12. DOMAIN kept = 1..m
  BY <1>3
<1>13. q = copy.queue \o [k \in DOMAIN kept |-> Fresh(songs[kept[k]])]
  BY <1>12
<1> HIDE DEF B
<1>14. Ranked(q)
  <2>1. DOMAIN B = 1..m
    BY <1>11, LenProperties
  <2> QED BY <1>10, <1>11, <1>9, <2>1, AppendedRanked
<1> HIDE DEF A
<1>15. /\ q \in Seq(Item) /\ Len(q) = a + m
       /\ \A k \in 1..a + m : q[k] = IF k <= a THEN A[k] ELSE B[k - a]
  BY <1>10, <1>11, ConcatProperties
<1> HIDE DEF q, a
<1>16. \A k \in 1..a + m : \/ k \in 1..a /\ q[k] = A[k]
                           \/ k - a \in 1..m /\ q[k] = B[k - a]
  BY <1>2, <1>10, <1>15
<1>17. DOMAIN q = 1..a + m
  BY <1>15, LenProperties
<1>18. VotesAreVoters(q)
  BY <1>8, <1>10, <1>16, <1>17 DEF GoodQueue, VotesAreVoters, A
<1>19. NoDuplicates(q)
  <2>1. SUFFICES ASSUME NEW j \in 1..a + m, NEW k \in 1..a + m, q[j].song = q[k].song
                 PROVE  j = k
    BY <1>17 DEF NoDuplicates
  <2>2. CASE j \in 1..a /\ k \in 1..a
    <3>1. q[j] = A[j] /\ q[k] = A[k]
      BY <1>2, <1>10, <1>15, <2>2
    <3> QED BY <1>10, <2>1, <2>2, <3>1 DEF GoodQueue, NoDuplicates, A
  <2>3. CASE j \in 1..a /\ k \notin 1..a
    <3>1. q[j] = A[j] /\ k - a \in 1..m /\ q[k] = B[k - a]
      BY <1>2, <1>10, <1>15, <1>16, <2>3
    <3>2. A[j].song # songs[kept[k - a]]
      BY <1>5, <1>10, <2>3, <3>1
    <3>3. B[k - a].song = songs[kept[k - a]]
      BY <1>8, <3>1
    <3> QED BY <2>1, <3>1, <3>2, <3>3
  <2>4. CASE j \notin 1..a /\ k \in 1..a
    <3>1. q[k] = A[k] /\ j - a \in 1..m /\ q[j] = B[j - a]
      BY <1>2, <1>10, <1>15, <1>16, <2>4
    <3>2. A[k].song # songs[kept[j - a]]
      BY <1>5, <1>10, <2>4, <3>1
    <3>3. B[j - a].song = songs[kept[j - a]]
      BY <1>8, <3>1
    <3> QED BY <2>1, <3>1, <3>2, <3>3
  <2>5. CASE j \notin 1..a /\ k \notin 1..a
    <3>1. j - a \in 1..m /\ k - a \in 1..m /\ q[j] = B[j - a] /\ q[k] = B[k - a]
      BY <1>16, <2>5
    <3>2. j - a = k - a
      BY <1>7, <1>8, <2>1, <3>1
    <3> QED BY <1>2, <1>10, <3>2
  <2> QED BY <2>2, <2>3, <2>4, <2>5
<1> QED BY <1>13, <1>15, <1>18, <1>19, <1>14 DEF GoodQueue

-----------------------------------------------------------------------------
(* Rooms.                                                                  *)

(* A vote leaves every item but the voted one in the order of the rank.    *)
LEMMA VoteSorts ==
    ASSUME NEW copy \in RoomData, GoodQueue(copy.queue), Ranked(copy.queue),
           NEW i \in DOMAIN copy.queue, NEW user \in User
    PROVE  /\ IsStableSort(Toggled(copy, i, user), Vote(copy, i, user).queue)
           /\ Ranked(Vote(copy, i, user).queue)
           /\ GoodQueue(Vote(copy, i, user).queue)
<1> DEFINE toggled == Toggled(copy, i, user)
<1>1. GoodQueue(toggled) /\ DOMAIN toggled = DOMAIN copy.queue
  BY ToggledGood DEF Toggled
<1>2. \A k \in DOMAIN copy.queue \ {i} : toggled[k] = copy.queue[k]
  BY DEF Toggled
<1>3. RankedBut(toggled, i)
  BY <1>1, <1>2 DEF Ranked, RankedBut
<1>4. Vote(copy, i, user).queue = Move(toggled, i, Place(toggled, i))
  BY DEF Vote, RoomData
<1> HIDE DEF toggled
<1>5. toggled \in Seq(Item) /\ i \in DOMAIN toggled
  BY <1>1 DEF GoodQueue
<1>6. Place(toggled, i) \in DOMAIN toggled
  BY <1>5, PlaceInQueue
<1>7. GoodQueue(Move(toggled, i, Place(toggled, i)))
  BY <1>1, <1>5, <1>6, MoveGood
<1>8. /\ IsStableSort(toggled, Move(toggled, i, Place(toggled, i)))
      /\ Ranked(Move(toggled, i, Place(toggled, i)))
  BY <1>3, <1>5, MoveSorts
<1> QED BY <1>4, <1>7, <1>8 DEF toggled

(* A copy a handler may hold at time t, `open` telling whether the host    *)
(* has opened control.                                                     *)
Fit(copy, t, open) ==
    /\ copy \in RoomData
    /\ WellFormed(copy)
    /\ Ranked(copy.queue)
    /\ copy.updatedAt <= t
    /\ copy.everyone => open

(* A new room is fit.                                                      *)
LEMMA NewRoomFit == Fit(NewRoom(0), 0, FALSE)
<1>1. <<>> \in Seq(Item) /\ DOMAIN <<>> = {}
  OBVIOUS
<1>2. NewRoom(0) \in RoomData
  BY <1>1 DEF NewRoom, RoomData
<1>3. WellFormed(NewRoom(0)) /\ Ranked(NewRoom(0).queue)
  BY <1>1 DEF NewRoom, WellFormed, NoDuplicates, VotesAreVoters, Ranked
<1> QED BY <1>2, <1>3 DEF Fit, NewRoom

(* The queue of a fit room is good, and a fit room may take any good queue.*)
LEMMA FitQueue ==
    ASSUME NEW t \in Nat, NEW open \in BOOLEAN, NEW copy, Fit(copy, t, open)
    PROVE  /\ GoodQueue(copy.queue) /\ Ranked(copy.queue)
           /\ \A q : GoodQueue(q) /\ Ranked(q) => Fit([copy EXCEPT !.queue = q], t, open)
<1>1. GoodQueue(copy.queue) /\ Ranked(copy.queue)
  BY DEF Fit, WellFormed, RoomData, GoodQueue
<1>2. ASSUME NEW q, GoodQueue(q), Ranked(q)
      PROVE  Fit([copy EXCEPT !.queue = q], t, open)
  <2>1. [copy EXCEPT !.queue = q] \in RoomData
    BY <1>2 DEF Fit, RoomData, GoodQueue
  <2>2. WellFormed([copy EXCEPT !.queue = q])
    BY <1>2 DEF Fit, RoomData, GoodQueue, WellFormed
  <2>3. [copy EXCEPT !.queue = q].queue = q
    BY DEF Fit, RoomData
  <2>4. /\ [copy EXCEPT !.queue = q].updatedAt = copy.updatedAt
        /\ [copy EXCEPT !.queue = q].everyone = copy.everyone
    BY DEF Fit, RoomData
  <2> QED BY <1>2, <2>1, <2>2, <2>3, <2>4 DEF Fit
<1> QED BY <1>1, <1>2

(* What the queue's handlers make of a fit room is fit.                    *)
LEMMA QueueOpsFit ==
    ASSUME NEW t \in Nat, NEW open \in BOOLEAN, NEW copy, Fit(copy, t, open)
    PROVE  /\ \A song \in Song : CanAdd(copy, song) => Fit(Add(copy, song), t, open)
           /\ \A n \in Nat : \A songs \in [1..n -> Song] :
                \A kept \in InOrder(Kept(copy, songs)) : Fit(AddBatch(copy, songs, kept), t, open)
           /\ \A i \in DOMAIN copy.queue, user \in User : Fit(Vote(copy, i, user), t, open)
           /\ \A i \in DOMAIN copy.queue : Fit(Delete(copy, i), t, open)
<1>1. /\ GoodQueue(copy.queue) /\ Ranked(copy.queue)
      /\ \A q : GoodQueue(q) /\ Ranked(q) => Fit([copy EXCEPT !.queue = q], t, open)
  BY FitQueue
<1>2. ASSUME NEW song \in Song, CanAdd(copy, song)
      PROVE  Fit(Add(copy, song), t, open)
  <2>1. \A i \in DOMAIN copy.queue : copy.queue[i].song # song
    BY <1>2 DEF CanAdd, Queued
  <2>2. GoodQueue(Append(copy.queue, Fresh(song))) /\ Ranked(Append(copy.queue, Fresh(song)))
    BY <1>1, <2>1, AppendGood
  <2> QED BY <1>1, <2>2 DEF Add
<1>3. ASSUME NEW n \in Nat, NEW songs \in [1..n -> Song], NEW kept \in InOrder(Kept(copy, songs))
      PROVE  Fit(AddBatch(copy, songs, kept), t, open)
  <2>1. copy \in RoomData
    BY DEF Fit
  <2>2. PICK q : q = copy.queue \o [k \in DOMAIN kept |-> Fresh(songs[kept[k]])]
    OBVIOUS
  <2>3. GoodQueue(q) /\ Ranked(q)
    BY <1>1, <2>1, <2>2, BatchGood, ZenonT(60)
  <2> QED BY <1>1, <2>2, <2>3 DEF AddBatch
<1>4. ASSUME NEW i \in DOMAIN copy.queue, NEW user \in User
      PROVE  Fit(Vote(copy, i, user), t, open)
  <2>1. copy \in RoomData
    BY DEF Fit
  <2>2. GoodQueue(Vote(copy, i, user).queue) /\ Ranked(Vote(copy, i, user).queue)
    BY <1>1, <2>1, VoteSorts
  <2>3. Vote(copy, i, user) = [copy EXCEPT !.queue = Vote(copy, i, user).queue]
    BY <2>1 DEF Vote, RoomData
  <2> QED BY <1>1, <2>2, <2>3
<1>5. ASSUME NEW i \in DOMAIN copy.queue
      PROVE  Fit(Delete(copy, i), t, open)
  <2>1. GoodQueue(RemoveAt(copy.queue, i)) /\ Ranked(RemoveAt(copy.queue, i))
    BY <1>1, DeleteGood
  <2> QED BY <1>1, <2>1 DEF Delete
<1> QED BY <1>2, <1>3, <1>4, <1>5

(* ... and so is what the playback handlers make of one, at the present    *)
(* time t.                                                                 *)
LEMMA PlaybackOpsFit ==
    ASSUME NEW t \in Nat, NEW open \in BOOLEAN, NEW copy, Fit(copy, t, open)
    PROVE  /\ copy.queue # <<>> => Fit(Advance(copy, t), t, open)
           /\ \A song \in Song : Fit(PlayNow(copy, song, t), t, open)
           /\ \A everyone \in BOOLEAN : Fit(Control(copy, everyone), t, open \/ everyone)
           /\ \A action \in {"play", "pause", "seek"}, pos \in Int :
                Fit(Playback(copy, action, pos, t), t, open)
<1>1. copy \in RoomData /\ WellFormed(copy) /\ Ranked(copy.queue) /\ (copy.everyone => open)
  BY DEF Fit
<1>2. ASSUME NEW song \in Song
      PROVE  Fit(Start(copy, song, t), t, open)
  <2>1. Start(copy, song, t) \in RoomData
    <3>1. PICK beginning \in Int : beginning = 0
      OBVIOUS
    <3>2. Start(copy, song, t) =
            [copy EXCEPT !.song = song, !.playing = TRUE, !.syncTime = beginning, !.updatedAt = t]
      BY <3>1 DEF Start
    <3> QED BY <1>1, <3>2 DEF RoomData
  <2>2. WellFormed(Start(copy, song, t))
    BY <1>1 DEF Start, RoomData, WellFormed
  <2>3. /\ Start(copy, song, t).updatedAt = t /\ (Start(copy, song, t).everyone => open)
        /\ Start(copy, song, t).queue = copy.queue
    BY <1>1 DEF Start, RoomData
  <2> QED BY <1>1, <2>1, <2>2, <2>3 DEF Fit
<1>3. ASSUME copy.queue # <<>>
      PROVE  Fit(Advance(copy, t), t, open)
  <2>1. GoodQueue(Tail(copy.queue)) /\ Ranked(Tail(copy.queue)) /\ copy.queue[1].song \in Song
    BY <1>3, FitQueue, TailGood
  <2>2. PICK started : started = Start(copy, copy.queue[1].song, t)
    OBVIOUS
  <2>3. Fit(started, t, open)
    BY <1>2, <2>1, <2>2
  <2>4. started.queue = copy.queue
    BY <1>1, <2>2 DEF Start, RoomData
  <2>5. Advance(copy, t) = [started EXCEPT !.queue = Tail(copy.queue)]
    BY <2>2, <2>4 DEF Advance
  <2>6. \A q : GoodQueue(q) /\ Ranked(q) => Fit([started EXCEPT !.queue = q], t, open)
    BY <2>3, FitQueue
  <2> QED BY <2>1, <2>5, <2>6
<1>4. ASSUME NEW everyone \in BOOLEAN
      PROVE  Fit(Control(copy, everyone), t, open \/ everyone)
  <2>1. Control(copy, everyone) \in RoomData
    BY <1>1 DEF Control, RoomData
  <2>2. WellFormed(Control(copy, everyone))
    BY <1>1 DEF Control, RoomData, WellFormed
  <2>3. /\ Control(copy, everyone).updatedAt = copy.updatedAt
        /\ Control(copy, everyone).everyone = everyone
        /\ Control(copy, everyone).queue = copy.queue
    BY <1>1 DEF Control, RoomData
  <2> QED BY <1>1, <2>1, <2>2, <2>3 DEF Fit
<1>5. ASSUME NEW action \in {"play", "pause", "seek"}, NEW pos \in Int
      PROVE  Fit(Playback(copy, action, pos, t), t, open)
  <2>1. Playback(copy, action, pos, t) \in RoomData
    BY <1>1 DEF Playback, RoomData
  <2>2. WellFormed(Playback(copy, action, pos, t))
    BY <1>1 DEF Playback, RoomData, WellFormed
  <2>3. /\ Playback(copy, action, pos, t).updatedAt = t
        /\ Playback(copy, action, pos, t).everyone = copy.everyone
        /\ Playback(copy, action, pos, t).queue = copy.queue
    BY <1>1 DEF Playback, RoomData
  <2> QED BY <1>1, <2>1, <2>2, <2>3 DEF Fit
<1> QED BY <1>2, <1>3, <1>4, <1>5 DEF PlayNow

(* ... and the people handlers: nobody removes the host.                   *)
LEMMA PeopleOpsFit ==
    ASSUME NEW t \in Nat, NEW open \in BOOLEAN, NEW copy, Fit(copy, t, open),
           NEW user \in User
    PROVE  /\ Fit(Join(copy, user), t, open)
           /\ \A target \in User : CanRemove(user, target) => Fit(RemoveUser(copy, target), t, open)
<1>1. copy \in RoomData /\ WellFormed(copy) /\ Ranked(copy.queue) /\ (copy.everyone => open)
  BY DEF Fit
<1>2. Fit(Join(copy, user), t, open)
  <2>1. Join(copy, user) \in RoomData
    BY <1>1 DEF Join, RoomData
  <2>2. WellFormed(Join(copy, user))
    BY <1>1 DEF Join, RoomData, WellFormed
  <2> QED BY <2>1, <2>2 DEF Fit, Join, RoomData
<1>3. ASSUME NEW target \in User, CanRemove(user, target)
      PROVE  Fit(RemoveUser(copy, target), t, open)
  <2>1. RemoveUser(copy, target) \in RoomData
    BY <1>1 DEF RemoveUser, RoomData
  <2>2. WellFormed(RemoveUser(copy, target))
    BY <1>1, <1>3 DEF RemoveUser, CanRemove, RoomData, WellFormed
  <2> QED BY <2>1, <2>2 DEF Fit, RemoveUser, RoomData
<1> QED BY <1>2, <1>3

(* Whatever is fit stays so as time passes and once control was opened.    *)
LEMMA FitLater ==
    ASSUME NEW copy, NEW t \in Nat, NEW u \in Nat, NEW open \in BOOLEAN, NEW opener \in BOOLEAN,
           Fit(copy, t, open), t <= u, open => opener
    PROVE  Fit(copy, u, opener)
BY DEF Fit, RoomData

=============================================================================
