---------------------------- MODULE EntryProofs ----------------------------
(***************************************************************************)
(* Proofs about Entry, for any browsers, tabs and codes: types, and that a *)
(* browser is one user in a room.  The invariant follows, for a browser    *)
(* and a code that met no race, what the browser remembers, its pages of   *)
(* the room, its calls that are under way, and the removals that have not  *)
(* reached their page.                                                     *)
(***************************************************************************)
EXTENDS Entry, TLAPS

-----------------------------------------------------------------------------
(* Types, and what calls and pages carry.                                  *)

Asked == [kind : {"create", "join"}, code : Code \cup {NoCode}, user : 0..ids, answered : BOOLEAN]

Typed == TypeOK /\ calls \in [Tab -> SUBSET Asked]

(* A creation names its browser's own id, and a code once it has one; a    *)
(* joining names its code and, once answered, somebody.                    *)
Called == \A t \in Tab : \A k \in calls[t] :
    /\ k.kind = "create" => /\ k.user = me[BrowserOf[t]] /\ k.user # Nobody
                            /\ k.code \in Code <=> k.answered
    /\ k.kind = "join" => k.code \in Code /\ (k.answered => k.user # Nobody)

(* No two browsers draw the same id.                                       *)
Distinct == \A a, b \in Browser : me[a] = me[b] /\ me[a] # Nobody => a = b

Pages == {"opening", "room", "failed"}

(* A page of a room is somebody's, and only such a page is to be told.     *)
Fits(place) ==
    /\ place.page \in Pages \cup {"route"} => place.code \in Code
    /\ place.page \in Pages => place.user # Nobody

Placed == \A t \in Tab :
    /\ Fits(at[t])
    /\ t \in kicked => at[t].page \in Pages

Sound == Typed /\ Called /\ Distinct /\ Placed

USE EntryAssumption DEF Nobody

LEMMA SoundInit == Init => Sound
<1> SUFFICES ASSUME Init PROVE Sound
  OBVIOUS
<1>1. TypeOK
  <2>1. ids \in 0..MaxIds /\ disruptions \in 0..MaxDisruptions
    BY DEF Init
  <2>2. me \in [Browser -> 0..ids] /\ session \in [Browser -> [Code -> 0..ids]]
    BY DEF Init
  <2>3. host \in [Code -> (0..ids) \cup {Stranger}]
    BY DEF Init
  <2>4. at \in [Tab -> Place]
    <3>1. Home \in Place
      BY DEF Home, Place
    <3> QED BY <3>1 DEF Init
  <2>5. kicked \subseteq Tab /\ raced \subseteq Browser \X Code
    BY DEF Init
  <2> QED BY <2>1, <2>2, <2>3, <2>4, <2>5 DEF TypeOK
<1>2. calls \in [Tab -> SUBSET Asked] /\ Called
  BY DEF Init, Called
<1>3. Distinct
  BY DEF Init, Distinct
<1>4. Placed
  BY DEF Init, Placed, Fits, Home, Pages
<1> QED BY <1>1, <1>2, <1>3, <1>4 DEF Sound, Typed

(* What of a step keeps the ids and the calls in order: the ids drawn only *)
(* grow, a browser keeps the one it has or takes a new one, and a call is  *)
(* an old one or in order itself.                                          *)
Proper(t, k) ==
    /\ k \in Asked'
    /\ k.kind = "create" => /\ k.user = me'[BrowserOf[t]] /\ k.user # Nobody
                            /\ k.code \in Code <=> k.answered
    /\ k.kind = "join" => k.code \in Code /\ (k.answered => k.user # Nobody)

Draws ==
    /\ ids' \in 0..MaxIds /\ ids <= ids'
    /\ me' \in [Browser -> 0..ids']
    /\ \A b \in Browser : me'[b] = me[b] \/ (me[b] = Nobody /\ me'[b] = ids + 1)
    /\ \A a, b \in Browser : me'[a] # me[a] /\ me'[b] # me[b] => a = b

LEMMA KeepsDistinct ==
    ASSUME Sound, Draws
    PROVE  Distinct'
<1> SUFFICES ASSUME NEW a \in Browser, NEW b \in Browser, me'[a] = me'[b], me'[a] # Nobody
             PROVE  a = b
  BY DEF Distinct
<1>1. me[a] \in 0..ids /\ me[b] \in 0..ids /\ ids \in Nat
  BY DEF Sound, Typed, TypeOK
<1>2. CASE me'[a] = me[a] /\ me'[b] = me[b]
  BY <1>2 DEF Sound, Distinct
<1>3. CASE me'[a] # me[a] /\ me'[b] # me[b]
  BY <1>3 DEF Draws
<1>4. CASE ~(me'[a] = me[a] <=> me'[b] = me[b])
  BY <1>1, <1>4 DEF Draws
<1> QED BY <1>2, <1>3, <1>4

LEMMA KeepsCalled ==
    ASSUME Sound, Draws, calls' \in [Tab -> SUBSET Asked'],
           \A t \in Tab : \A k \in calls'[t] : k \in calls[t] \/ Proper(t, k)
    PROVE  Called'
<1> SUFFICES ASSUME NEW t \in Tab, NEW k \in calls'[t]
             PROVE  /\ k.kind = "create" => /\ k.user = me'[BrowserOf[t]] /\ k.user # Nobody
                                            /\ k.code \in Code <=> k.answered
                    /\ k.kind = "join" => k.code \in Code /\ (k.answered => k.user # Nobody)
  BY DEF Called
<1>1. CASE Proper(t, k)
  BY <1>1 DEF Proper
<1>2. CASE k \in calls[t]
  <2>1. BrowserOf[t] \in Browser
    OBVIOUS
  <2>2. k.kind = "create" => me'[BrowserOf[t]] = me[BrowserOf[t]]
    BY <1>2, <2>1 DEF Sound, Called, Draws
  <2> QED BY <1>2, <2>2 DEF Sound, Called
<1> QED BY <1>1, <1>2

LEMMA AskedGrows ==
    ASSUME Sound, Draws
    PROVE  Asked \subseteq Asked'
<1>1. ids \in Nat /\ ids' \in Nat /\ ids <= ids'
  BY DEF Sound, Typed, TypeOK, Draws
<1> QED BY <1>1 DEF Asked

(* Most steps draw no id.                                                  *)
LEMMA DrawsNone ==
    ASSUME Sound, UNCHANGED <<ids, me>>
    PROVE  Draws /\ Asked' = Asked
BY DEF Sound, Typed, TypeOK, Draws, Asked

LEMMA GetMyIdDraws ==
    ASSUME Sound, NEW b \in Browser, GetMyId(b)
    PROVE  Draws /\ me'[b] # Nobody /\ me'[b] \in 0..ids'
<1>1. ids \in 0..MaxIds /\ me \in [Browser -> 0..ids]
  BY DEF Sound, Typed, TypeOK
<1>2. CASE me[b] = Nobody
  <2>1. ids' = ids + 1 /\ ids' \in 0..MaxIds /\ me' = [me EXCEPT ![b] = ids']
    BY <1>1, <1>2 DEF GetMyId
  <2> QED BY <1>1, <1>2, <2>1 DEF Draws
<1>3. CASE me[b] # Nobody
  <2>1. ids' = ids /\ me' = [me EXCEPT ![b] = me[b]]
    BY <1>1, <1>3 DEF GetMyId
  <2>2. me' = me
    BY <1>1, <2>1
  <2> QED BY <1>1, <1>3, <2>1, <2>2 DEF Draws
<1> QED BY <1>2, <1>3

LEMMA RaceTyped ==
    ASSUME Sound, NEW b \in Browser, NEW c, NEW yes, yes => c \in Code, Race(b, c, yes)
    PROVE  raced \subseteq raced' /\ raced' \subseteq Browser \X Code
<1>1. raced \subseteq Browser \X Code
  BY DEF Sound, Typed, TypeOK
<1>2. raced' = raced \/ (yes /\ raced' = raced \cup {<<b, c>>})
  BY DEF Race
<1> QED BY <1>1, <1>2

LEMMA MoveTyped ==
    ASSUME Sound, NEW t \in Tab, NEW place \in Place, Move(t, place), Fits(place)
    PROVE  at' \in [Tab -> Place] /\ kicked' \subseteq Tab /\ Placed'
<1>1. at \in [Tab -> Place] /\ kicked \subseteq Tab /\ Placed
  BY DEF Sound, Typed, TypeOK
<1>2. at' = [at EXCEPT ![t] = place] /\ kicked' = kicked \ {t}
  BY DEF Move
<1>3. \A s \in Tab : at'[s] = IF s = t THEN place ELSE at[s]
  BY <1>1, <1>2
<1>4. Placed'
  BY <1>1, <1>2, <1>3 DEF Placed, Fits
<1> QED BY <1>1, <1>2, <1>4

LEMMA PlacedSame ==
    ASSUME Sound, UNCHANGED <<at, kicked>>
    PROVE  at' \in [Tab -> Place] /\ kicked' \subseteq Tab /\ Placed'
BY DEF Sound, Typed, TypeOK, Placed, Fits

-----------------------------------------------------------------------------
(* Every step keeps them.                                                  *)

(* The call a tab's set gains, and what it loses.                          *)
LEMMA CallsSound ==
    ASSUME Sound, Draws, NEW t \in Tab, NEW K,
           calls' = [calls EXCEPT ![t] = K],
           \A k \in K : k \in calls[t] \/ Proper(t, k)
    PROVE  calls' \in [Tab -> SUBSET Asked'] /\ Called'
<1>1. calls \in [Tab -> SUBSET Asked] /\ Asked \subseteq Asked'
  BY AskedGrows DEF Sound, Typed
<1>2. K \subseteq Asked'
  BY <1>1 DEF Proper
<1>3. calls' \in [Tab -> SUBSET Asked']
  BY <1>1, <1>2
<1>4. \A s \in Tab : calls'[s] = IF s = t THEN K ELSE calls[s]
  BY <1>1
<1>5. \A s \in Tab : \A k \in calls'[s] : k \in calls[s] \/ Proper(s, k)
  BY <1>4
<1> QED BY <1>3, <1>5, KeepsCalled

LEMMA CallsSame ==
    ASSUME Sound, Draws, UNCHANGED calls
    PROVE  calls' \in [Tab -> SUBSET Asked'] /\ Called'
<1>1. calls' \in [Tab -> SUBSET Asked']
  BY AskedGrows DEF Sound, Typed
<1> QED BY <1>1, KeepsCalled

(* The parts of the state that depend on the ids drawn.                    *)
LEMMA RangesGrow ==
    ASSUME Sound, Draws
    PROVE  /\ session \in [Browser -> [Code -> 0..ids']]
           /\ host \in [Code -> (0..ids') \cup {Stranger}]
<1>1. ids \in 0..MaxIds /\ ids' \in 0..MaxIds /\ ids <= ids'
  BY DEF Sound, Typed, TypeOK, Draws
<1>2. 0..ids \subseteq 0..ids'
  BY <1>1
<1>3. /\ session \in [Browser -> [Code -> 0..ids]]
      /\ host \in [Code -> (0..ids) \cup {Stranger}]
  BY DEF Sound, Typed, TypeOK
<1>4. \A b \in Browser : session[b] \in [Code -> 0..ids']
  BY <1>2, <1>3
<1> QED BY <1>2, <1>3, <1>4

LEMMA SoundFrom ==
    ASSUME Sound, Draws,
           calls' \in [Tab -> SUBSET Asked'], Called',
           session' \in [Browser -> [Code -> 0..ids']],
           host' \in [Code -> (0..ids') \cup {Stranger}],
           at' \in [Tab -> Place] /\ kicked' \subseteq Tab /\ Placed',
           raced' \subseteq Browser \X Code, disruptions' \in 0..MaxDisruptions
    PROVE  Sound'
<1>1. TypeOK'
  BY DEF TypeOK, Draws, Place
<1> QED BY <1>1, KeepsDistinct DEF Sound, Typed

LEMMA DoorSound ==
    ASSUME Sound, NEW t \in Tab, NEW c \in Code, NEW invited \in BOOLEAN, NEW others,
           others \subseteq calls[t], Door(t, c, invited, others),
           UNCHANGED <<ids, me, session, host>>, disruptions' \in 0..MaxDisruptions
    PROVE  Sound' /\ raced \subseteq raced'
<1>1. Draws /\ Asked' = Asked
  BY DrawsNone
<1>2. session \in [Browser -> [Code -> 0..ids]] /\ BrowserOf[t] \in Browser /\ ids \in Nat
  BY DEF Sound, Typed, TypeOK
<1>3. PICK u \in 0..ids : calls' = [calls EXCEPT ![t] = others \cup {Call("join", c, u)}]
  <2>1. session[BrowserOf[t]][c] \in 0..ids /\ 0 \in 0..ids
    BY <1>2
  <2>2. CASE invited
    BY <2>1, <2>2 DEF Door
  <2>3. CASE ~invited
    BY <2>1, <2>3 DEF Door, Existing, MySession
  <2> QED BY <2>2, <2>3
<1> DEFINE K == others \cup {Call("join", c, u)}
<1>4. Proper(t, Call("join", c, u))
  <2>1. Call("join", c, u) = [kind |-> "join", code |-> c, user |-> u, answered |-> FALSE]
    BY DEF Call
  <2>2. u \in 0..ids
    BY <1>3
  <2>3. [kind |-> "join", code |-> c, user |-> u, answered |-> FALSE] \in Asked
    BY <2>2 DEF Asked
  <2>4. Call("join", c, u) \in Asked
    BY <2>1, <2>3
  <2> QED BY <1>1, <2>1, <2>4 DEF Proper
<1>5. calls' = [calls EXCEPT ![t] = K]
  BY <1>3
<1>6. \A k \in K : k \in calls[t] \/ Proper(t, k)
  BY <1>4
<1> HIDE DEF K
<1>7. calls' \in [Tab -> SUBSET Asked'] /\ Called'
  BY <1>1, <1>5, <1>6, CallsSound
<1>8. In("join", c) \in Place /\ Fits(In("join", c))
  BY DEF In, Place, Pages, Fits
<1>9. at' \in [Tab -> Place] /\ kicked' \subseteq Tab /\ Placed'
  BY <1>8, MoveTyped DEF Door
<1>10. PICK yes : Race(BrowserOf[t], c, yes)
  BY DEF Door
<1>11. raced \subseteq raced' /\ raced' \subseteq Browser \X Code
  BY <1>2, <1>10, RaceTyped
<1> QED BY <1>1, <1>7, <1>9, <1>11, RangesGrow, SoundFrom

(* An answer that a call gets, with the user and the code it names.        *)
LEMMA AnsweredSound ==
    ASSUME Sound, NEW t \in Tab, NEW k \in calls[t], NEW c \in Code, NEW u \in 0..ids',
           ids' \in 0..MaxIds, ids <= ids',
           k.kind = "create" => u = k.user, u # Nobody,
           calls' = [calls EXCEPT ![t] =
             (calls[t] \ {k}) \cup {Reply(k, c, u)}],
           UNCHANGED <<me, session, at, kicked, disruptions>>,
           host' = host \/ (k.kind = "create" /\ host' = [host EXCEPT ![c] = k.user]),
           raced' \subseteq Browser \X Code
    PROVE  Sound'
<1> DEFINE j == Reply(k, c, u)
           K == (calls[t] \ {k}) \cup {j}
<1>1. /\ ids \in Nat /\ ids' \in Nat /\ me \in [Browser -> 0..ids]
      /\ BrowserOf[t] \in Browser /\ k \in Asked /\ disruptions \in 0..MaxDisruptions
  BY DEF Sound, Typed, TypeOK
<1>2. Draws
  <2>1. me' \in [Browser -> 0..ids']
    BY <1>1
  <2> QED BY <2>1 DEF Draws
<1>3. Proper(t, j)
  <2>1. k.kind \in {"create", "join"}
    BY <1>1 DEF Asked
  <2>2. j \in Asked'
    BY <2>1 DEF Asked, Reply
  <2>3. k.kind = "create" => k.user = me[BrowserOf[t]]
    BY DEF Sound, Called
  <2> QED BY <2>2, <2>3 DEF Proper, Reply
<1>4. \A x \in K : x \in calls[t] \/ Proper(t, x)
  BY <1>3
<1>5. calls' = [calls EXCEPT ![t] = K]
  OBVIOUS
<1> HIDE DEF j, K
<1>6. calls' \in [Tab -> SUBSET Asked'] /\ Called'
  BY <1>2, <1>4, <1>5, CallsSound
<1>7. host' \in [Code -> (0..ids') \cup {Stranger}]
  <2>1. host \in [Code -> (0..ids') \cup {Stranger}]
    BY <1>2, RangesGrow
  <2> QED BY <2>1
<1> QED BY <1>1, <1>2, <1>6, <1>7, RangesGrow, PlacedSame, SoundFrom

LEMMA StartRoomSound ==
    ASSUME Sound, NEW t \in Tab, StartRoom(t)
    PROVE  Sound'
<1> DEFINE b == BrowserOf[t]
           j == Call("create", NoCode, me'[b])
<1>1. b \in Browser /\ GetMyId(b)
  BY DEF StartRoom
<1>2. Draws /\ me'[b] # Nobody /\ me'[b] \in 0..ids'
  BY <1>1, GetMyIdDraws
<1>3. Proper(t, j)
  <2>1. j = [kind |-> "create", code |-> NoCode, user |-> me'[b], answered |-> FALSE]
    BY DEF Call
  <2>2. [kind |-> "create", code |-> NoCode, user |-> me'[b], answered |-> FALSE] \in Asked'
    BY <1>2 DEF Asked
  <2> QED BY <1>2, <2>1, <2>2 DEF Proper
<1>4. calls' = [calls EXCEPT ![t] = calls[t] \cup {j}]
  BY DEF StartRoom, Sound, Typed
<1>5. \A k \in calls[t] \cup {j} : k \in calls[t] \/ Proper(t, k)
  BY <1>3
<1> HIDE DEF j
<1>6. calls' \in [Tab -> SUBSET Asked'] /\ Called'
  BY <1>2, <1>4, <1>5, CallsSound
<1>7. UNCHANGED <<session, host, at, kicked, disruptions, raced>>
  BY DEF StartRoom
<1>8. raced \subseteq Browser \X Code /\ disruptions \in 0..MaxDisruptions
  BY DEF Sound, Typed, TypeOK
<1> QED BY <1>2, <1>6, <1>7, <1>8, RangesGrow, PlacedSame, SoundFrom

LEMMA HandleCreateSound ==
    ASSUME Sound, NEW t \in Tab, HandleCreate(t)
    PROVE  Sound'
<1>1. PICK k \in calls[t], c \in Code :
        /\ k.kind = "create" /\ ~k.answered
        /\ host' = [host EXCEPT ![c] = k.user]
        /\ calls' = [calls EXCEPT ![t] = (@ \ {k}) \cup {Reply(k, c, k.user)}]
        /\ \E yes : Race(BrowserOf[t], c, yes)
        /\ UNCHANGED <<ids, me, session, at, kicked, disruptions>>
  BY DEF HandleCreate
<1>2. /\ k \in Asked /\ BrowserOf[t] \in Browser /\ ids \in 0..MaxIds
      /\ calls \in [Tab -> SUBSET Asked]
  BY DEF Sound, Typed, TypeOK
<1>4. k.user \in 0..ids /\ k.user # Nobody
  BY <1>1, <1>2 DEF Asked, Sound, Called
<1>5. calls' = [calls EXCEPT ![t] = (calls[t] \ {k}) \cup {Reply(k, c, k.user)}]
  BY <1>1, <1>2
<1>6. raced' \subseteq Browser \X Code
  BY <1>1, <1>2, RaceTyped
<1>7. ids' = ids /\ UNCHANGED <<me, session, at, kicked, disruptions>>
  BY <1>1
<1>8. ids' \in 0..MaxIds /\ ids <= ids' /\ k.user \in 0..ids'
  BY <1>2, <1>4, <1>7
<1>9. host' = [host EXCEPT ![c] = k.user]
  BY <1>1
<1>10. host' = host \/ (k.kind = "create" /\ host' = [host EXCEPT ![c] = k.user])
  BY <1>1, <1>9
<1>11. (k.kind = "create" => k.user = k.user) /\ k.user # Nobody
  BY <1>4
<1> QED BY <1>5, <1>6, <1>7, <1>8, <1>10, <1>11, AnsweredSound

LEMMA HandleJoinSound ==
    ASSUME Sound, NEW t \in Tab, HandleJoin(t)
    PROVE  Sound'
<1>1. PICK k \in calls[t] :
        /\ k.kind = "join" /\ ~k.answered
        /\ k.user = Nobody => ids < MaxIds
        /\ ids' = IF k.user = Nobody THEN ids + 1 ELSE ids
        /\ calls' = [calls EXCEPT ![t] = (@ \ {k}) \cup
             {Reply(k, k.code, IF k.user = Nobody THEN ids' ELSE k.user)}]
        /\ UNCHANGED <<me, session, host, at, kicked, disruptions, raced>>
  BY DEF HandleJoin
<1>2. /\ k \in Asked /\ ids \in 0..MaxIds /\ calls \in [Tab -> SUBSET Asked]
      /\ raced \subseteq Browser \X Code /\ k.code \in Code
  BY <1>1 DEF Sound, Typed, TypeOK, Called
<1>3. ids' \in 0..MaxIds /\ ids <= ids'
  BY <1>1, <1>2
<1>4. PICK u \in 0..ids' : u # Nobody /\ u = IF k.user = Nobody THEN ids' ELSE k.user
  BY <1>1, <1>2, <1>3 DEF Asked
<1>5. calls' = [calls EXCEPT ![t] = (calls[t] \ {k}) \cup {Reply(k, k.code, u)}]
  BY <1>1, <1>2, <1>4
<1>7. UNCHANGED <<me, session, at, kicked, disruptions>> /\ host' = host /\ raced' = raced
  BY <1>1
<1>8. host' = host \/ (k.kind = "create" /\ host' = [host EXCEPT ![k.code] = k.user])
  BY <1>7
<1>9. (k.kind = "create" => u = k.user) /\ u # Nobody /\ u \in 0..ids' /\ k.code \in Code
  BY <1>1, <1>2, <1>4
<1>10. raced' \subseteq Browser \X Code
  BY <1>2, <1>7
<1> QED BY <1>3, <1>5, <1>7, <1>8, <1>9, <1>10, AnsweredSound

LEMMA AnswerSound ==
    ASSUME Sound, NEW t \in Tab, NEW k \in calls[t], Answer(t, k)
    PROVE  Sound'
<1>1. /\ k.answered /\ calls' = [calls EXCEPT ![t] = calls[t] \ {k}]
      /\ session' = [session EXCEPT ![BrowserOf[t]][k.code] = k.user]
      /\ Move(t, Led(t, k))
      /\ UNCHANGED <<ids, me, host, disruptions>>
  BY DEF Answer, SaveSession, Sound, Typed
<1>2. /\ k \in Asked /\ BrowserOf[t] \in Browser /\ ids \in 0..MaxIds
      /\ session \in [Browser -> [Code -> 0..ids]] /\ disruptions \in 0..MaxDisruptions
      /\ host \in [Code -> (0..ids) \cup {Stranger}]
  BY DEF Sound, Typed, TypeOK
<1>3. k.code \in Code /\ k.user \in 0..ids /\ k.user # Nobody
  BY <1>1, <1>2 DEF Asked, Sound, Called
<1>4. Draws /\ Asked' = Asked /\ ids' = ids
  BY <1>1, DrawsNone
<1>5. \A x \in calls[t] \ {k} : x \in calls[t] \/ Proper(t, x)
  OBVIOUS
<1>6. calls' \in [Tab -> SUBSET Asked'] /\ Called'
  BY <1>1, <1>4, <1>5, CallsSound
<1>7. session' \in [Browser -> [Code -> 0..ids']]
  BY <1>1, <1>2, <1>3, <1>4
<1>8. k.user \in 0..MaxIds
  BY <1>2, <1>3
<1>9. Led(t, k) \in Place /\ Fits(Led(t, k))
  BY <1>3, <1>8 DEF Led, As, Gone, In, Place, Pages, Fits
<1>10. at' \in [Tab -> Place] /\ kicked' \subseteq Tab /\ Placed'
  BY <1>1, <1>9, MoveTyped
<1>11. raced' \subseteq Browser \X Code
  <2>1. PICK yes : Race(BrowserOf[t], k.code, yes)
    BY DEF Answer
  <2> QED BY <1>2, <1>3, <2>1, RaceTyped
<1> QED BY <1>1, <1>2, <1>4, <1>6, <1>7, <1>10, <1>11, SoundFrom

LEMMA CallFailsSound ==
    ASSUME Sound, NEW t \in Tab, CallFails(t)
    PROVE  Sound'
<1>1. PICK k \in calls[t] :
        /\ calls' = [calls EXCEPT ![t] = calls[t] \ {k}]
        /\ at' = Told(t, k)
        /\ Race(BrowserOf[t], k.code, k.kind = "create" /\ k.answered)
        /\ UNCHANGED <<ids, me, session, host, kicked, disruptions>>
  BY DEF CallFails, Sound, Typed
<1>2. /\ BrowserOf[t] \in Browser /\ disruptions \in 0..MaxDisruptions
      /\ at \in [Tab -> Place] /\ kicked \subseteq Tab
      /\ session \in [Browser -> [Code -> 0..ids]]
      /\ host \in [Code -> (0..ids) \cup {Stranger}]
  BY DEF Sound, Typed, TypeOK
<1>3. Draws /\ Asked' = Asked /\ ids' = ids
  BY <1>1, DrawsNone
<1>4. calls' \in [Tab -> SUBSET Asked'] /\ Called'
  BY <1>1, <1>3, CallsSound
<1>5. at' \in [Tab -> Place] /\ Placed'
  <2>1. Closed \in Place /\ Closed.page \notin Pages
    BY DEF Closed, Place, Pages
  <2>2. at' = at \/ (at[t].page = "join" /\ at' = [at EXCEPT ![t] = Closed])
    BY <1>1 DEF Told
  <2>3. at' \in [Tab -> Place]
    BY <1>2, <2>1, <2>2
  <2>4. \A s \in Tab : at'[s] = at[s] \/ (at[s].page = "join" /\ at'[s] = Closed)
    BY <1>2, <2>2
  <2>5. Placed'
    BY <1>1, <2>1, <2>4 DEF Sound, Placed, Fits, Pages, Closed
  <2> QED BY <2>3, <2>5
<1>6. raced' \subseteq Browser \X Code
  <2>1. k.kind = "create" /\ k.answered => k.code \in Code
    BY DEF Sound, Called
  <2> QED BY <1>1, <1>2, <2>1, RaceTyped
<1> QED BY <1>1, <1>2, <1>3, <1>4, <1>5, <1>6, SoundFrom

LEMMA RoomRouteSound ==
    ASSUME Sound, NEW t \in Tab, RoomRoute(t)
    PROVE  Sound'
<1> DEFINE c == at[t].code
<1>1. /\ BrowserOf[t] \in Browser /\ disruptions \in 0..MaxDisruptions /\ ids \in 0..MaxIds
      /\ session \in [Browser -> [Code -> 0..ids]]
      /\ host \in [Code -> (0..ids) \cup {Stranger}]
  BY DEF Sound, Typed, TypeOK
<1>2. c \in Code /\ UNCHANGED <<ids, me, session, host, disruptions>>
  BY DEF RoomRoute, Sound, Placed, Fits
<1>3. CASE MySession(t, c) = Nobody
  <2>1. Door(t, c, FALSE, calls[t])
    BY <1>3 DEF RoomRoute
  <2> QED BY <1>1, <1>2, <2>1, DoorSound
<1>4. CASE MySession(t, c) # Nobody
  <2> DEFINE place == As("opening", c, MySession(t, c))
  <2>1. Move(t, place) /\ UNCHANGED calls /\ \E yes : Race(BrowserOf[t], c, yes)
    BY <1>4 DEF RoomRoute
  <2>2. MySession(t, c) \in 0..MaxIds
    BY <1>1, <1>2 DEF MySession
  <2>3. place \in Place /\ Fits(place)
    BY <1>2, <1>4, <2>2 DEF As, Place, Pages, Fits
  <2> HIDE DEF place
  <2>4. at' \in [Tab -> Place] /\ kicked' \subseteq Tab /\ Placed'
    BY <2>1, <2>3, MoveTyped
  <2>5. raced' \subseteq Browser \X Code
    BY <1>1, <1>2, <2>1, RaceTyped
  <2> QED BY <1>1, <1>2, <2>1, <2>4, <2>5, DrawsNone, CallsSame, RangesGrow, SoundFrom
<1> QED BY <1>3, <1>4

LEMMA PlaceTurns ==
    ASSUME NEW place \in Place, NEW page \in {"room", "failed"}
    PROVE  /\ [place EXCEPT !.page = page] \in Place
           /\ [place EXCEPT !.page = page].page = page
           /\ [place EXCEPT !.page = page].code = place.code
           /\ [place EXCEPT !.page = page].user = place.user
BY SMT DEF Place

LEMMA SoundStep == Sound /\ [Next]_vars => Sound'
<1> SUFFICES ASSUME Sound, [Next]_vars PROVE Sound'
  OBVIOUS
<1>1. /\ disruptions \in 0..MaxDisruptions /\ raced \subseteq Browser \X Code
      /\ ids \in 0..MaxIds /\ at \in [Tab -> Place] /\ kicked \subseteq Tab
      /\ session \in [Browser -> [Code -> 0..ids]]
      /\ host \in [Code -> (0..ids) \cup {Stranger}]
      /\ calls \in [Tab -> SUBSET Asked]
      /\ \A t \in Tab : BrowserOf[t] \in Browser
  BY DEF Sound, Typed, TypeOK
<1>2. ASSUME NEW t \in Tab, StartRoom(t) PROVE Sound'
  BY <1>2, StartRoomSound
<1>3. ASSUME NEW t \in Tab, GoToRoom(t) PROVE Sound'
  <2>1. PICK e \in Entries : Door(t, e.code, e.invited, calls[t])
    BY <1>3 DEF GoToRoom
  <2>2. e.code \in Code /\ e.invited \in BOOLEAN
    BY DEF Entries
  <2>3. UNCHANGED <<ids, me, session, host, disruptions>>
    BY <1>3 DEF GoToRoom
  <2> QED BY <1>1, <2>1, <2>2, <2>3, DoorSound
<1>4. ASSUME NEW t \in Tab, Visit(t) PROVE Sound'
  <2>1. disruptions' \in 0..MaxDisruptions /\ UNCHANGED <<ids, me, session, host>>
    BY <1>1, <1>4 DEF Visit
  <2>2. PICK e \in Entries :
          \/ Door(t, e.code, e.invited, {})
          \/ /\ ~e.invited /\ Move(t, In("route", e.code))
             /\ calls' = [calls EXCEPT ![t] = {}]
             /\ UNCHANGED raced
    BY <1>4 DEF Visit
  <2>3. e.code \in Code /\ e.invited \in BOOLEAN
    BY DEF Entries
  <2>4. CASE Door(t, e.code, e.invited, {})
    BY <2>1, <2>3, <2>4, DoorSound
  <2>5. CASE Move(t, In("route", e.code)) /\ calls' = [calls EXCEPT ![t] = {}] /\ UNCHANGED raced
    <3>1. In("route", e.code) \in Place /\ Fits(In("route", e.code))
      BY <2>3 DEF In, Place, Pages, Fits
    <3>2. at' \in [Tab -> Place] /\ kicked' \subseteq Tab /\ Placed'
      BY <2>5, <3>1, MoveTyped
    <3>3. Draws /\ ids' = ids
      BY <2>1, DrawsNone
    <3> DEFINE K == {}
    <3>4. calls' = [calls EXCEPT ![t] = K] /\ \A k \in K : k \in calls[t] \/ Proper(t, k)
      BY <2>5
    <3> HIDE DEF K
    <3>5. calls' \in [Tab -> SUBSET Asked'] /\ Called'
      BY <3>3, <3>4, CallsSound
    <3> QED BY <1>1, <2>1, <2>5, <3>2, <3>3, <3>5, SoundFrom
  <2> QED BY <2>2, <2>4, <2>5
<1>5. ASSUME NEW t \in Tab, GoHome(t) PROVE Sound'
  <2>1. Home \in Place /\ Fits(Home)
    BY DEF Home, Place, Pages, Fits
  <2>2. at' \in [Tab -> Place] /\ kicked' \subseteq Tab /\ Placed'
    BY <1>5, <2>1, MoveTyped DEF GoHome
  <2>3. UNCHANGED <<ids, me, session, host, calls, disruptions, raced>>
    BY <1>5 DEF GoHome
  <2> QED BY <1>1, <2>2, <2>3, DrawsNone, CallsSame, SoundFrom
<1>6. ASSUME NEW t \in Tab, Progress(t) PROVE Sound'
  <2>1. CASE Load(t)
    <3>1. /\ at[t].page = "opening" /\ UNCHANGED <<ids, me, session, host, calls, kicked, disruptions, raced>>
          /\ \E page \in {"room", "failed"} : at' = [at EXCEPT ![t].page = page]
      BY <2>1 DEF Load
    <3>2. PICK page \in {"room", "failed"} : at' = [at EXCEPT ![t].page = page]
      BY <3>1
    <3>3. \A s \in Tab : at'[s] = IF s = t THEN [at[t] EXCEPT !.page = page] ELSE at[s]
      BY <1>1, <3>2
    <3>4. [at[t] EXCEPT !.page = page] \in Place
      BY <1>1, PlaceTurns
    <3>5. /\ [at[t] EXCEPT !.page = page].page \in Pages
          /\ [at[t] EXCEPT !.page = page].code = at[t].code
          /\ [at[t] EXCEPT !.page = page].user = at[t].user
      BY <1>1, PlaceTurns DEF Pages
    <3>6. at' \in [Tab -> Place]
      BY <1>1, <3>2, <3>4
    <3>7. Placed'
      BY <3>1, <3>3, <3>5 DEF Sound, Placed, Fits, Pages
    <3> QED BY <1>1, <3>1, <3>6, <3>7, DrawsNone, CallsSame, SoundFrom
  <2> QED BY <1>6, <2>1, HandleCreateSound, HandleJoinSound, AnswerSound, CallFailsSound,
             RoomRouteSound DEF Progress, Answered
<1>7. ASSUME NEW t \in Tab, OnKicked(t) PROVE Sound'
  <2>1. Gone \in Place /\ Fits(Gone)
    BY DEF Gone, Place, Pages, Fits
  <2>2. at' \in [Tab -> Place] /\ kicked' \subseteq Tab /\ Placed'
    BY <1>7, <2>1, MoveTyped DEF OnKicked
  <2>3. /\ UNCHANGED <<ids, me, host, calls, disruptions, raced>>
        /\ session' = [session EXCEPT ![BrowserOf[t]][at[t].code] = Nobody]
    BY <1>7 DEF OnKicked, SaveSession
  <2>4. at[t].code \in Code
    BY <1>7 DEF OnKicked, Sound, Placed, Fits
  <2>5. session' \in [Browser -> [Code -> 0..ids']]
    BY <1>1, <2>3, <2>4
  <2> QED BY <1>1, <2>2, <2>3, <2>5, DrawsNone, CallsSame, SoundFrom
<1>8. ASSUME NEW t \in Tab, KickMissed(t) PROVE Sound'
  <2>1. /\ kicked' = kicked \ {t} /\ \E yes : Race(BrowserOf[t], at[t].code, yes)
        /\ UNCHANGED <<ids, me, session, host, at, calls, disruptions>> /\ t \in kicked
    BY <1>8 DEF KickMissed
  <2>2. Placed' /\ at[t].code \in Code
    BY <2>1 DEF Sound, Placed, Fits
  <2>3. raced' \subseteq Browser \X Code
    BY <1>1, <2>1, <2>2, RaceTyped
  <2> QED BY <1>1, <2>1, <2>2, <2>3, DrawsNone, CallsSame, SoundFrom
<1>9. ASSUME NEW c \in Code, OthersCreate(c) \/ Expire(c) PROVE Sound'
  <2>1. /\ UNCHANGED <<ids, me, session, at, calls, kicked, raced>>
        /\ host' = [host EXCEPT ![c] = Stranger] \/ host' = [host EXCEPT ![c] = Nobody]
        /\ disruptions' \in 0..MaxDisruptions
    BY <1>1, <1>9 DEF OthersCreate, Expire
  <2>2. host' \in [Code -> (0..ids') \cup {Stranger}]
    BY <1>1, <2>1
  <2> QED BY <1>1, <2>1, <2>2, DrawsNone, CallsSame, PlacedSame, SoundFrom
<1>10. ASSUME NEW c \in Code, NEW u \in 1..MaxIds, HandleRemove(c, u) PROVE Sound'
  <2>1. /\ kicked' = kicked \cup {t \in Tab : Listens(t, c) /\ at[t].user = u}
        /\ UNCHANGED <<ids, me, session, host, at, calls, disruptions, raced>>
    BY <1>10 DEF HandleRemove
  <2>2. \A t \in Tab : Listens(t, c) => at[t].page \in Pages
    BY DEF Listens, Inside, Pages
  <2>3. Placed' /\ kicked' \subseteq Tab
    BY <1>1, <2>1, <2>2 DEF Sound, Placed, Fits
  <2> QED BY <1>1, <2>1, <2>3, DrawsNone, CallsSame, SoundFrom
<1>11. CASE UNCHANGED vars
  BY <1>1, <1>11, DrawsNone, CallsSame, PlacedSame, SoundFrom DEF vars
<1> QED BY <1>2, <1>3, <1>4, <1>5, <1>6, <1>7, <1>8, <1>9, <1>10, <1>11 DEF Next

-----------------------------------------------------------------------------
(* One browser and one code that met no race.                              *)

Of(b) == {t \in Tab : BrowserOf[t] = b}

Owns(b, c) == host[c] = me[b] /\ me[b] # Nobody

Makes(b, c) == \E t \in Of(b) : \E k \in calls[t] : k.kind = "create" /\ k.code = c

(* The pages of the room are those of the user that is remembered, but for *)
(* those that are still to be told of a removal; then all are.             *)
Heard(b, c) == \A t \in Of(b) :
    Listens(t, c) /\ t \notin kicked => at[t].user = session[b][c] /\ session[b][c] # Nobody

Removed(b, c) == \A s \in Of(b) : s \in kicked /\ at[s].code = c =>
    /\ ~Owns(b, c)
    /\ \A t \in Of(b) : Listens(t, c) => t \in kicked

(* Calls to the room are all those of one user, the one remembered, if     *)
(* any; a stranger and a creator have only one.                            *)
Agreed(b, c) ==
    \A s, t \in Of(b) : \A k \in calls[s], j \in calls[t] : k.code = c /\ j.code = c =>
        /\ k.user = j.user
        /\ k.user = Nobody \/ k.kind = "create" => s = t /\ k = j

Recalled(b, c) == \A t \in Of(b) : \A k \in calls[t] :
    k.kind = "join" /\ k.code = c /\ session[b][c] # Nobody => k.user = session[b][c]

(* Nobody is there yet while the room is being created, and its creator is *)
(* the one who is remembered from then on.                                 *)
Empty(b, c) == Makes(b, c) => \A t \in Of(b) : at[t].code = c => at[t].page = "route"

Hosts(b, c) == Owns(b, c) => session[b][c] = me[b] \/ Makes(b, c)

One(b, c) ==
    /\ Heard(b, c) /\ Removed(b, c) /\ Agreed(b, c)
    /\ Recalled(b, c) /\ Empty(b, c) /\ Hosts(b, c)

Ones == \A b \in Browser, c \in Code : <<b, c>> \notin raced => One(b, c)

LEMMA OnesInit == Init => Ones
<1> SUFFICES ASSUME Init, NEW b \in Browser, NEW c \in Code PROVE One(b, c)
  BY DEF Ones
<1>1. \A t \in Tab : calls[t] = {} /\ at[t].page = "home" /\ at[t].code # c
  BY DEF Init, Home
<1>2. me[b] = Nobody /\ kicked = {}
  BY DEF Init
<1>3. Of(b) \subseteq Tab
  BY DEF Of
<1>4. ~Makes(b, c) /\ ~Owns(b, c) /\ \A t \in Of(b) : ~Listens(t, c)
  BY <1>1, <1>2, <1>3 DEF Makes, Owns, Listens, Inside
<1> QED BY <1>1, <1>2, <1>3, <1>4 DEF One, Heard, Removed, Agreed, Recalled, Empty, Hosts

(* Steps that leave a browser's part in a room alone, or only end it.      *)

Stays(s) == at'[s] = at[s] /\ (s \in kicked' <=> s \in kicked)

(* A tab that is outside, or about to look for its way in.                 *)
Out(s, c) == ~Listens(s, c)' /\ (at'[s].code = c => at'[s].page = "route" /\ s \notin kicked')

CallsStay(b, c) == \A s \in Of(b) :
    /\ \A k \in calls'[s] : k.code = c => k \in calls[s]
    /\ \A k \in calls[s] : k.kind = "create" /\ k.code = c => k \in calls'[s]

HostStays(b, c) == Owns(b, c)' => Owns(b, c) /\ me'[b] = me[b]

Alone(b, c) ==
    /\ \A s \in Of(b) : Stays(s) \/ Out(s, c)
    /\ session'[b][c] = session[b][c]
    /\ CallsStay(b, c) /\ HostStays(b, c)

LEMMA ListensSame ==
    ASSUME NEW s, NEW c, at'[s] = at[s]
    PROVE  Listens(s, c)' <=> Listens(s, c)
BY DEF Listens, Inside

LEMMA MakesSame ==
    ASSUME NEW b, NEW c, CallsStay(b, c)
    PROVE  Makes(b, c)' <=> Makes(b, c)
BY DEF Makes, CallsStay, Of

LEMMA AgreedStays ==
    ASSUME NEW b, NEW c, CallsStay(b, c), Agreed(b, c)
    PROVE  Agreed(b, c)'
BY DEF Agreed, CallsStay, Of

LEMMA RecalledStays ==
    ASSUME NEW b, NEW c, CallsStay(b, c), Recalled(b, c), session'[b][c] = session[b][c]
    PROVE  Recalled(b, c)'
BY DEF Recalled, CallsStay, Of

LEMMA AloneKeeps ==
    ASSUME NEW b, NEW c, One(b, c), Alone(b, c)
    PROVE  One(b, c)'
<1>1. Agreed(b, c)' /\ Recalled(b, c)' /\ (Makes(b, c)' <=> Makes(b, c))
  BY AgreedStays, RecalledStays, MakesSame DEF One, Alone
<1>2. \A s \in Of(b) : Stays(s) => (Listens(s, c)' <=> Listens(s, c))
  BY ListensSame DEF Stays
<1>3. Heard(b, c)'
  BY <1>2 DEF One, Heard, Alone, Stays, Out, Of
<1>4. Removed(b, c)'
  <2> SUFFICES ASSUME NEW s \in Of(b), s \in kicked', at'[s].code = c
               PROVE  ~Owns(b, c)' /\ \A t \in Of(b) : Listens(t, c)' => t \in kicked'
    BY DEF Removed, Of
  <2>1. s \in kicked /\ at[s].code = c
    BY DEF Alone, Stays, Out
  <2>2. ~Owns(b, c) /\ \A t \in Of(b) : Listens(t, c) => t \in kicked
    BY <2>1 DEF One, Removed
  <2> QED BY <1>2, <2>2 DEF Alone, HostStays, Stays, Out
<1>5. Empty(b, c)'
  BY <1>1 DEF One, Empty, Alone, Stays, Out, Of
<1>6. Hosts(b, c)'
  BY <1>1 DEF One, Hosts, Alone, HostStays
<1> QED BY <1>1, <1>3, <1>4, <1>5, <1>6 DEF One

-----------------------------------------------------------------------------
(* The steps that matter to the browser and the code.                      *)

(* A tab goes elsewhere and drops some calls, but no creation that has had *)
(* its answer.                                                             *)
LEMMA LeavesAlone ==
    ASSUME Sound, NEW t \in Tab, NEW place, NEW K, NEW b \in Browser, NEW c \in Code,
           Move(t, place), calls' = [calls EXCEPT ![t] = K],
           BrowserOf[t] = b =>
             /\ \A k \in K : k.code = c => k \in calls[t]
             /\ \A k \in calls[t] : k.kind = "create" /\ k.code = c => k \in K
             /\ place.page \notin Pages \/ place.code # c
             /\ place.code = c => place.page = "route",
           session'[b][c] = session[b][c], UNCHANGED <<host, me>>
    PROVE  Alone(b, c)
<1>1. at \in [Tab -> Place] /\ calls \in [Tab -> SUBSET Asked]
  BY DEF Sound, Typed, TypeOK
<1>2. /\ \A s \in Tab : at'[s] = IF s = t THEN place ELSE at[s]
      /\ \A s \in Tab : calls'[s] = IF s = t THEN K ELSE calls[s]
      /\ kicked' = kicked \ {t}
  BY <1>1 DEF Move
<1>3. \A s \in Tab : s # t => Stays(s)
  BY <1>2 DEF Stays
<1>4. BrowserOf[t] = b => Out(t, c)
  <2> SUFFICES ASSUME BrowserOf[t] = b PROVE Out(t, c)
    OBVIOUS
  <2>1. at'[t] = place /\ t \notin kicked'
    BY <1>2
  <2> QED BY <2>1 DEF Out, Listens, Inside, Pages
<1>5. \A s \in Of(b) : Stays(s) \/ Out(s, c)
  BY <1>3, <1>4 DEF Of
<1>6. CallsStay(b, c)
  BY <1>2 DEF CallsStay, Of
<1>7. HostStays(b, c)
  BY DEF HostStays, Owns
<1> QED BY <1>5, <1>6, <1>7 DEF Alone

LEMMA DoorKeeps ==
    ASSUME Sound, NEW t \in Tab, NEW e \in Code, NEW invited \in BOOLEAN, NEW others,
           others \subseteq calls[t], Door(t, e, invited, others),
           \A k \in calls[t] : k.kind = "create" /\ k.code \in Code => k \in others,
           UNCHANGED <<me, session, host>>,
           NEW b \in Browser, NEW c \in Code, <<b, c>> \notin raced', One(b, c)
    PROVE  One(b, c)'
<1> DEFINE j == Call("join", e, IF invited THEN Nobody ELSE Existing(t, e))
           K == others \cup {j}
<1>1. Move(t, In("join", e)) /\ calls' = [calls EXCEPT ![t] = K]
  BY DEF Door
<1>2. /\ j.kind = "join" /\ j.code = e
      /\ j.user = (IF invited THEN Nobody ELSE session[BrowserOf[t]][e])
  BY DEF Call, Existing, MySession
<1>3. at \in [Tab -> Place] /\ calls \in [Tab -> SUBSET Asked]
  BY DEF Sound, Typed, TypeOK
<1> HIDE DEF j
<1>4. CASE BrowserOf[t] # b \/ c # e
  <2>1. In("join", e).page \notin Pages /\ In("join", e).code = e
    BY DEF In, Pages
  <2>2. BrowserOf[t] = b =>
             /\ \A k \in K : k.code = c => k \in calls[t]
             /\ \A k \in calls[t] : k.kind = "create" /\ k.code = c => k \in K
             /\ In("join", e).page \notin Pages \/ In("join", e).code # c
             /\ In("join", e).code = c => In("join", e).page = "route"
    BY <1>2, <1>4, <2>1
  <2> HIDE DEF K
  <2>3. Alone(b, c)
    BY <1>1, <2>2, LeavesAlone
  <2> QED BY <2>3, AloneKeeps
<1>5. CASE BrowserOf[t] = b /\ c = e
  <2>1. /\ ~invited /\ ~Creating(t, c)
        /\ session[b][c] = Nobody => \A s \in Siblings(t) : \A k \in calls[s] : k.code # c
    BY <1>5 DEF Door, Race, MySession
  <2>2. Siblings(t) = Of(b)
    BY <1>5 DEF Siblings, Of
  <2>3. ~Makes(b, c) /\ j.user = session[b][c]
    BY <1>2, <1>5, <2>1, <2>2 DEF Creating, Makes
  <2>4. /\ \A s \in Tab : at'[s] = IF s = t THEN In("join", e) ELSE at[s]
        /\ \A s \in Tab : calls'[s] = IF s = t THEN K ELSE calls[s]
        /\ kicked' = kicked \ {t}
    BY <1>1, <1>3 DEF Move
  <2>5. \A s \in Of(b) : \A k \in calls'[s] :
          (k \in calls[s] /\ k.kind # "create") \/ k.code # c \/ (s = t /\ k = j)
    BY <2>3, <2>4 DEF Makes, Of
  <2>6. ~Makes(b, c)'
    BY <1>2, <2>5 DEF Makes, Of
  <2>7. Of(b) \subseteq Tab
    BY DEF Of
  <2>8. \A s \in Of(b) : Listens(s, c)' => s # t /\ Listens(s, c) /\ at'[s] = at[s]
    BY <2>4, <2>7 DEF Listens, Inside, In
  <2>9. Heard(b, c)'
    BY <2>4, <2>8 DEF One, Heard, Of
  <2>10. Removed(b, c)'
    <3>1. Owns(b, c)' <=> Owns(b, c)
      BY DEF Owns
    <3> QED BY <2>4, <2>7, <2>8, <3>1 DEF One, Removed, Of
  <2>11. \A s \in Of(b) : \A k \in calls'[s] : k.code = c =>
           /\ (k.kind # "create" /\ k.user = session[b][c]) \/ (s = t /\ k = j)
           /\ session[b][c] = Nobody => s = t /\ k = j
    <3> SUFFICES ASSUME NEW s \in Of(b), NEW k \in calls'[s], k.code = c
                 PROVE  /\ (k.kind # "create" /\ k.user = session[b][c]) \/ (s = t /\ k = j)
                        /\ session[b][c] = Nobody => s = t /\ k = j
      OBVIOUS
    <3>1. CASE s = t /\ k = j
      BY <3>1
    <3>2. CASE k \in calls[s] /\ k.kind # "create"
      <4>1. session[b][c] # Nobody
        BY <2>1, <2>2, <3>2
      <4>2. k.kind = "join"
        BY <1>3, <2>7, <3>2 DEF Asked
      <4> QED BY <3>2, <4>1, <4>2 DEF One, Recalled
    <3> QED BY <2>5, <3>1, <3>2
  <2>12. Agreed(b, c)'
    <3> SUFFICES ASSUME NEW s \in Of(b), NEW r \in Of(b), NEW k \in calls'[s], NEW i \in calls'[r],
                        k.code = c, i.code = c
                 PROVE  /\ k.user = i.user
                        /\ k.user = Nobody \/ k.kind = "create" => s = r /\ k = i
      BY DEF Agreed, Of
    <3>1. k.user = session[b][c] /\ i.user = session[b][c] /\ k.kind # "create"
      BY <1>2, <2>3, <2>11
    <3> QED BY <2>11, <3>1
  <2>13. Recalled(b, c)'
    BY <2>3, <2>11 DEF Recalled, Of
  <2>14. Empty(b, c)' /\ Hosts(b, c)'
    BY <2>3, <2>6 DEF Empty, One, Hosts, Owns
  <2> QED BY <2>9, <2>10, <2>12, <2>13, <2>14 DEF One
<1> QED BY <1>4, <1>5

(* Nothing but the host, or the ids, of the room or of others changes.     *)
LEMMA CallsSameStay ==
    ASSUME UNCHANGED calls, NEW b, NEW c
    PROVE  CallsStay(b, c)
BY DEF CallsStay

LEMMA StartRoomKeeps ==
    ASSUME Sound, NEW t \in Tab, StartRoom(t), NEW b \in Browser, NEW c \in Code, One(b, c)
    PROVE  One(b, c)'
<1> DEFINE j == Call("create", NoCode, me'[BrowserOf[t]])
<1>1. /\ UNCHANGED <<session, host, at, kicked>>
      /\ calls' = [calls EXCEPT ![t] = calls[t] \cup {j}]
      /\ calls \in [Tab -> SUBSET Asked] /\ j.code = NoCode
      /\ GetMyId(BrowserOf[t]) /\ BrowserOf[t] \in Browser
  BY DEF StartRoom, Sound, Typed, Call
<1> HIDE DEF j
<1>2. CallsStay(b, c)
  BY <1>1 DEF CallsStay, Of
<1>3. HostStays(b, c)
  <2>1. Draws
    BY <1>1, GetMyIdDraws
  <2>2. host[c] \in (0..ids) \cup {Stranger} /\ ids \in Nat /\ ids' \in 0..MaxIds /\ me'[b] \in 0..ids'
    BY <2>1 DEF Sound, Typed, TypeOK, Draws
  <2>3. me'[b] = me[b] \/ (me'[b] = ids + 1 /\ ids + 1 <= MaxIds)
    BY <2>1, <2>2 DEF Draws
  <2>4. me'[b] = me[b] \/ host'[c] # me'[b]
    BY <1>1, <2>2, <2>3 DEF Stranger
  <2> QED BY <1>1, <2>4 DEF HostStays, Owns
<1>4. Alone(b, c)
  BY <1>1, <1>2, <1>3 DEF Alone, Stays
<1> QED BY <1>4, AloneKeeps

LEMMA HandleCreateKeeps ==
    ASSUME Sound, NEW t \in Tab, HandleCreate(t),
           NEW b \in Browser, NEW c \in Code, <<b, c>> \notin raced', One(b, c)
    PROVE  One(b, c)'
<1>1. PICK k \in calls[t], d \in Code :
        /\ k.kind = "create" /\ ~k.answered
        /\ host' = [host EXCEPT ![d] = k.user]
        /\ calls' = [calls EXCEPT ![t] = (@ \ {k}) \cup {Reply(k, d, k.user)}]
        /\ Race(BrowserOf[t], d,
                \E s \in Siblings(t) : at[s].code = d \/ \E j \in calls[s] : j.code = d)
        /\ UNCHANGED <<ids, me, session, at, kicked, disruptions>>
  BY DEF HandleCreate
<1> DEFINE r == Reply(k, d, k.user)
           K == (calls[t] \ {k}) \cup {r}
<1>2. /\ calls \in [Tab -> SUBSET Asked] /\ BrowserOf[t] \in Browser
      /\ host \in [Code -> (0..ids) \cup {Stranger}]
      /\ k.code \notin Code /\ k.user = me[BrowserOf[t]] /\ k.user # Nobody
  BY <1>1 DEF Sound, Typed, TypeOK, Called
<1>3. r.kind = "create" /\ r.code = d /\ r.user = k.user
  BY <1>1 DEF Reply
<1>4. \A s \in Tab : calls'[s] = IF s = t THEN K ELSE calls[s]
  BY <1>1, <1>2
<1>5. \A s \in Tab : \A i \in calls'[s] : i \in calls[s] \/ (s = t /\ i = r)
  BY <1>4
<1>6. \A s \in Tab : \A i \in calls[s] : i \in calls'[s] \/ (s = t /\ i = k)
  BY <1>4
<1>7. t \in Tab /\ r \in calls'[t] /\ Of(b) \subseteq Tab
  BY <1>4 DEF Of
<1> HIDE DEF r, K
<1>8. CASE BrowserOf[t] # b \/ c # d
  <2>1. CallsStay(b, c)
    BY <1>2, <1>3, <1>5, <1>6, <1>8 DEF CallsStay, Of
  <2>2. HostStays(b, c)
    <3>1. CASE c # d
      BY <1>1, <1>2, <3>1 DEF HostStays, Owns
    <3>2. CASE c = d /\ BrowserOf[t] # b
      <4>1. host'[c] = me[BrowserOf[t]] /\ me'[b] = me[b]
        BY <1>1, <1>2, <3>2
      <4> QED BY <1>2, <3>2, <4>1 DEF HostStays, Owns, Sound, Distinct
    <3> QED BY <1>8, <3>1, <3>2
  <2>3. Alone(b, c)
    BY <1>1, <2>1, <2>2 DEF Alone, Stays
  <2> QED BY <2>3, AloneKeeps
<1>9. CASE BrowserOf[t] = b /\ c = d
  <2>1. Siblings(t) = Of(b) /\ t \in Of(b)
    BY <1>9 DEF Siblings, Of
  <2>2. \A s \in Of(b) : at'[s].code # c /\ \A i \in calls[s] : i.code # c
    BY <1>1, <1>9, <2>1 DEF Race
  <2>3. \A s \in Of(b) : ~Listens(s, c)'
    BY <2>2 DEF Listens, Inside
  <2>4. \A s \in Of(b) : \A i \in calls'[s] : i.code = c => s = t /\ i = r
    BY <1>5, <1>7, <2>2
  <2>5. Makes(b, c)'
    BY <1>3, <1>7, <1>9, <2>1 DEF Makes, Of
  <2>6. Heard(b, c)' /\ Removed(b, c)' /\ Empty(b, c)'
    BY <2>2, <2>3 DEF Heard, Removed, Empty, Of
  <2>7. Agreed(b, c)' /\ Recalled(b, c)'
    BY <1>3, <2>4 DEF Agreed, Recalled, Of
  <2>8. Hosts(b, c)'
    BY <2>5 DEF Hosts
  <2> QED BY <2>6, <2>7, <2>8 DEF One
<1> QED BY <1>8, <1>9

LEMMA HandleJoinKeeps ==
    ASSUME Sound, NEW t \in Tab, HandleJoin(t), NEW b \in Browser, NEW c \in Code, One(b, c)
    PROVE  One(b, c)'
<1>1. PICK k \in calls[t] :
        /\ k.kind = "join"
        /\ calls' = [calls EXCEPT ![t] = (@ \ {k}) \cup
             {Reply(k, k.code, IF k.user = Nobody THEN ids' ELSE k.user)}]
        /\ UNCHANGED <<me, session, host, at, kicked>>
  BY DEF HandleJoin
<1> DEFINE r == Reply(k, k.code, IF k.user = Nobody THEN ids' ELSE k.user)
           K == (calls[t] \ {k}) \cup {r}
<1>2. calls \in [Tab -> SUBSET Asked] /\ Of(b) \subseteq Tab
  BY DEF Sound, Typed, Of
<1>3. r.kind = "join" /\ r.code = k.code /\ (k.user # Nobody => r.user = k.user)
  BY <1>1 DEF Reply
<1>4. \A s \in Tab : calls'[s] = IF s = t THEN K ELSE calls[s]
  BY <1>1, <1>2
<1>5. \A s \in Of(b) : \A i \in calls'[s] :
        (i \in calls[s] /\ ~(s = t /\ i = k)) \/ (s = t /\ i = r)
  BY <1>2, <1>4
<1>6. \A s \in Of(b) : \A i \in calls[s] : i \in calls'[s] \/ (s = t /\ i = k)
  BY <1>2, <1>4
<1> HIDE DEF r, K
<1>7. HostStays(b, c)
  BY <1>1 DEF HostStays, Owns
<1>8. CASE t \notin Of(b) \/ c # k.code
  <2>1. CallsStay(b, c)
    BY <1>3, <1>5, <1>6, <1>8 DEF CallsStay
  <2>2. Alone(b, c)
    BY <1>1, <1>7, <2>1 DEF Alone, Stays
  <2> QED BY <2>2, AloneKeeps
<1>9. CASE t \in Of(b) /\ c = k.code
  <2>1. Agreed(b, c) /\ Recalled(b, c)
    BY DEF One
  <2>2. \A s \in Of(b) : \A i \in calls[s] : i.code = c =>
          k.user = i.user /\ (k.user = Nobody => s = t /\ i = k)
    BY <1>9, <2>1 DEF Agreed
  <2>3. Agreed(b, c)'
    <3> SUFFICES ASSUME NEW s \in Of(b), NEW q \in Of(b), NEW j \in calls'[s], NEW i \in calls'[q],
                        j.code = c, i.code = c
                 PROVE  /\ j.user = i.user
                        /\ j.user = Nobody \/ j.kind = "create" => s = q /\ j = i
      BY DEF Agreed, Of
    <3>1. CASE k.user = Nobody
      BY <1>5, <2>2, <3>1
    <3>2. CASE k.user # Nobody
      <4>1. j.user = k.user /\ i.user = k.user
        BY <1>3, <1>5, <2>2, <3>2
      <4>2. j.kind # "create"
        <5>1. ASSUME j \in calls[s], j.kind = "create" PROVE FALSE
          <6>1. s = t /\ j = k
            BY <1>9, <2>1, <5>1 DEF Agreed
          <6> QED BY <1>1, <5>1, <6>1
        <5> QED BY <1>3, <1>5, <5>1
      <4> QED BY <3>2, <4>1, <4>2
    <3> QED BY <3>1, <3>2
  <2>4. Recalled(b, c)'
    <3> SUFFICES ASSUME NEW s \in Of(b), NEW j \in calls'[s], j.kind = "join", j.code = c,
                        session[b][c] # Nobody
                 PROVE  j.user = session[b][c]
      BY <1>1 DEF Recalled, Of
    <3>1. k.user = session[b][c]
      BY <1>1, <1>9, <2>1 DEF Recalled
    <3> QED BY <1>3, <1>5, <2>1, <3>1 DEF Recalled
  <2>5. Makes(b, c)' <=> Makes(b, c)
    <3>1. \A s \in Of(b) : \A i \in calls'[s] : i.kind = "create" => i \in calls[s]
      BY <1>3, <1>5
    <3>2. \A s \in Of(b) : \A i \in calls[s] : i.kind = "create" => i \in calls'[s]
      BY <1>1, <1>6
    <3> QED BY <3>1, <3>2 DEF Makes, Of
  <2>6. \A s \in Of(b) : Listens(s, c)' <=> Listens(s, c)
    BY <1>1 DEF Listens, Inside
  <2>7. Heard(b, c)' /\ Removed(b, c)'
    BY <1>1, <2>6 DEF One, Heard, Removed, Owns, Of
  <2>8. Empty(b, c)' /\ Hosts(b, c)'
    BY <1>1, <2>5 DEF One, Empty, Hosts, Owns, Of
  <2> QED BY <2>3, <2>4, <2>7, <2>8 DEF One
<1> QED BY <1>8, <1>9

LEMMA AnswerKeeps ==
    ASSUME Sound, NEW t \in Tab, NEW k \in calls[t], Answer(t, k),
           NEW b \in Browser, NEW c \in Code, <<b, c>> \notin raced', One(b, c)
    PROVE  One(b, c)'
<1> DEFINE p == Led(t, k)
<1>1. /\ k.answered /\ calls' = [calls EXCEPT ![t] = calls[t] \ {k}]
      /\ session' = [session EXCEPT ![BrowserOf[t]][k.code] = k.user]
      /\ Move(t, p) /\ UNCHANGED <<me, host>>
      /\ Race(BrowserOf[t], k.code, at[t].page = "failed" /\ Leaving(t, k.code))
  BY DEF Answer, SaveSession, Sound, Typed
<1>2. /\ k \in Asked /\ BrowserOf[t] \in Browser
      /\ session \in [Browser -> [Code -> 0..ids]]
      /\ calls \in [Tab -> SUBSET Asked] /\ at \in [Tab -> Place]
  BY DEF Sound, Typed, TypeOK
<1>3. k.code \in Code /\ k.user # Nobody /\ (k.kind = "create" => k.user = me[BrowserOf[t]])
  BY <1>1, <1>2 DEF Asked, Sound, Called
<1>4. /\ p.code \in {k.code, NoCode}
      /\ p.page \in {"failed", "gone", "route"}
      /\ p.page = "failed" => at[t].page = "failed" /\ p.user = k.user
      /\ p.page = "gone" => p.code = NoCode
  BY DEF Led, As, In, Gone
<1>5. /\ \A s \in Tab : at'[s] = IF s = t THEN p ELSE at[s]
      /\ \A s \in Tab : calls'[s] = IF s = t THEN calls[t] \ {k} ELSE calls[s]
      /\ kicked' = kicked \ {t}
  BY <1>1, <1>2 DEF Move
<1> HIDE DEF p
<1>6. CASE BrowserOf[t] # b \/ c # k.code
  <2>1. session'[b][c] = session[b][c]
    BY <1>1, <1>2, <1>3, <1>6
  <2>2. BrowserOf[t] = b =>
             /\ \A i \in calls[t] \ {k} : i.code = c => i \in calls[t]
             /\ \A i \in calls[t] : i.kind = "create" /\ i.code = c => i \in calls[t] \ {k}
             /\ p.page \notin Pages \/ p.code # c
             /\ p.code = c => p.page = "route"
    BY <1>4, <1>6
  <2>3. Alone(b, c)
    BY <1>1, <2>1, <2>2, LeavesAlone
  <2> QED BY <2>3, AloneKeeps
<1>7. CASE BrowserOf[t] = b /\ c = k.code
  <2>1. /\ Heard(b, c) /\ Removed(b, c) /\ Agreed(b, c)
        /\ Recalled(b, c) /\ Empty(b, c) /\ Hosts(b, c)
    BY DEF One
  <2>2. session'[b][c] = k.user /\ t \in Of(b) /\ Of(b) \subseteq Tab
    BY <1>1, <1>2, <1>7 DEF Of
  <2>3. k.kind = "create" => Makes(b, c)
    BY <1>7, <2>2 DEF Makes
  <2>4. k.kind = "join" /\ session[b][c] # Nobody => k.user = session[b][c]
    BY <1>7, <2>1, <2>2 DEF Recalled
  <2>5. k.kind \in {"create", "join"}
    BY <1>2 DEF Asked
  <2>6. \A s \in Of(b) : Listens(s, c)' =>
          \/ s # t /\ Listens(s, c) /\ at'[s] = at[s]
          \/ s = t /\ at[t].page = "failed" /\ at'[t].user = k.user
    BY <1>4, <1>5, <2>2 DEF Listens, Inside
  <2>7. \A s \in Of(b) : Listens(s, c) => k.kind = "join"
    BY <2>1, <2>3, <2>5 DEF Empty, Listens, Inside
  <2>8. Heard(b, c)'
    <3> SUFFICES ASSUME NEW s \in Of(b), Listens(s, c)', s \notin kicked'
                 PROVE  at'[s].user = k.user
      BY <1>3, <2>2 DEF Heard, Of
    <3>1. CASE s = t
      BY <2>6, <3>1
    <3>2. CASE s # t
      BY <1>5, <2>1, <2>4, <2>6, <2>7, <3>2 DEF Heard
    <3> QED BY <3>1, <3>2
  <2>9. Removed(b, c)'
    <3> SUFFICES ASSUME NEW s \in Of(b), s \in kicked', at'[s].code = c
                 PROVE  ~Owns(b, c)' /\ \A q \in Of(b) : Listens(q, c)' => q \in kicked'
      BY DEF Removed, Of
    <3>1. s \in kicked /\ s # t /\ at[s].code = c
      BY <1>5, <2>2
    <3>2. ~Owns(b, c) /\ \A q \in Of(b) : Listens(q, c) => q \in kicked
      BY <2>1, <3>1 DEF Removed
    <3>3. at[t].page # "failed"
      <4>1. s \in Siblings(t)
        BY <1>7 DEF Siblings, Of
      <4>2. Leaving(t, k.code)
        BY <1>7, <3>1, <4>1 DEF Leaving
      <4> QED BY <1>1, <1>7, <4>2 DEF Race
    <3> QED BY <1>1, <1>5, <2>6, <3>2, <3>3 DEF Owns
  <2>10. \A s \in Of(b) : \A i \in calls'[s] : i.code = c =>
           i \in calls[s] /\ i.user = k.user /\ i.kind # "create"
    <3> SUFFICES ASSUME NEW s \in Of(b), NEW i \in calls'[s], i.code = c
                 PROVE  i \in calls[s] /\ i.user = k.user /\ i.kind # "create"
      OBVIOUS
    <3>1. i \in calls[s] /\ ~(s = t /\ i = k)
      BY <1>5, <2>2
    <3> QED BY <1>7, <2>1, <2>2, <3>1 DEF Agreed
  <2>11. Agreed(b, c)'
    BY <1>3, <2>10 DEF Agreed, Of
  <2>12. Recalled(b, c)'
    BY <2>2, <2>10 DEF Recalled, Of
  <2>13. Empty(b, c)'
    BY <2>10 DEF Empty, Makes, Of
  <2>14. Hosts(b, c)'
    <3> SUFFICES ASSUME Owns(b, c) PROVE k.user = me[b]
      BY <1>1, <2>2 DEF Hosts, Owns
    <3>1. CASE k.kind = "create"
      BY <1>3, <1>7, <3>1
    <3>2. CASE k.kind = "join"
      <4>1. ~Makes(b, c)
        <5> SUFFICES ASSUME NEW s \in Of(b), NEW i \in calls[s], i.kind = "create", i.code = c
                     PROVE  FALSE
          BY DEF Makes
        <5>1. i = k
          BY <1>7, <2>1, <2>2 DEF Agreed
        <5> QED BY <3>2, <5>1
      <4> QED BY <2>1, <2>4, <3>2, <4>1 DEF Hosts, Owns
    <3> QED BY <2>5, <3>1, <3>2
  <2> QED BY <2>8, <2>9, <2>11, <2>12, <2>13, <2>14 DEF One
<1> QED BY <1>6, <1>7

LEMMA CallFailsKeeps ==
    ASSUME Sound, NEW t \in Tab, CallFails(t),
           NEW b \in Browser, NEW c \in Code, <<b, c>> \notin raced', One(b, c)
    PROVE  One(b, c)'
<1>1. PICK k \in calls[t] :
        /\ calls' = [calls EXCEPT ![t] = calls[t] \ {k}]
        /\ at' = Told(t, k)
        /\ Race(BrowserOf[t], k.code, k.kind = "create" /\ k.answered)
        /\ UNCHANGED <<me, session, host, kicked>>
  BY DEF CallFails, Sound, Typed
<1>2. /\ at \in [Tab -> Place] /\ calls \in [Tab -> SUBSET Asked] /\ Of(b) \subseteq Tab
      /\ k.kind = "create" /\ k.code = c => k.answered
  BY DEF Sound, Typed, TypeOK, Called, Of
<1>3. \A s \in Tab : calls'[s] = IF s = t THEN calls[t] \ {k} ELSE calls[s]
  BY <1>1, <1>2
<1>4. BrowserOf[t] = b => ~(k.kind = "create" /\ k.code = c)
  BY <1>1, <1>2 DEF Race
<1>5. CallsStay(b, c)
  BY <1>2, <1>3, <1>4 DEF CallsStay, Of
<1>6. \A s \in Tab : at'[s] = at[s] \/ at'[s] = Closed
  BY <1>1, <1>2 DEF Told
<1>7. \A s \in Of(b) : Stays(s) \/ Out(s, c)
  BY <1>1, <1>2, <1>6 DEF Stays, Out, Closed, Listens, Inside
<1>8. Alone(b, c)
  BY <1>1, <1>5, <1>7 DEF Alone, HostStays, Owns
<1> QED BY <1>8, AloneKeeps

LEMMA RoomRouteKeeps ==
    ASSUME Sound, NEW t \in Tab, RoomRoute(t),
           NEW b \in Browser, NEW c \in Code, <<b, c>> \notin raced', One(b, c)
    PROVE  One(b, c)'
<1> DEFINE d == at[t].code
           place == As("opening", d, MySession(t, d))
<1>1. d \in Code /\ UNCHANGED <<me, session, host>>
  BY DEF RoomRoute, Sound, Placed, Fits
<1>2. CASE MySession(t, d) = Nobody
  BY <1>1, <1>2, DoorKeeps DEF RoomRoute
<1>3. CASE MySession(t, d) # Nobody
  <2>1. /\ Move(t, place) /\ UNCHANGED calls
        /\ Race(BrowserOf[t], d, Creating(t, d) \/ Leaving(t, d))
    BY <1>3 DEF RoomRoute
  <2>2. at \in [Tab -> Place] /\ Of(b) \subseteq Tab
    BY DEF Sound, Typed, TypeOK, Of
  <2>3. place.page = "opening" /\ place.code = d /\ place.user = session[BrowserOf[t]][d]
    BY DEF As, MySession
  <2> HIDE DEF place
  <2>4. kicked' = kicked \ {t} /\ \A s \in Tab : at'[s] = IF s = t THEN place ELSE at[s]
    BY <2>1, <2>2 DEF Move
  <2>5. CallsStay(b, c) /\ HostStays(b, c)
    BY <1>1, <2>1 DEF CallsStay, HostStays, Owns
  <2>6. CASE BrowserOf[t] # b \/ c # d
    <3>1. \A s \in Of(b) : Stays(s) \/ Out(s, c)
      BY <2>2, <2>3, <2>4, <2>6 DEF Stays, Out, Listens, Inside, Of
    <3>2. Alone(b, c)
      BY <1>1, <2>5, <3>1 DEF Alone
    <3> QED BY <3>2, AloneKeeps
  <2>7. CASE BrowserOf[t] = b /\ c = d
    <3>1. Siblings(t) = Of(b) /\ ~Creating(t, c) /\ ~Leaving(t, c)
      BY <2>1, <2>7 DEF Race, Siblings, Of
    <3>2. ~Makes(b, c) /\ \A s \in Of(b) : s \in kicked => at[s].code # c
      BY <3>1 DEF Creating, Leaving, Makes
    <3>3. \A s \in Of(b) : s # t => (Listens(s, c)' <=> Listens(s, c)) /\ at'[s] = at[s]
      BY <2>2, <2>4 DEF Listens, Inside
    <3>4. Heard(b, c)'
      <4> SUFFICES ASSUME NEW s \in Of(b), Listens(s, c)', s \notin kicked'
                   PROVE  at'[s].user = session[b][c] /\ session[b][c] # Nobody
        BY <1>1 DEF Heard, Of
      <4>1. CASE s = t
        BY <1>3, <2>2, <2>3, <2>4, <2>7, <4>1 DEF MySession
      <4>2. CASE s # t
        BY <2>4, <3>3, <4>2 DEF One, Heard
      <4> QED BY <4>1, <4>2
    <3>5. Removed(b, c)'
      <4>1. \A s \in Of(b) : s \in kicked' => at'[s].code # c
        BY <2>4, <3>2, <3>3
      <4> QED BY <4>1 DEF Removed, Of
    <3>6. Agreed(b, c)' /\ Recalled(b, c)' /\ ~Makes(b, c)'
      BY <1>1, <2>5, <3>2, AgreedStays, RecalledStays, MakesSame DEF One
    <3>7. Empty(b, c)' /\ Hosts(b, c)'
      BY <1>1, <3>2, <3>6 DEF Empty, One, Hosts, Owns
    <3> QED BY <3>4, <3>5, <3>6, <3>7 DEF One
  <2> QED BY <2>6, <2>7
<1> QED BY <1>2, <1>3

LEMMA LoadKeeps ==
    ASSUME Sound, NEW t \in Tab, Load(t), NEW b \in Browser, NEW c \in Code, One(b, c)
    PROVE  One(b, c)'
<1>1. PICK page \in {"room", "failed"} :
        /\ at[t].page = "opening" /\ at' = [at EXCEPT ![t].page = page]
        /\ UNCHANGED <<me, session, host, calls, kicked>>
  BY DEF Load
<1>2. at \in [Tab -> Place] /\ Of(b) \subseteq Tab
  BY DEF Sound, Typed, TypeOK, Of
<1>3. \A s \in Tab : s # t => at'[s] = at[s]
  BY <1>1, <1>2
<1>4. at'[t].page = page /\ at'[t].code = at[t].code /\ at'[t].user = at[t].user
  <2>1. at'[t] = [at[t] EXCEPT !.page = page]
    BY <1>1, <1>2
  <2> QED BY <1>2, <2>1, PlaceTurns
<1>5. \A s \in Of(b) :
        /\ Listens(s, c)' <=> Listens(s, c)
        /\ at'[s].code = at[s].code /\ at'[s].user = at[s].user
        /\ at[s].page = "route" => at'[s].page = "route"
  BY <1>1, <1>2, <1>3, <1>4 DEF Listens, Inside
<1>6. CallsStay(b, c)
  BY <1>1 DEF CallsStay
<1>7. Agreed(b, c)' /\ Recalled(b, c)' /\ (Makes(b, c)' <=> Makes(b, c))
  BY <1>1, <1>6, AgreedStays, RecalledStays, MakesSame DEF One
<1>8. Heard(b, c)' /\ Removed(b, c)'
  BY <1>1, <1>5 DEF One, Heard, Removed, Owns, Of
<1>9. Empty(b, c)' /\ Hosts(b, c)'
  BY <1>1, <1>5, <1>7 DEF One, Empty, Hosts, Owns, Of
<1> QED BY <1>7, <1>8, <1>9 DEF One

LEMMA HandleRemoveKeeps ==
    ASSUME Sound, NEW d \in Code, NEW u, HandleRemove(d, u),
           NEW b \in Browser, NEW c \in Code, One(b, c)
    PROVE  One(b, c)'
<1>1. /\ kicked' = kicked \cup {t \in Tab : Listens(t, d) /\ at[t].user = u}
      /\ UNCHANGED <<me, session, host, at, calls>> /\ host[d] # u
  BY DEF HandleRemove, CanRemove
<1>2. CallsStay(b, c) /\ Of(b) \subseteq Tab
  BY <1>1 DEF CallsStay, Of
<1>3. Agreed(b, c)' /\ Recalled(b, c)' /\ (Makes(b, c)' <=> Makes(b, c))
  BY <1>1, <1>2, AgreedStays, RecalledStays, MakesSame DEF One
<1>4. \A s \in Of(b) : Listens(s, c)' <=> Listens(s, c)
  BY <1>1 DEF Listens, Inside
<1>5. Heard(b, c)'
  BY <1>1, <1>4 DEF One, Heard, Of
<1>6. Empty(b, c)' /\ Hosts(b, c)'
  BY <1>1, <1>3 DEF One, Empty, Hosts, Owns, Of
<1>7. Removed(b, c)'
  <2> SUFFICES ASSUME NEW s \in Of(b), s \in kicked', at[s].code = c
               PROVE  ~Owns(b, c) /\ \A t \in Of(b) : Listens(t, c) => t \in kicked'
    BY <1>1, <1>4 DEF Removed, Owns, Of
  <2>1. CASE s \in kicked
    BY <1>1, <2>1 DEF One, Removed
  <2>2. CASE s \notin kicked
    <3>1. Listens(s, c) /\ c = d /\ at[s].user = u
      BY <1>1, <2>2 DEF Listens, Inside
    <3>2. u = session[b][c]
      BY <2>2, <3>1 DEF One, Heard
    <3>3. ~Makes(b, c)
      BY <3>1 DEF One, Empty, Listens, Inside
    <3>4. ~Owns(b, c)
      BY <1>1, <3>1, <3>2, <3>3 DEF One, Hosts, Owns
    <3>5. \A t \in Of(b) : Listens(t, c) => t \in kicked'
      BY <1>1, <1>2, <3>1, <3>2 DEF One, Heard
    <3> QED BY <3>4, <3>5
  <2> QED BY <2>1, <2>2
<1> QED BY <1>3, <1>5, <1>6, <1>7 DEF One

LEMMA OnKickedKeeps ==
    ASSUME Sound, NEW t \in Tab, OnKicked(t), NEW b \in Browser, NEW c \in Code, One(b, c)
    PROVE  One(b, c)'
<1>1. /\ t \in kicked /\ session' = [session EXCEPT ![BrowserOf[t]][at[t].code] = Nobody]
      /\ Move(t, Gone) /\ UNCHANGED <<me, host, calls>>
  BY DEF OnKicked, SaveSession
<1>2. /\ at \in [Tab -> Place] /\ Of(b) \subseteq Tab /\ BrowserOf[t] \in Browser
      /\ session \in [Browser -> [Code -> 0..ids]] /\ at[t].code \in Code
  BY <1>1 DEF Sound, Typed, TypeOK, Of, Placed, Fits
<1>3. kicked' = kicked \ {t} /\ \A s \in Tab : at'[s] = IF s = t THEN Gone ELSE at[s]
  BY <1>1, <1>2 DEF Move
<1>4. CallsStay(b, c) /\ HostStays(b, c)
  BY <1>1 DEF CallsStay, HostStays, Owns
<1>5. Gone.page = "gone" /\ Gone.code # c
  BY DEF Gone
<1>6. \A s \in Of(b) : Stays(s) \/ Out(s, c)
  BY <1>2, <1>3, <1>5 DEF Stays, Out, Listens, Inside
<1>7. CASE BrowserOf[t] # b \/ at[t].code # c
  <2>1. session'[b][c] = session[b][c]
    BY <1>1, <1>2, <1>7
  <2>2. Alone(b, c)
    BY <1>4, <1>6, <2>1 DEF Alone
  <2> QED BY <2>2, AloneKeeps
<1>8. CASE BrowserOf[t] = b /\ at[t].code = c
  <2>1. session'[b][c] = Nobody /\ t \in Of(b)
    BY <1>1, <1>2, <1>8 DEF Of
  <2>2. ~Owns(b, c) /\ \A s \in Of(b) : Listens(s, c) => s \in kicked
    BY <1>1, <1>8, <2>1 DEF One, Removed
  <2>3. \A s \in Of(b) : Listens(s, c)' => s # t /\ Listens(s, c)
    BY <1>2, <1>3, <1>5, <2>1 DEF Listens, Inside
  <2>4. Heard(b, c)' /\ Removed(b, c)'
    BY <1>1, <1>3, <2>2, <2>3 DEF Heard, Removed, Owns, Of
  <2>5. Agreed(b, c)' /\ (Makes(b, c)' <=> Makes(b, c))
    BY <1>4, AgreedStays, MakesSame DEF One
  <2>6. Recalled(b, c)'
    BY <2>1 DEF Recalled
  <2>7. Empty(b, c)'
    BY <1>2, <1>3, <1>5, <2>5 DEF One, Empty, Of
  <2>8. Hosts(b, c)'
    BY <1>1, <2>2 DEF Hosts, Owns
  <2> QED BY <2>4, <2>5, <2>6, <2>7, <2>8 DEF One
<1> QED BY <1>7, <1>8

LEMMA KickMissedKeeps ==
    ASSUME Sound, NEW t \in Tab, KickMissed(t),
           NEW b \in Browser, NEW c \in Code, <<b, c>> \notin raced', One(b, c)
    PROVE  One(b, c)'
<1> DEFINE d == at[t].code
<1>1. /\ t \in kicked /\ kicked' = kicked \ {t}
      /\ UNCHANGED <<me, session, host, at, calls>>
      /\ Race(BrowserOf[t], d, \/ MySession(t, d) # at[t].user
                               \/ \E s \in Siblings(t) \ {t} : Listens(s, d))
  BY DEF KickMissed
<1>2. CallsStay(b, c) /\ HostStays(b, c)
  BY <1>1 DEF CallsStay, HostStays, Owns
<1>3. \A s \in Of(b) : Listens(s, c)' <=> Listens(s, c)
  BY <1>1 DEF Listens, Inside
<1>4. CASE BrowserOf[t] # b \/ d # c
  <2>1. \A s \in Of(b) : Stays(s) \/ Out(s, c)
    BY <1>1, <1>3, <1>4 DEF Stays, Out, Listens, Inside, Of
  <2>2. Alone(b, c)
    BY <1>1, <1>2, <2>1 DEF Alone
  <2> QED BY <2>2, AloneKeeps
<1>5. CASE BrowserOf[t] = b /\ d = c
  <2>1. session[b][c] = at[t].user /\ \A s \in Of(b) : Listens(s, c) => s = t
    BY <1>1, <1>5 DEF Race, MySession, Siblings, Of
  <2>2. at[t].user # Nobody
    BY <1>1 DEF Sound, Placed, Fits
  <2>3. Heard(b, c)'
    BY <1>1, <1>3, <2>1, <2>2 DEF Heard, Of
  <2>4. Removed(b, c)'
    <3>1. \A s \in Of(b) : s \in kicked /\ at[s].code = c => Listens(s, c)
      BY DEF Sound, Placed, Pages, Listens, Inside, Of
    <3>2. \A s \in Of(b) : s \in kicked' => at[s].code # c
      BY <1>1, <2>1, <3>1
    <3> QED BY <1>1, <3>2 DEF Removed, Of
  <2>5. Agreed(b, c)' /\ Recalled(b, c)' /\ (Makes(b, c)' <=> Makes(b, c))
    BY <1>1, <1>2, AgreedStays, RecalledStays, MakesSame DEF One
  <2>6. Empty(b, c)' /\ Hosts(b, c)'
    BY <1>1, <2>5 DEF One, Empty, Hosts, Owns, Of
  <2> QED BY <2>3, <2>4, <2>5, <2>6 DEF One
<1> QED BY <1>4, <1>5

LEMMA RacedGrows == [Next]_vars => raced \subseteq raced'
<1> SUFFICES ASSUME [Next]_vars PROVE raced \subseteq raced'
  OBVIOUS
<1>1. ASSUME NEW b, NEW c, NEW yes, Race(b, c, yes) PROVE raced \subseteq raced'
  BY <1>1 DEF Race
<1>2. ASSUME NEW t, NEW c, NEW invited, NEW others, Door(t, c, invited, others)
      PROVE  raced \subseteq raced'
  BY <1>1, <1>2 DEF Door
<1>3. ASSUME NEW t \in Tab, Progress(t) PROVE raced \subseteq raced'
  <2>1. HandleCreate(t) => raced \subseteq raced'
    BY <1>1 DEF HandleCreate
  <2>2. Answered(t) \/ CallFails(t) => raced \subseteq raced'
    BY <1>1 DEF Answered, Answer, CallFails
  <2>3. RoomRoute(t) => raced \subseteq raced'
    BY <1>1, <1>2 DEF RoomRoute
  <2> QED BY <1>3, <2>1, <2>2, <2>3 DEF Progress, HandleJoin, Load
<1>4. ASSUME NEW t \in Tab, GoToRoom(t) \/ Visit(t) PROVE raced \subseteq raced'
  BY <1>2, <1>4 DEF GoToRoom, Visit
<1>5. ASSUME NEW t \in Tab, KickMissed(t) PROVE raced \subseteq raced'
  BY <1>1, <1>5 DEF KickMissed
<1> QED BY <1>3, <1>4, <1>5 DEF Next, StartRoom, GoHome, OnKicked, OthersCreate, Expire,
                               HandleRemove, vars

LEMMA OnesStep == Sound /\ Ones /\ [Next]_vars => Ones'
<1> SUFFICES ASSUME Sound, Ones, [Next]_vars, NEW b \in Browser, NEW c \in Code,
                    <<b, c>> \notin raced'
             PROVE  One(b, c)'
  BY DEF Ones
<1>1. One(b, c)
  BY RacedGrows DEF Ones
<1>2. ASSUME NEW t \in Tab, StartRoom(t) PROVE One(b, c)'
  BY <1>1, <1>2, StartRoomKeeps
<1>3. ASSUME NEW t \in Tab, GoToRoom(t) PROVE One(b, c)'
  <2>1. PICK e \in Entries : Door(t, e.code, e.invited, calls[t])
    BY <1>3 DEF GoToRoom
  <2>2. e.code \in Code /\ e.invited \in BOOLEAN /\ UNCHANGED <<me, session, host>>
    BY <1>3 DEF Entries, GoToRoom
  <2>3. \A k \in calls[t] : k.kind = "create" /\ k.code \in Code => k \in calls[t]
    OBVIOUS
  <2> QED BY <1>1, <2>1, <2>2, <2>3, DoorKeeps
<1>4. ASSUME NEW t \in Tab, Visit(t) PROVE One(b, c)'
  <2>1. /\ UNCHANGED <<me, session, host>>
        /\ \A k \in calls[t] : k.kind = "create" => k.code \notin Code
    BY <1>4 DEF Visit, Sound, Called
  <2>2. PICK e \in Entries :
          \/ Door(t, e.code, e.invited, {})
          \/ Move(t, In("route", e.code)) /\ calls' = [calls EXCEPT ![t] = {}]
    BY <1>4 DEF Visit
  <2>3. e.code \in Code /\ e.invited \in BOOLEAN
    BY DEF Entries
  <2> DEFINE K == {}
  <2>4. /\ \A k \in calls[t] : k.kind = "create" /\ k.code \in Code => k \in K
        /\ K \subseteq calls[t] /\ \A k \in K : k.code = c => k \in calls[t]
        /\ \/ Door(t, e.code, e.invited, K)
           \/ Move(t, In("route", e.code)) /\ calls' = [calls EXCEPT ![t] = K]
    BY <2>1, <2>2
  <2> HIDE DEF K
  <2>5. CASE Door(t, e.code, e.invited, K)
    BY <1>1, <2>1, <2>3, <2>4, <2>5, DoorKeeps
  <2>6. CASE Move(t, In("route", e.code)) /\ calls' = [calls EXCEPT ![t] = K]
    <3>1. In("route", e.code).page \notin Pages /\ In("route", e.code).page = "route"
      BY DEF In, Pages
    <3>2. Alone(b, c)
      BY <2>1, <2>4, <2>6, <3>1, LeavesAlone, ZenonT(60)
    <3> QED BY <1>1, <3>2, AloneKeeps
  <2> QED BY <2>4, <2>5, <2>6
<1>5. ASSUME NEW t \in Tab, GoHome(t) PROVE One(b, c)'
  <2>1. /\ Move(t, Home) /\ UNCHANGED <<me, session, host>>
        /\ calls' = [calls EXCEPT ![t] = calls[t]]
    BY <1>5 DEF GoHome, Sound, Typed
  <2>2. Home.page \notin Pages /\ Home.code # c
    BY DEF Home, Pages
  <2>3. Alone(b, c)
    BY <2>1, <2>2, LeavesAlone
  <2> QED BY <1>1, <2>3, AloneKeeps
<1>6. ASSUME NEW t \in Tab, Progress(t) PROVE One(b, c)'
  BY <1>1, <1>6, HandleCreateKeeps, HandleJoinKeeps, AnswerKeeps, CallFailsKeeps,
     RoomRouteKeeps, LoadKeeps DEF Progress, Answered
<1>7. ASSUME NEW t \in Tab, OnKicked(t) \/ KickMissed(t) PROVE One(b, c)'
  BY <1>1, <1>7, OnKickedKeeps, KickMissedKeeps
<1>8. ASSUME NEW d \in Code, OthersCreate(d) \/ Expire(d) PROVE One(b, c)'
  <2>1. /\ UNCHANGED <<me, session, at, calls, kicked>>
        /\ host' = [host EXCEPT ![d] = Stranger] \/ host' = [host EXCEPT ![d] = Nobody]
    BY <1>8 DEF OthersCreate, Expire
  <2>2. me[b] \in 0..MaxIds /\ host \in [Code -> (0..ids) \cup {Stranger}]
    BY DEF Sound, Typed, TypeOK
  <2>3. HostStays(b, c)
    BY <2>1, <2>2 DEF HostStays, Owns, Stranger
  <2>4. Alone(b, c)
    BY <2>1, <2>3, CallsSameStay DEF Alone, Stays
  <2> QED BY <1>1, <2>4, AloneKeeps
<1>9. ASSUME NEW d \in Code, NEW u \in 1..MaxIds, HandleRemove(d, u) PROVE One(b, c)'
  BY <1>1, <1>9, HandleRemoveKeeps
<1>10. CASE UNCHANGED vars
  <2>1. Alone(b, c)
    BY <1>10, CallsSameStay DEF vars, Alone, Stays, HostStays, Owns
  <2> QED BY <1>1, <2>1, AloneKeeps
<1> QED BY <1>2, <1>3, <1>4, <1>5, <1>6, <1>7, <1>8, <1>9, <1>10 DEF Next

-----------------------------------------------------------------------------
(* The theorems.                                                           *)

(* Every variable stays in its range.                                      *)
THEOREM TypeCorrect == Spec => []TypeOK
<1>1. Sound => TypeOK
  BY DEF Sound, Typed
<1> QED BY <1>1, SoundInit, SoundStep, PTL DEF Spec

(* One browser, one user: but for the races, every page of a room that a   *)
(* browser has open acts as the user it would come back as, and whoever    *)
(* created the room comes back as its host.                                *)
THEOREM KeepsIdentityHolds == Spec => []KeepsIdentity
<1>1. Sound /\ Ones => KeepsIdentity
  <2> SUFFICES ASSUME Sound, Ones, NEW b \in Browser, NEW c \in Code, <<b, c>> \notin raced
               PROVE  /\ \A t \in Tab \ kicked :
                           BrowserOf[t] = b /\ Inside(t, c) => at[t].user = session[b][c]
                      /\ \A t \in Tab :
                           host[c] = me[b] /\ me[b] # Nobody /\ BrowserOf[t] = b /\ ~Creating(t, c)
                             => session[b][c] = me[b]
    BY DEF KeepsIdentity
  <2>1. Heard(b, c) /\ Hosts(b, c)
    BY DEF Ones, One
  <2>2. \A t \in Tab \ kicked :
          BrowserOf[t] = b /\ Inside(t, c) => at[t].user = session[b][c]
    BY <2>1 DEF Heard, Listens, Of
  <2>3. \A t \in Tab : BrowserOf[t] = b => (Creating(t, c) <=> Makes(b, c))
    BY DEF Creating, Makes, Siblings, Of
  <2> QED BY <2>1, <2>2, <2>3 DEF Hosts, Owns
<1> QED BY <1>1, SoundInit, SoundStep, OnesInit, OnesStep, PTL DEF Spec

=============================================================================
