-------------------------- MODULE PagePartsProofs --------------------------
(***************************************************************************)
(* Proofs about the parts of the page that stand alone: the socket hook    *)
(* (RoomSocket), the add-song panel (AddSong), the volume (Sound), the     *)
(* animation (Scene), the host's list of people (Roster) and the server's  *)
(* clock (Clock), for any number of sockets, texts, pages and changes.     *)
(***************************************************************************)
EXTENDS RoomSocket, AddSong, Sound, Scene, Roster, Clock, TLAPS

-----------------------------------------------------------------------------
(* RoomSocket.                                                             *)

(* A socket that is created had not been used.                             *)
LEMMA NewSocketMade ==
    ASSUME TypeOK, NewSocket
    PROVE  /\ socketRef' \in Sock /\ ready[socketRef'] = "none"
           /\ ready' = [ready EXCEPT ![socketRef'] = "connecting"]
           /\ conn' = "connecting"
<1>1. socketRef' \in Unused
  BY DEF NewSocket
<1> QED BY <1>1 DEF NewSocket, Unused

LEMMA TypeInit == Init => TypeOK
BY SockAssumption DEF Init, TypeOK

LEMMA TypeStep == TypeOK /\ [Next]_vars => TypeOK'
<1> SUFFICES ASSUME TypeOK, [Next]_vars PROVE TypeOK'
  OBVIOUS
<1>1. Connect => /\ ready' \in [Sock -> {"none", "connecting", "open", "closing", "closed"}]
                 /\ socketRef' \in Sock /\ ready'[socketRef'] # "none"
                 /\ conn' \in {"connecting", "open", "closed"}
  BY NewSocketMade DEF Connect, TypeOK
<1>2. CASE WakeUp
  BY <1>1, <1>2 DEF WakeUp, TypeOK
<1>3. CASE CleanUp
  BY <1>3 DEF CleanUp, TypeOK, Alive
<1>4. ASSUME NEW s \in Sock, Open(s) PROVE TypeOK'
  BY <1>4 DEF Open, TypeOK
<1>5. ASSUME NEW s \in Sock, CloseFrame(s) PROVE TypeOK'
  BY <1>5 DEF CloseFrame, TypeOK
<1>6. ASSUME NEW s \in Sock, Close(s) PROVE TypeOK'
  BY <1>6 DEF Close, TypeOK
<1>7. ASSUME NEW s \in Sock, Reconnect(s) PROVE TypeOK'
  BY <1>1, <1>7 DEF Reconnect, TypeOK
<1>8. CASE UNCHANGED vars
  BY <1>8 DEF vars, TypeOK
<1> QED BY <1>2, <1>3, <1>4, <1>5, <1>6, <1>7, <1>8 DEF Next


LEMMA NeverGivesUpStep ==
    TypeOK /\ NeverGivesUp /\ [Next]_vars => NeverGivesUp'
<1> SUFFICES ASSUME TypeOK, NeverGivesUp, [Next]_vars, ~closed' PROVE NeverGivesUp'
  BY DEF NeverGivesUp
<1> USE DEF NeverGivesUp, TypeOK, Alive
<1>1. Connect /\ ~closed => ready'[socketRef'] = "connecting"
  BY NewSocketMade DEF Connect
<1>2. CASE WakeUp
  BY <1>1, <1>2 DEF WakeUp
<1>3. CASE CleanUp
  BY <1>3 DEF CleanUp
<1>4. ASSUME NEW s \in Sock, Open(s) PROVE NeverGivesUp'
  BY <1>4 DEF Open
<1>5. ASSUME NEW s \in Sock, CloseFrame(s) PROVE NeverGivesUp'
  BY <1>5 DEF CloseFrame
<1>6. ASSUME NEW s \in Sock, Close(s) PROVE NeverGivesUp'
  BY <1>6 DEF Close
<1>7. ASSUME NEW s \in Sock, Reconnect(s) PROVE NeverGivesUp'
  BY <1>1, <1>7 DEF Reconnect
<1>8. CASE UNCHANGED vars
  BY <1>8 DEF vars
<1> QED BY <1>2, <1>3, <1>4, <1>5, <1>6, <1>7, <1>8 DEF Next

(* As long as the page is there it has a socket whose close it will        *)
(* notice, or a timeout that makes a new one.                              *)
THEOREM NeverGivesUpHolds == Spec => []NeverGivesUp
<1>1. Init => NeverGivesUp
  BY SockAssumption DEF Init, NeverGivesUp, Alive
<1> QED BY <1>1, TypeInit, TypeStep, NeverGivesUpStep, PTL DEF Spec

(* The hook knows the timers it would clear.                               *)
Handles ==
    ~raced /\ ~closed => pings \subseteq {pingTimer} /\ timers \subseteq {reconnectTimer}

OrderlyInv == TypeOK /\ Orderly /\ Handles

LEMMA OrderlyInit == Init => Orderly /\ Handles
BY SockAssumption DEF Init, Orderly, Handles

LEMMA OrderlyStep ==
    OrderlyInv /\ [Next]_vars => Orderly' /\ Handles'
<1> SUFFICES ASSUME OrderlyInv, [Next]_vars, ~raced', ~closed'
             PROVE  Orderly' /\ Handles'
  BY DEF Orderly, Handles
<1>1. ~raced /\ ~closed /\ TypeOK
  BY DEF OrderlyInv, TypeOK, Next, vars, WakeUp, CleanUp, Open, CloseFrame, Close, Reconnect
<1>2. /\ \A s \in Sock \ {socketRef} : ready[s] \in {"none", "closed"}
      /\ pings = {s \in Sock : ready[s] \in {"open", "closing"}}
      /\ conn = IF ready[socketRef] = "closing" THEN "open" ELSE ready[socketRef]
      /\ timers = {s \in {socketRef} : ready[s] = "closed"}
      /\ pings \subseteq {pingTimer} /\ timers \subseteq {reconnectTimer}
  BY <1>1 DEF OrderlyInv, Orderly, Handles
<1> USE DEF Orderly, Handles
<1>3. ASSUME Connect, ready[socketRef] = "closed", timers' = {},
             UNCHANGED <<pings, pingTimer, reconnectTimer>>
      PROVE  Orderly' /\ Handles'
  BY <1>1, <1>2, <1>3, NewSocketMade DEF Connect, TypeOK
<1>4. CASE WakeUp
  <2>1. ready[socketRef] = "closed"
    BY <1>1, <1>4 DEF WakeUp, TypeOK, Alive
  <2> QED BY <1>2, <1>3, <1>4, <2>1 DEF WakeUp
<1>5. CASE CleanUp
  BY <1>5 DEF CleanUp
<1>6. ASSUME NEW s \in Sock, Open(s) PROVE Orderly' /\ Handles'
  BY <1>1, <1>2, <1>6 DEF Open, TypeOK
<1>7. ASSUME NEW s \in Sock, CloseFrame(s) PROVE Orderly' /\ Handles'
  BY <1>1, <1>2, <1>7 DEF CloseFrame, TypeOK
<1>8. ASSUME NEW s \in Sock, Close(s) PROVE Orderly' /\ Handles'
  BY <1>1, <1>2, <1>8 DEF Close, TypeOK, Alive
<1>9. ASSUME NEW s \in Sock, Reconnect(s) PROVE Orderly' /\ Handles'
  <2>1. s = socketRef /\ ready[socketRef] = "closed" /\ timers' = {}
    BY <1>2, <1>9 DEF Reconnect
  <2> QED BY <1>3, <1>9, <2>1 DEF Reconnect
<1>10. CASE UNCHANGED vars
  BY <1>1, <1>2, <1>10 DEF vars
<1> QED BY <1>4, <1>5, <1>6, <1>7, <1>8, <1>9, <1>10 DEF Next

(* Unless a wake-up met a closing socket, the page has one socket at a     *)
(* time, pings it while it is open, and has a timeout while it has none.   *)
THEOREM OrderlyHolds == Spec => []Orderly
<1>1. OrderlyInv /\ [Next]_vars => OrderlyInv'
  BY TypeStep, OrderlyStep DEF OrderlyInv
<1>2. Init => OrderlyInv
  BY TypeInit, OrderlyInit DEF OrderlyInv
<1>3. OrderlyInv => Orderly
  BY DEF OrderlyInv
<1> QED BY <1>1, <1>2, <1>3, PTL DEF Spec

(* No timeout that fires after the clean-up creates a socket.              *)
THEOREM CleanUpIsFinalHolds == Spec => CleanUpIsFinal
<1>1. ASSUME TypeOK, [Next]_vars, closed, NEW s \in Sock, ready[s] = "none"
      PROVE  ready'[s] = "none"
  <2> USE <1>1 DEF TypeOK, Alive
  <2>1. ~WakeUp /\ ~CleanUp
    BY DEF WakeUp, CleanUp
  <2>2. ASSUME NEW t \in Sock, Open(t) PROVE ready'[s] = "none"
    BY <2>2 DEF Open
  <2>3. ASSUME NEW t \in Sock, CloseFrame(t) PROVE ready'[s] = "none"
    BY <2>3 DEF CloseFrame
  <2>4. ASSUME NEW t \in Sock, Close(t) PROVE ready'[s] = "none"
    BY <2>4 DEF Close
  <2>5. ASSUME NEW t \in Sock, Reconnect(t) PROVE ready'[s] = "none"
    BY <2>5 DEF Reconnect, Connect
  <2>6. CASE UNCHANGED vars
    BY <2>6 DEF vars
  <2> QED BY <2>1, <2>2, <2>3, <2>4, <2>5, <2>6 DEF Next
<1>2. TypeOK /\ [Next]_vars
        => [closed => \A s \in Sock : ready[s] = "none" => ready'[s] = "none"]_vars
  BY <1>1
<1> QED BY <1>2, TypeInit, TypeStep, PTL DEF Spec, CleanUpIsFinal

-----------------------------------------------------------------------------
(* AddSong.                                                                *)

Phase == {"none", "timer", "sent"}

(* Lookups that have not begun yet are blank.                              *)
LookupTyped ==
    /\ query \in Text
    /\ reqId \in 0..MaxAsks
    /\ lookup \in [0..MaxAsks -> [of : Text, phase : Phase]]
    /\ playlist \in [of : Text \cup {NoText}, songs : BOOLEAN]
    /\ status \in {"idle", "loading", "error"}

(* What is listed was found for the text the panel is about, and "loading" *)
(* means that its lookup is under way and nothing is listed.               *)
Consistent ==
    /\ status = "loading" <=> lookup[reqId].phase # "none"
    /\ status # "idle" => About \in Sought /\ results = NoText /\ playlist = NoList
    /\ results # NoText => results = About /\ playlist = NoList
    /\ playlist # NoList => playlist.of = About

PanelInv == LookupTyped /\ Consistent

LEMMA PanelInvInit == PanelInit => PanelInv
BY TextAssumption DEF PanelInit, PanelInv, LookupTyped, Consistent, Phase, NoList, About

(* What the effect on the input does.                                      *)
LEMMA EffectAsks ==
    ASSUME PanelInv, NEW q \in Text, Effect(q), query' \in Text
    PROVE  PanelInv' /\ About' = q
              /\ Says' = <<q, IF q \in Sought THEN "awaited" ELSE "silent">>
<1> USE TextAssumption
<1>1. reqId' \in 0..MaxAsks /\ reqId' # reqId
  BY DEF PanelInv, LookupTyped, Effect
<1>2. /\ lookup' \in [0..MaxAsks -> [of : Text, phase : Phase]]
      /\ lookup'[reqId'] = [of |-> q, phase |-> IF q \in Sought THEN "timer" ELSE "none"]
  <2>1. /\ reqId \in 0..MaxAsks /\ lookup \in [0..MaxAsks -> [of : Text, phase : Phase]]
        /\ lookup' = [lookup EXCEPT ![reqId] = Superseded(@),
             ![reqId'] = [of |-> q, phase |-> IF q \in Sought THEN "timer" ELSE "none"]]
    BY DEF PanelInv, LookupTyped, Effect
  <2>2. \A l \in [of : Text, phase : Phase] : Superseded(l) \in [of : Text, phase : Phase]
    BY DEF Superseded, Phase
  <2>3. [of |-> q, phase |-> IF q \in Sought THEN "timer" ELSE "none"]
          \in [of : Text, phase : Phase]
    BY DEF Phase
  <2> QED BY <1>1, <2>1, <2>2, <2>3
<1>3. About' = q
  BY <1>2 DEF About
<1>4. results' = NoText /\ playlist' = NoList
      /\ status' = IF q \in Sought THEN "loading" ELSE "idle"
  BY DEF Effect
<1>5. LookupTyped'
  BY <1>1, <1>2, <1>4 DEF LookupTyped, NoList
<1>6. Consistent'
  BY <1>2, <1>3, <1>4 DEF Consistent
<1>7. Says' = <<q, IF q \in Sought THEN "awaited" ELSE "silent">>
  BY <1>3, <1>4 DEF Says
<1> QED BY <1>3, <1>5, <1>6, <1>7 DEF PanelInv

(* A lookup that goes on, or ends without being the newest, changes        *)
(* nothing that shows.                                                     *)
LEMMA LookupUnseen ==
    ASSUME PanelInv, NEW i \in 0..MaxAsks, NEW p \in Phase,
           lookup' = [lookup EXCEPT ![i].phase = p],
           i = reqId => (p = "none" <=> lookup[i].phase = "none"),
           UNCHANGED <<query, reqId, results, playlist, status>>
    PROVE  PanelInv' /\ About' = About /\ Says' = Says
<1>1. LookupTyped'
  BY DEF PanelInv, LookupTyped
<1>2. About' = About
  BY DEF About, PanelInv, LookupTyped
<1>3. (lookup'[reqId].phase = "none") <=> (lookup[reqId].phase = "none")
  BY DEF PanelInv, LookupTyped
<1>4. Consistent'
  BY <1>2, <1>3 DEF Consistent, PanelInv
<1>5. Says' = Says
  BY <1>2 DEF Says
<1> QED BY <1>1, <1>2, <1>4, <1>5 DEF PanelInv

(* The newest lookup ends: the panel was waiting, and now says how.        *)
LEMMA NewestTells ==
    ASSUME PanelInv, NEW i \in 0..MaxAsks, Ends(i), i = reqId,
           LookupAnswers(i) \/ LookupFails(i)
    PROVE  PanelInv' /\ About' = About
              /\ Says = <<About, "awaited">> /\ Says' \in {About} \X Promise!Found
<1> USE TextAssumption
<1>1. /\ status = "loading" /\ About \in Sought /\ About \in Text
      /\ results = NoText /\ playlist = NoList
  BY DEF PanelInv, Consistent, LookupTyped, Ends, About
<1>2. /\ lookup' \in [0..MaxAsks -> [of : Text, phase : Phase]]
      /\ lookup'[reqId'].of = About /\ lookup'[reqId'].phase = "none"
      /\ reqId' = reqId /\ query' = query
  BY DEF Ends, PanelInv, LookupTyped, Phase, About
<1>3. About' = About
  BY <1>2 DEF About
<1>4. Says = <<About, "awaited">>
  BY <1>1 DEF Says
<1>5. CASE LookupFails(i)
  <2>1. status' = "error" /\ results' = NoText /\ playlist' = NoList
    BY <1>1, <1>5 DEF LookupFails, Newest
  <2>2. PanelInv'
    BY <1>1, <1>2, <1>3, <2>1 DEF PanelInv, LookupTyped, Consistent, NoList
  <2>3. Says' = <<About, "failure">>
    BY <1>3, <2>1 DEF Says
  <2> QED BY <1>3, <1>4, <2>2, <2>3 DEF Promise!Found
<1>6. CASE LookupAnswers(i)
  <2>1. status' = "idle"
    BY <1>6 DEF LookupAnswers, Newest
  <2>2. PICK songs \in BOOLEAN :
           IF Mode(About) = "playlist"
           THEN playlist' = [of |-> About, songs |-> songs] /\ results' = NoText
           ELSE results' = (IF songs THEN About ELSE NoText) /\ playlist' = NoList
    BY <1>1, <1>6 DEF LookupAnswers, Newest, About
  <2>3. About # NoText
    BY <1>1
  <2>4. PanelInv'
    <3>1. /\ playlist' \in [of : Text \cup {NoText}, songs : BOOLEAN]
          /\ results' # NoText => results' = About' /\ playlist' = NoList
          /\ playlist' # NoList => playlist'.of = About'
      <4>1. CASE Mode(About) = "playlist"
        <5>1. playlist' = [of |-> About, songs |-> songs] /\ results' = NoText
          BY <2>2, <4>1
        <5> QED BY <1>1, <1>3, <5>1
      <4>2. CASE Mode(About) # "playlist"
        <5>1. results' \in {About, NoText} /\ playlist' = NoList
          BY <2>2, <4>2
        <5> QED BY <1>3, <5>1 DEF NoList
      <4> QED BY <4>1, <4>2
    <3> QED
      BY <1>2, <2>1, <3>1 DEF PanelInv, LookupTyped, Consistent
  <2>5. Says' \in {<<About, "songs">>, <<About, "nothing">>}
    BY <1>1, <1>3, <2>1, <2>2, <2>3 DEF Says, NoList
  <2> QED BY <1>3, <1>4, <2>4, <2>5 DEF Promise!Found
<1> QED BY <1>5, <1>6

Said == <<About, Says>>

(* Every step is a step of Search, or shows nothing.                       *)
LEMMA PanelStep ==
    PanelInv /\ [PanelNext]_panelVars => PanelInv' /\ [Promise!SearchNext]_Said
<1> SUFFICES ASSUME PanelInv, [PanelNext]_panelVars
             PROVE  PanelInv' /\ [Promise!SearchNext]_Said
  OBVIOUS
<1> USE TextAssumption
<1>1. ASSUME NEW q \in Text, Effect(q), query' \in Text
      PROVE  PanelInv' /\ [Promise!SearchNext]_Said
  BY <1>1, EffectAsks DEF Promise!SearchNext, Promise!Ask
<1>2. ASSUME NEW q \in Text, Type(q)
      PROVE  PanelInv' /\ [Promise!SearchNext]_Said
  BY <1>1, <1>2 DEF Type
<1>3. CASE LateEffect
  BY <1>1, <1>3 DEF LateEffect, PanelInv, LookupTyped
<1>4. ASSUME NEW i \in 0..MaxAsks, Timer(i)
      PROVE  PanelInv' /\ [Promise!SearchNext]_Said
  BY <1>4, LookupUnseen DEF Timer, Phase, Said
<1>5. ASSUME NEW i \in 0..MaxAsks, LookupAnswers(i) \/ LookupFails(i)
      PROVE  PanelInv' /\ [Promise!SearchNext]_Said
  <2>1. Ends(i)
    BY <1>5 DEF LookupAnswers, LookupFails
  <2>2. CASE i = reqId
    BY <1>5, <2>1, <2>2, NewestTells DEF Promise!SearchNext, Promise!Tell
  <2>3. CASE i # reqId
    <3>1. /\ lookup' = [lookup EXCEPT ![i].phase = "none"]
          /\ UNCHANGED <<query, reqId, results, playlist, status>>
      BY <1>5, <2>1, <2>3 DEF Ends, LookupAnswers, LookupFails, Newest
    <3> QED BY <2>3, <3>1, LookupUnseen DEF Phase, Said
  <2> QED BY <2>2, <2>3
<1>6. ASSUME UNCHANGED <<reqId, lookup, results, playlist, status>>, query' \in Text
      PROVE  PanelInv' /\ [Promise!SearchNext]_Said
  BY <1>6 DEF PanelInv, LookupTyped, Consistent, About, Says, Said
<1>7. query \in Text /\ Blank \in Text
  BY DEF PanelInv, LookupTyped
<1>8. CASE Pick \/ Picked \/ AddAll \/ Imported \/ ImportFails
  BY <1>6, <1>7, <1>8 DEF Pick, Picked, AddAll, Imported, ImportFails
<1>9. CASE UNCHANGED panelVars
  BY <1>6, <1>7, <1>9 DEF panelVars
<1> QED BY <1>2, <1>3, <1>4, <1>5, <1>8, <1>9 DEF PanelNext, Lookups

(* The panel keeps its promise: however late answers to older texts are,   *)
(* it is about one text, waits for its lookup, and says what came of it.   *)
THEOREM ImplementsSearchHolds == PanelSpec => ImplementsSearch
<1>1. PanelInit => Promise!SearchInit
  BY TextAssumption DEF PanelInit, Promise!SearchInit, About, Says, Sought, NoList
<1> QED
  BY <1>1, PanelInvInit, PanelStep, PTL
  DEF PanelSpec, ImplementsSearch, Promise!SearchSpec, Said


-----------------------------------------------------------------------------
(* Sound.                                                                  *)

(* Silence always has its mute, and what was applied was stored with it.   *)
SoundInv ==
    /\ SoundTypeOK
    /\ sound.volume = 0 => sound.muted
    /\ playerReady /\ ~due => deck = sound /\ stored = sound

LEMMA SetSoundKeeps ==
    ASSUME SoundInv, NEW s \in Setting, s.volume = 0 => s.muted, SetSound(s)
    PROVE  SoundInv'
BY DEF SoundInv, SoundTypeOK, SetSound

LEMMA ChangeVolumeKeeps ==
    ASSUME SoundInv, NEW v \in Level, ChangeVolume(v)
    PROVE  SoundInv'
BY SetSoundKeeps DEF ChangeVolume, Setting

LEMMA RememberedLoud ==
    ASSUME NEW s \in Setting
    PROVE  Remembered(s) \in Setting /\ Remembered(s).volume # 0
              /\ Remembered(s).muted = s.muted
              /\ (s.volume # 0 => Remembered(s) = s)
BY LevelAssumption DEF Setting, Level, Remembered

LEMMA SoundStep == SoundInv /\ [SoundNext]_soundVars => SoundInv'
<1> SUFFICES ASSUME SoundInv, [SoundNext]_soundVars PROVE SoundInv'
  OBVIOUS
<1>1. sound \in Setting /\ stored \in Setting /\ Shown \in Level
  BY DEF SoundInv, SoundTypeOK, Setting, Shown, Level
<1>2. CASE DeckReady
  BY <1>2 DEF DeckReady, SoundInv, SoundTypeOK
<1>3. CASE ApplySound
  BY <1>3 DEF ApplySound, SoundInv, SoundTypeOK
<1>4. CASE Drag
  BY <1>4, ChangeVolumeKeeps DEF Drag
<1>5. CASE Key
  <2>1. \E v \in Level : ChangeVolume(v)
    BY <1>1, <1>5 DEF Key, Level
  <2> QED BY <2>1, ChangeVolumeKeeps
<1>6. CASE ToggleMute
  <2>1. [sound EXCEPT !.muted = TRUE] \in Setting
    BY <1>1 DEF Setting
  <2>2. [volume |-> IF sound.volume = 0 THEN Modest ELSE sound.volume, muted |-> FALSE] \in Setting
    BY <1>1, LevelAssumption DEF Setting
  <2>3. CASE sound.muted
    BY <1>6, <2>2, <2>3, SetSoundKeeps, LevelAssumption DEF ToggleMute
  <2>4. CASE ~sound.muted
    <3>1. [sound EXCEPT !.muted = TRUE].muted
      BY <1>1 DEF Setting
    <3> QED BY <1>6, <2>1, <2>4, <3>1, SetSoundKeeps DEF ToggleMute
  <2> QED BY <2>3, <2>4
<1>7. CASE Reload
  BY <1>1, <1>7, RememberedLoud DEF Reload, SoundInv, SoundTypeOK
<1>8. CASE UNCHANGED soundVars
  BY <1>8 DEF soundVars, SoundInv, SoundTypeOK
<1> QED BY <1>2, <1>3, <1>4, <1>5, <1>6, <1>7, <1>8 DEF SoundNext

(* Whatever is dragged, pressed, muted and reloaded, the player is as loud *)
(* as the slider says once all is applied, and a reload keeps it so.       *)
THEOREM LoudnessSurvivesHolds == SoundSpec => []LoudnessSurvives
<1>1. SoundInit => SoundInv
  <2>1. [volume |-> 0, muted |-> FALSE] \in Setting
    BY DEF Setting, Level
  <2> QED BY <2>1, RememberedLoud DEF SoundInit, SoundInv, SoundTypeOK
<1>2. SoundInv => LoudnessSurvives
  <2> SUFFICES ASSUME SoundInv, playerReady, ~due PROVE LoudnessSurvives
    BY DEF LoudnessSurvives
  <2>1. sound \in Setting /\ deck = sound /\ stored = sound /\ (sound.volume = 0 => sound.muted)
    BY DEF SoundInv, SoundTypeOK
  <2>2. Loudness(Remembered(sound)) = Loudness(sound)
    BY <2>1, RememberedLoud DEF Loudness
  <2> QED BY <2>1, <2>2 DEF LoudnessSurvives, Loudness, Shown
<1> QED BY <1>1, <1>2, SoundStep, PTL DEF SoundSpec

-----------------------------------------------------------------------------
(* Scene.                                                                  *)

Things == Canvas \cup {"observer", "listener"}

(* Only the newest run may be alive; what it holds it will clean up.       *)
OldRuns ==
    /\ \A r \in Run : r < runs => r \in cancelled
    /\ \A r \in Run : r > runs => phase[r] = "none"

Accounted ==
    \A r \in Run :
        /\ phase[r] \in {"none", "importing"} => r \notin frame /\ held[r] = {}
        /\ r \in frame => Current(r) /\ r \in cleanup
        /\ held[r] # {} => phase[r] = "thrown" \/ (Current(r) /\ r \in cleanup)

SceneInv == SceneTypeOK /\ OldRuns /\ Accounted

LEMMA SceneStep == SceneInv /\ [SceneNext]_sceneVars => SceneInv'
<1> SUFFICES ASSUME SceneInv, [SceneNext]_sceneVars PROVE SceneInv'
  OBVIOUS
<1> USE RunsAssumption DEF SceneInv, SceneTypeOK, OldRuns, Accounted, Current, Mounted, Run
<1>1. CASE Mount
  BY <1>1 DEF Mount
<1>2. CASE Unmount
  <2>0. /\ runs \in Run /\ cancelled' = cancelled \cup {runs}
        /\ held' = held \/ held' = [held EXCEPT ![runs] = {}]
        /\ frame' = frame \/ frame' = frame \ {runs}
        /\ UNCHANGED <<runs, phase, cleanup, still>>
    BY <1>2 DEF Unmount, FreeScene
  <2>1. SceneTypeOK' /\ OldRuns'
    <3>1. held' \in [Run -> SUBSET (Canvas \cup {"observer", "listener"})]
      BY <2>0
    <3>2. cancelled' \subseteq 1..runs'
      <4>1. cancelled \subseteq 1..runs /\ runs \in 1..runs
        BY <2>0
      <4> QED BY <2>0, <4>1
    <3>3. frame' \subseteq Run
      BY <2>0
    <3> QED BY <2>0, <3>1, <3>2, <3>3
  <2>2. ASSUME NEW r \in Run PROVE r \in frame' => Current(r)' /\ r \in cleanup'
    BY <1>2, <2>2 DEF Unmount, FreeScene
  <2>3. ASSUME NEW r \in Run PROVE held'[r] # {} => phase'[r] = "thrown" \/ (Current(r)' /\ r \in cleanup')
    BY <1>2, <2>3 DEF Unmount, FreeScene
  <2>4. ASSUME NEW r \in Run, phase'[r] \in {"none", "importing"}
        PROVE  r \notin frame' /\ held'[r] = {}
    BY <1>2, <2>4 DEF Unmount, FreeScene
  <2> QED BY <2>1, <2>2, <2>3, <2>4
<1>3. ASSUME NEW r \in Run, SceneImported(r) PROVE SceneInv'
  <2>1. Whole \in SUBSET (Canvas \cup {"observer", "listener"})
    BY DEF Whole
  <2>2. r \notin cancelled => Current(r)
    BY <1>3 DEF SceneImported
  <2>3. /\ r \notin frame /\ held[r] = {} /\ r <= runs
        /\ UNCHANGED <<runs, cancelled, still>>
        /\ phase' \in {[phase EXCEPT ![r] = p] : p \in {"idle", "unavailable", "drawn"}}
    BY <1>3 DEF SceneImported
  <2>4. /\ cleanup' \in {cleanup, cleanup \cup {r}}
        /\ held' = held \/ (held' = [held EXCEPT ![r] = Whole] /\ r \in cleanup' /\ Current(r))
        /\ frame' = frame \/ (frame' = frame \cup {r} /\ r \in cleanup' /\ Current(r))
    BY <1>3, <2>2 DEF SceneImported, Wanted
  <2>5. SceneTypeOK'
    <3>1. held' \in [Run -> SUBSET (Canvas \cup {"observer", "listener"})]
      BY <2>1, <2>4
    <3>2. cleanup' \subseteq Run /\ frame' \subseteq Run
      BY <2>4
    <3>3. phase' \in [Run -> {"none", "importing", "idle", "unavailable", "drawn", "thrown"}]
      BY <2>3
    <3> QED BY <2>3, <3>1, <3>2, <3>3
  <2>6. OldRuns'
    BY <2>3
  <2>7. ASSUME NEW s \in Run PROVE s \in frame' => Current(s)' /\ s \in cleanup'
    BY <2>3, <2>4, <2>7
  <2>8. ASSUME NEW s \in Run PROVE held'[s] # {} => phase'[s] = "thrown" \/ (Current(s)' /\ s \in cleanup')
    BY <2>3, <2>4, <2>8
  <2>9. ASSUME NEW s \in Run, phase'[s] \in {"none", "importing"}
        PROVE  s \notin frame' /\ held'[s] = {}
    BY <2>3, <2>4, <2>9
  <2> QED BY <2>5, <2>6, <2>7, <2>8, <2>9
<1>4. ASSUME NEW r \in Run, MountThrows(r) PROVE SceneInv'
  <2>1. Partial \subseteq SUBSET (Canvas \cup {"observer", "listener"})
    BY DEF Partial, Whole, Canvas
  <2>2. /\ phase[r] = "importing" /\ phase' = [phase EXCEPT ![r] = "thrown"]
        /\ UNCHANGED <<runs, cancelled, cleanup, frame, still>>
    BY <1>4 DEF MountThrows
  <2>3. PICK things \in SUBSET Things : held' = [held EXCEPT ![r] = things]
    BY <1>4, <2>1 DEF MountThrows, Things
  <2>4. SceneTypeOK' /\ OldRuns'
    BY <2>2, <2>3 DEF Things
  <2>5. r \notin frame
    BY <2>2
  <2>6. ASSUME NEW s \in Run, s # r
        PROVE  phase'[s] = phase[s] /\ held'[s] = held[s]
    BY <2>2, <2>3, <2>6
  <2>7. Accounted'
    BY <2>2, <2>5, <2>6
  <2> QED BY <2>4, <2>7
<1>5. ASSUME NEW r \in Run, SceneImportFails(r) PROVE SceneInv'
  BY <1>5 DEF SceneImportFails
<1>6. ASSUME NEW r \in Run, DrawFrame(r) PROVE SceneInv'
  BY <1>6 DEF DrawFrame
<1>7. CASE UNCHANGED sceneVars
  BY <1>7 DEF sceneVars
<1> QED BY <1>1, <1>2, <1>3, <1>4, <1>5, <1>6, <1>7 DEF SceneNext

(* For any number of mounts: a run that was cleaned up, however late its   *)
(* import, draws nothing and holds nothing, unless building it threw.      *)
THEOREM SceneFreedHolds == SceneSpec => []SceneFreed
<1>1. SceneInit => SceneInv
  BY RunsAssumption DEF SceneInit, SceneInv, SceneTypeOK, OldRuns, Accounted, Run
<1>2. SceneInv => SceneFreed
  BY DEF SceneInv, Accounted, SceneFreed
<1> QED BY <1>1, <1>2, SceneStep, PTL DEF SceneSpec

-----------------------------------------------------------------------------
(* Roster.                                                                 *)

(* Of those in a set, whoever the server does not have is accounted for.   *)
Explained(t, set, gone) == \A u \in set \ users : u \in gone \cup lost \/ Announced(t, u)

(* A copy to save has the host; a request that is asked, or that is saved  *)
(* and still there, removes a guest.                                       *)
JobsSound == \A j \in Job :
    /\ job[j].phase = "saving" => Host \in job[j].copy
    /\ job[j].phase \in {"asked", "saved"} => job[j].target \in Guest

(* What a page shows is explained, and what is on its way to it will be.   *)
RosterInv ==
    /\ RosterTypeOK
    /\ JobsSound
    /\ \A t \in Tab :
        /\ Explained(t, roster[t], late[t])
        /\ \A l \in loads[t] \cup answer[t] : Explained(t, l.users, l.gone)

LEMMA OvertakenSnapshots ==
    ASSUME NEW snapshots \in SUBSET Snapshot, NEW w \in Guest
    PROVE  /\ Overtaken(snapshots, w) \in SUBSET Snapshot
           /\ \A o \in Overtaken(snapshots, w) : \E l \in snapshots :
                 o.users = l.users /\ o.gone = l.gone \cup {w}
BY DEF Overtaken, Snapshot

(* The oldest announcement reaches a page, or passes it by.                *)
LEMMA Heard ==
    ASSUME RosterInv, NEW t \in Tab, told[t] # <<>>, Hears(t, Head(told[t]))
    PROVE  /\ told' \in [Tab -> Seq(Guest)] /\ Head(told[t]) \in Guest
           /\ loads' \in [Tab -> SUBSET Snapshot] /\ answer' \in [Tab -> SUBSET Snapshot]
           /\ \A s \in Tab : \A u \in Guest :
                 Announced(s, u) => Announced(s, u)' \/ (s = t /\ u = Head(told[t]))
           /\ \A s \in Tab : \A o \in loads'[s] \cup answer'[s] : Explained(s, o.users, o.gone)'
<1> DEFINE w == Head(told[t])
<1> USE DEF RosterInv, RosterTypeOK
<1>1. w \in Guest /\ told[t] \in Seq(Guest) /\ Tail(told[t]) \in Seq(Guest)
  OBVIOUS
<1>2. told' = [told EXCEPT ![t] = Tail(told[t])] /\ UNCHANGED <<users, job, lost>>
  BY DEF Hears, serverVars
<1>3. loads' = [loads EXCEPT ![t] = Overtaken(loads[t], w)]
  BY DEF Hears
<1>4. answer' = [answer EXCEPT ![t] = Overtaken(answer[t], w)]
  BY DEF Hears
<1>5. /\ loads' \in [Tab -> SUBSET Snapshot] /\ answer' \in [Tab -> SUBSET Snapshot]
      /\ told' \in [Tab -> Seq(Guest)]
  BY <1>1, <1>2, <1>3, <1>4, OvertakenSnapshots
<1>6. ASSUME NEW s \in Tab, NEW u \in Guest, Announced(s, u), ~(s = t /\ u = w)
      PROVE  Announced(s, u)'
  <2>1. CASE s # t
    BY <1>2, <1>6, <2>1 DEF Announced
  <2>0. CASE \E j \in Job : job[j].phase = "saved" /\ job[j].target = u
    BY <1>2, <2>0 DEF Announced
  <2>2. CASE s = t /\ \E i \in DOMAIN told[t] : told[t][i] = u
    <3>1. PICK i \in 1..Len(told[t]) : told[t][i] = u
      BY <1>1, <2>2
    <3>2. i # 1
      BY <1>1, <1>6, <2>2, <3>1
    <3>3. i - 1 \in 1..Len(Tail(told[t])) /\ Tail(told[t])[i - 1] = u
      BY <1>1, <3>1, <3>2
    <3>4. told'[t] = Tail(told[t])
      BY <1>2
    <3>5. i - 1 \in DOMAIN told'[t] /\ told'[t][i - 1] = u
      BY <1>1, <3>3, <3>4
    <3> QED BY <2>2, <3>5 DEF Announced
  <2> QED BY <1>6, <2>0, <2>1, <2>2 DEF Announced
<1>7. ASSUME NEW s \in Tab, NEW o \in loads'[s] \cup answer'[s]
      PROVE  Explained(s, o.users, o.gone)'
  <2>1. CASE s # t
    <3>1. o \in loads[s] \cup answer[s]
      BY <1>3, <1>4, <1>7, <2>1
    <3>2. o.users \subseteq User /\ Host \in users
      BY <3>1 DEF Snapshot
    <3> QED BY <1>2, <1>6, <2>1, <3>1, <3>2 DEF Explained, User
  <2>2. CASE s = t
    <3>0. o \in Overtaken(loads[t], w) \cup Overtaken(answer[t], w)
      BY <1>3, <1>4, <1>7, <2>2
    <3>1. PICK l \in loads[t] \cup answer[t] : o.users = l.users /\ o.gone = l.gone \cup {w}
      <4>1. loads[t] \in SUBSET Snapshot /\ answer[t] \in SUBSET Snapshot
        OBVIOUS
      <4> HIDE DEF RosterInv, RosterTypeOK, w
      <4>2. \A p \in Overtaken(loads[t], w) :
              \E l \in loads[t] : p.users = l.users /\ p.gone = l.gone \cup {w}
        BY <1>1, <4>1, OvertakenSnapshots
      <4>3. \A p \in Overtaken(answer[t], w) :
              \E l \in answer[t] : p.users = l.users /\ p.gone = l.gone \cup {w}
        BY <1>1, <4>1, OvertakenSnapshots
      <4> QED BY <3>0, <4>2, <4>3
    <3>2. l.users \subseteq User /\ Host \in users
      BY DEF Snapshot
    <3> QED BY <1>2, <1>6, <2>2, <3>1, <3>2 DEF Explained, User
  <2> QED BY <2>1, <2>2
<1> QED BY <1>1, <1>5, <1>6, <1>7

(* A request goes from one phase to the next, and nothing else changes.    *)
LEMMA JobMoves ==
    ASSUME RosterInv, NEW j \in Job, job[j].phase # "saved",
           NEW w, job' = [job EXCEPT ![j] = w],
           w \in [phase : {"idle", "asked", "saving"}, copy : SUBSET User,
                  target : Guest \cup {Nobody}, page : Tab \cup {Nobody}],
           w.phase = "saving" => Host \in w.copy,
           w.phase = "asked" => w.target \in Guest,
           UNCHANGED <<users, lost, told, roster, loads, answer, late>>,
           removing' \in [Tab -> Guest \cup {Nobody}], steps' \in 0..MaxSteps
    PROVE  RosterInv'
<1> USE DEF RosterInv, RosterTypeOK
<1>1. \A k \in Job : k # j => job'[k] = job[k]
  OBVIOUS
<1>2. job'[j] = w
  OBVIOUS
<1>3. RosterTypeOK'
  OBVIOUS
<1>4. JobsSound'
  BY <1>1, <1>2 DEF JobsSound
<1>5. \A k \in Job : job[k].phase = "saved" => job'[k] = job[k]
  BY <1>1
<1>6. \A t \in Tab : \A u : Announced(t, u) => Announced(t, u)'
  BY <1>5 DEF Announced
<1>7. \A t \in Tab : \A set, gone : Explained(t, set, gone) => Explained(t, set, gone)'
  BY <1>6 DEF Explained
<1> QED BY <1>3, <1>4, <1>7

(* Announcing a removal, to the pages or to nobody, accounts for it.       *)
LEMMA Announces ==
    ASSUME RosterInv, NEW j \in Job, Publish(j) \/ PublishFails(j)
    PROVE  RosterInv'
<1> DEFINE w == job[j].target
<1> USE DEF RosterInv, RosterTypeOK
<1>1. /\ w \in Guest /\ job' = [job EXCEPT ![j] = NoJob]
      /\ UNCHANGED <<users, lost, steps, roster, removing>>
  BY DEF Publish, PublishFails, JobsSound
<1>2. job' \in [Job -> [phase : {"idle", "asked", "saving", "saved"}, copy : SUBSET User,
                        target : Guest \cup {Nobody}, page : Tab \cup {Nobody}]]
  BY <1>1 DEF NoJob
<1>3. JobsSound'
  BY <1>1 DEF JobsSound, NoJob
<1>4. \A k \in Job : job[k].target # w => job'[k] = job[k]
  BY <1>1
<1>5. CASE Publish(j)
  <2>1. told' = [t \in Tab |-> Append(told[t], w)] /\ UNCHANGED <<loads, answer, late>>
    BY <1>5 DEF Publish
  <2>2. ASSUME NEW s \in Tab
        PROVE  /\ told'[s] \in Seq(Guest)
               /\ \A u \in User : Announced(s, u) => Announced(s, u)'
    <3>1. told'[s] = Append(told[s], w) /\ told[s] \in Seq(Guest)
      BY <2>1
    <3>2. /\ Len(told[s]) + 1 \in DOMAIN told'[s] /\ told'[s][Len(told[s]) + 1] = w
          /\ \A i \in DOMAIN told[s] : i \in DOMAIN told'[s] /\ told'[s][i] = told[s][i]
      BY <1>1, <3>1
    <3>3. told'[s] \in Seq(Guest)
      BY <1>1, <3>1
    <3>4. ASSUME NEW u \in User, Announced(s, u) PROVE Announced(s, u)'
      <4>1. CASE u = w
        BY <3>2, <4>1 DEF Announced
      <4>2. CASE u # w
        BY <1>4, <3>2, <3>4, <4>2 DEF Announced
      <4> QED BY <4>1, <4>2
    <3> QED BY <3>3, <3>4
  <2>3. RosterTypeOK'
    BY <1>1, <1>2, <2>1, <2>2
  <2>4. \A s \in Tab : \A set \in SUBSET User : \A gone :
          Explained(s, set, gone) => Explained(s, set, gone)'
    BY <1>1, <2>2 DEF Explained
  <2>5. \A s \in Tab : \A l \in loads[s] \cup answer[s] : l.users \in SUBSET User
    BY DEF Snapshot
  <2> QED BY <1>1, <1>3, <2>1, <2>3, <2>4, <2>5
<1>6. CASE PublishFails(j)
  <2>1. /\ loads' = [t \in Tab |-> Overtaken(loads[t], w)]
        /\ answer' = [t \in Tab |-> Overtaken(answer[t], w)]
        /\ late' = [t \in Tab |-> late[t] \cup {w}]
        /\ told' = told
    BY <1>6 DEF PublishFails
  <2>2. ASSUME NEW s \in Tab
        PROVE  /\ loads'[s] \in SUBSET Snapshot /\ answer'[s] \in SUBSET Snapshot
               /\ \A o \in loads'[s] \cup answer'[s] : \E l \in loads[s] \cup answer[s] :
                     o.users = l.users /\ o.gone = l.gone \cup {w}
    <3>1. loads'[s] = Overtaken(loads[s], w) /\ answer'[s] = Overtaken(answer[s], w)
      BY <2>1
    <3>2. loads[s] \in SUBSET Snapshot /\ answer[s] \in SUBSET Snapshot
      OBVIOUS
    <3> HIDE DEF RosterInv, RosterTypeOK, w
    <3>3. /\ Overtaken(loads[s], w) \in SUBSET Snapshot
          /\ \A o \in Overtaken(loads[s], w) : \E l \in loads[s] :
                o.users = l.users /\ o.gone = l.gone \cup {w}
      BY <1>1, <3>2, OvertakenSnapshots
    <3>4. /\ Overtaken(answer[s], w) \in SUBSET Snapshot
          /\ \A o \in Overtaken(answer[s], w) : \E l \in answer[s] :
                o.users = l.users /\ o.gone = l.gone \cup {w}
      BY <1>1, <3>2, OvertakenSnapshots
    <3> QED BY <3>1, <3>3, <3>4
  <2>3. late' \in [Tab -> SUBSET Guest]
    BY <1>1, <2>1
  <2>4. loads' \in [Tab -> SUBSET Snapshot] /\ answer' \in [Tab -> SUBSET Snapshot]
    BY <2>1, <2>2
  <2>5. RosterTypeOK'
    BY <1>1, <1>2, <2>1, <2>3, <2>4
  <2>6. \A s \in Tab : \A u : Announced(s, u) => Announced(s, u)' \/ u = w
    BY <1>4, <2>1 DEF Announced
  <2>7. \A s \in Tab : \A set, gone, all :
          Explained(s, set, gone) /\ all = gone \cup {w} => Explained(s, set, all)'
    BY <1>1, <2>6 DEF Explained
  <2>8. \A s \in Tab : Explained(s, roster[s], late[s])'
    BY <1>1, <2>1, <2>7
  <2>9. ASSUME NEW s \in Tab, NEW o \in loads'[s] \cup answer'[s]
        PROVE  Explained(s, o.users, o.gone)'
    <3>1. PICK l \in loads[s] \cup answer[s] : o.users = l.users /\ o.gone = l.gone \cup {w}
      BY <2>2
    <3>2. Explained(s, l.users, l.gone)
      OBVIOUS
    <3> HIDE DEF w
    <3> QED BY <2>7, <3>1, <3>2
  <2> QED BY <1>3, <2>5, <2>8, <2>9
<1> QED BY <1>5, <1>6

(* Whoever a write drops is removed, and about to be announced, or lost.   *)
LEMMA Saves ==
    ASSUME RosterInv, NEW j \in Job, Save(j)
    PROVE  RosterInv'
<1> DEFINE w == job[j]
           a == [users |-> w.copy, gone |-> {}]
           after == IF w.target = Nobody THEN NoJob ELSE [w EXCEPT !.phase = "saved"]
<1> USE RosterAssumption DEF RosterInv, RosterTypeOK
<1>1. /\ w.phase = "saving" /\ users' = w.copy
      /\ lost' = (lost \cup (users \ {w.target})) \ w.copy
      /\ job' = [job EXCEPT ![j] = after]
      /\ answer' = [t \in Tab |-> IF t = w.page THEN {a} ELSE answer[t]]
      /\ UNCHANGED <<steps, told, roster, loads, removing, late>>
  BY DEF Save
<1>2. /\ w.copy \in SUBSET User /\ Host \in w.copy /\ w.target \in Guest \cup {Nobody}
      /\ w.page \in Tab \cup {Nobody}
  BY <1>1 DEF JobsSound
<1>3. a \in Snapshot
  BY <1>2 DEF Snapshot
<1>4. /\ after.phase \in {"idle", "saved"} /\ (after.phase = "saved" => after.target \in Guest)
      /\ after \in [phase : {"idle", "asked", "saving", "saved"}, copy : SUBSET User,
                    target : Guest \cup {Nobody}, page : Tab \cup {Nobody}]
  <2>1. NoJob.phase = "idle" /\ NoJob \in [phase : {"idle", "asked", "saving", "saved"},
          copy : SUBSET User, target : Guest \cup {Nobody}, page : Tab \cup {Nobody}]
    BY DEF NoJob
  <2>2. w \in [phase : {"idle", "asked", "saving", "saved"}, copy : SUBSET User,
              target : Guest \cup {Nobody}, page : Tab \cup {Nobody}]
    OBVIOUS
  <2> HIDE DEF w
  <2>3. CASE w.target = Nobody
    BY <2>1, <2>3
  <2>4. CASE w.target # Nobody
    BY <1>2, <2>2, <2>4
  <2> QED BY <2>3, <2>4
<1>5. users' \in SUBSET User /\ Host \in users' /\ lost' \in SUBSET Guest
  BY <1>1, <1>2 DEF User
<1>6. answer' \in [Tab -> SUBSET Snapshot]
  BY <1>1, <1>3
<1>7. RosterTypeOK'
  <2> HIDE DEF w, a, after
  <2> QED BY <1>1, <1>4, <1>5, <1>6
<1>8. /\ job'[j] = after /\ \A k \in Job : k # j => job'[k] = job[k]
  BY <1>1
<1>9. JobsSound'
  <2> HIDE DEF after
  <2> QED BY <1>4, <1>8 DEF JobsSound
<1>10. \A s \in Tab : \A u : Announced(s, u) => Announced(s, u)'
  <2>1. \A k \in Job : job[k].phase = "saved" => job'[k] = job[k]
    BY <1>1, <1>8
  <2> QED BY <1>1, <2>1 DEF Announced
<1>11. \A s \in Tab : \A u \in Guest : u = w.target => Announced(s, u)'
  <2>1. w.target \in Guest => job'[j].phase = "saved" /\ job'[j].target = w.target
    BY <1>8
  <2> QED BY <2>1 DEF Announced
<1>12. \A s \in Tab : \A set \in SUBSET User : \A gone :
         Explained(s, set, gone) => Explained(s, set, gone)'
  <2> SUFFICES ASSUME NEW s \in Tab, NEW set \in SUBSET User, NEW gone,
                      Explained(s, set, gone), NEW u \in set, u \notin users'
               PROVE  u \in gone \cup lost' \/ Announced(s, u)'
    BY DEF Explained
  <2>1. u \in Guest /\ u \notin w.copy
    BY <1>1, <1>2 DEF User
  <2>2. CASE u \in users /\ u = w.target
    BY <1>11, <2>1, <2>2
  <2>3. CASE u \in users /\ u # w.target
    BY <1>1, <2>1, <2>3
  <2>4. CASE u \notin users
    <3>1. u \in gone \cup lost \/ Announced(s, u)
      BY <2>4 DEF Explained
    <3> QED BY <1>1, <1>10, <2>1, <3>1
  <2> QED BY <2>2, <2>3, <2>4
<1>13. ASSUME NEW s \in Tab, NEW l \in loads'[s] \cup answer'[s]
       PROVE  Explained(s, l.users, l.gone)'
  <2>1. CASE l = a
    BY <1>1, <2>1 DEF Explained
  <2>2. CASE l # a
    <3>1. l \in loads[s] \cup answer[s]
      BY <1>1, <1>13, <2>2
    <3>2. l.users \in SUBSET User
      BY <3>1 DEF Snapshot
    <3> QED BY <1>12, <3>1, <3>2
  <2> QED BY <2>1, <2>2
<1>14. ASSUME NEW s \in Tab PROVE Explained(s, roster[s], late[s])'
  <2>1. roster[s] \in SUBSET User /\ Explained(s, roster[s], late[s])
    OBVIOUS
  <2>2. UNCHANGED <<roster, late>>
    BY <1>1
  <2> HIDE DEF RosterInv, RosterTypeOK, w, a, after
  <2> QED BY <1>12, <2>1, <2>2
<1> HIDE DEF w, a, after
<1> QED BY <1>1, <1>7, <1>9, <1>13, <1>14

(* While the server rests and nothing is announced, what is explained      *)
(* stays so.                                                               *)
LEMMA StaysExplained ==
    ASSUME UNCHANGED <<users, job, lost, told>>
    PROVE  /\ JobsSound => JobsSound'
           /\ \A s, set, gone : Explained(s, set, gone) => Explained(s, set, gone)'
BY DEF JobsSound, Explained, Announced

LEMMA RosterStep == RosterInv /\ [RosterNext]_rosterVars => RosterInv'
<1> SUFFICES ASSUME RosterInv, [RosterNext]_rosterVars PROVE RosterInv'
  OBVIOUS
<1> USE RosterAssumption DEF RosterInv, RosterTypeOK
<1>1. ASSUME NEW j \in Job,
             (\E u \in Guest : GuestJoins(j, u)) \/ OtherHandler(j) \/ HandleRemove(j)
      PROVE  RosterInv'
  <2>1. PICK copy : /\ Reads(j, copy) /\ copy \in SUBSET User /\ Host \in copy
                    /\ job[j].phase # "saved"
    <3>1. CASE \E u \in Guest : GuestJoins(j, u)
      <4>1. PICK u \in Guest : GuestJoins(j, u)
        BY <3>1
      <4>2. /\ job[j] = NoJob /\ Reads(j, users \cup {u})
            /\ users \cup {u} \in SUBSET User /\ Host \in users \cup {u}
        BY <4>1 DEF GuestJoins, User
      <4>3. job[j].phase # "saved"
        BY <4>2 DEF NoJob
      <4> QED BY <4>2, <4>3
    <3>2. CASE OtherHandler(j)
      BY <3>2 DEF OtherHandler, NoJob
    <3>3. CASE HandleRemove(j)
      <4>1. job[j].phase = "asked" /\ Reads(j, users \ {job[j].target}) /\ job[j].target \in Guest
        BY <3>3 DEF HandleRemove, JobsSound
      <4>2. users \ {job[j].target} \in SUBSET User /\ Host \in users \ {job[j].target}
        BY <4>1
      <4> HIDE DEF RosterInv, RosterTypeOK
      <4> QED BY <4>1, <4>2
    <3> QED BY <1>1, <3>1, <3>2, <3>3
  <2> DEFINE w == [job[j] EXCEPT !.phase = "saving", !.copy = copy]
  <2>2. /\ job' = [job EXCEPT ![j] = w] /\ steps' \in 0..MaxSteps
        /\ UNCHANGED <<users, lost, told, roster, loads, removing, answer, late>>
    BY <2>1 DEF Reads, pageVars
  <2>3. /\ w \in [phase : {"idle", "asked", "saving"}, copy : SUBSET User,
                   target : Guest \cup {Nobody}, page : Tab \cup {Nobody}]
        /\ w.phase = "saving" /\ w.copy = copy
    <3>1. job[j] \in [phase : {"idle", "asked", "saving", "saved"}, copy : SUBSET User,
                     target : Guest \cup {Nobody}, page : Tab \cup {Nobody}]
      OBVIOUS
    <3>2. job[j].phase # "saved" /\ copy \in SUBSET User
      BY <2>1
    <3> HIDE DEF RosterInv, RosterTypeOK
    <3> QED BY <3>1, <3>2
  <2>4. removing' \in [Tab -> Guest \cup {Nobody}]
    BY <2>2
  <2> HIDE DEF w, RosterInv, RosterTypeOK
  <2> QED BY <2>1, <2>2, <2>3, <2>4, JobMoves
<1>2. ASSUME NEW t \in Tab, TakeLoad(t) PROVE RosterInv'
  <2>1. [users |-> users, gone |-> {}] \in Snapshot
    BY DEF Snapshot
  <2>2. RosterTypeOK'
    BY <1>2, <2>1 DEF TakeLoad, serverVars
  <2>3. /\ loads' = [loads EXCEPT ![t] = @ \cup {[users |-> users, gone |-> {}]}]
        /\ UNCHANGED <<users, job, lost, told, roster, answer, late>>
    BY <1>2 DEF TakeLoad, serverVars
  <2>4. Explained(t, users, {})
    BY DEF Explained
  <2>5. JobsSound' /\ \A s \in Tab : Explained(s, roster[s], late[s])'
    BY <2>3, StaysExplained
  <2>6. ASSUME NEW s \in Tab, NEW l \in loads'[s] \cup answer'[s]
        PROVE  Explained(s, l.users, l.gone)'
    <3>1. CASE l \in loads[s] \cup answer[s]
      BY <2>3, <3>1, StaysExplained
    <3>2. CASE l \notin loads[s] \cup answer[s]
      <4>1. s = t /\ l.users = users /\ l.gone = {}
        BY <2>3, <2>6, <3>2
      <4> QED BY <2>3, <2>4, <4>1, StaysExplained
    <3> QED BY <3>1, <3>2
  <2> QED BY <2>2, <2>5, <2>6
<1>3. ASSUME NEW t \in Tab, LoadArrives(t) PROVE RosterInv'
  <2>1. PICK l \in loads[t] :
          /\ loads' = [loads EXCEPT ![t] = @ \ {l}]
          /\ roster' = [roster EXCEPT ![t] = l.users]
          /\ late' = [late EXCEPT ![t] = l.gone]
          /\ UNCHANGED <<users, job, lost, steps, told, removing, answer>>
    BY <1>3 DEF LoadArrives, serverVars
  <2>2. l.users \subseteq User /\ l.gone \subseteq Guest
    BY DEF Snapshot
  <2>3. RosterTypeOK'
    BY <2>1, <2>2
  <2> QED BY <2>1, <2>3, StaysExplained
<1>4. ASSUME NEW t \in Tab, LoadFails(t) PROVE RosterInv'
  <2>1. PICK l \in loads[t] :
          /\ loads' = [loads EXCEPT ![t] = @ \ {l}]
          /\ UNCHANGED <<users, job, lost, steps, told, roster, removing, answer, late>>
    BY <1>4 DEF LoadFails, serverVars
  <2> QED BY <2>1, StaysExplained
<1>5. ASSUME NEW t \in Tab, NEW j \in Job, NEW u \in Guest, Remove(t, j, u) PROVE RosterInv'
  <2> DEFINE w == [NoJob EXCEPT !.phase = "asked", !.target = u, !.page = t]
  <2>1. /\ job[j].phase # "saved" /\ job' = [job EXCEPT ![j] = w]
        /\ UNCHANGED <<users, lost, steps, told, roster, loads, answer, late>>
        /\ removing' \in [Tab -> Guest \cup {Nobody}]
    BY <1>5 DEF Remove, NoJob
  <2>2. /\ w \in [phase : {"idle", "asked", "saving"}, copy : SUBSET User,
                   target : Guest \cup {Nobody}, page : Tab \cup {Nobody}]
        /\ w.phase = "asked" /\ w.target = u
    BY DEF NoJob
  <2>3. steps' \in 0..MaxSteps
    BY <2>1
  <2> HIDE DEF w, RosterInv, RosterTypeOK
  <2> QED BY <2>1, <2>2, <2>3, JobMoves
<1>6. ASSUME NEW j \in Job, JobFails(j) PROVE RosterInv'
  <2>1. /\ job[j].phase # "saved" /\ job' = [job EXCEPT ![j] = NoJob]
        /\ UNCHANGED <<users, lost, steps, told, roster, loads, removing, answer, late>>
    BY <1>6 DEF JobFails, pageVars
  <2>2. /\ NoJob \in [phase : {"idle", "asked", "saving"}, copy : SUBSET User,
                       target : Guest \cup {Nobody}, page : Tab \cup {Nobody}]
        /\ NoJob.phase = "idle"
    BY DEF NoJob
  <2>3. steps' \in 0..MaxSteps /\ removing' \in [Tab -> Guest \cup {Nobody}]
    BY <2>1
  <2> HIDE DEF RosterInv, RosterTypeOK
  <2> QED BY <2>1, <2>2, <2>3, JobMoves
<1>7. ASSUME NEW t \in Tab, RemoveAnswered(t) PROVE RosterInv'
  <2>1. PICK a \in answer[t] :
          /\ answer' = [answer EXCEPT ![t] = {}]
          /\ removing' = [removing EXCEPT ![t] = Nobody]
          /\ roster' = [roster EXCEPT ![t] = a.users]
          /\ late' = [late EXCEPT ![t] = a.gone]
          /\ UNCHANGED <<users, job, lost, steps, told, loads>>
    BY <1>7 DEF RemoveAnswered, serverVars
  <2>2. a.users \subseteq User /\ a.gone \subseteq Guest
    BY DEF Snapshot
  <2>3. RosterTypeOK'
    BY <2>1, <2>2
  <2> QED BY <2>1, <2>3, StaysExplained
<1>8. ASSUME NEW t \in Tab, RemoveFails(t) PROVE RosterInv'
  <2>1. /\ removing' = [removing EXCEPT ![t] = Nobody]
        /\ answer' = [answer EXCEPT ![t] = {}]
        /\ job' = [j \in Job |-> IF job[j].page = t THEN [job[j] EXCEPT !.page = Nobody] ELSE job[j]]
        /\ UNCHANGED <<users, lost, steps, told, roster, loads, late>>
    BY <1>8 DEF RemoveFails
  <2>2. \A j \in Job :
          /\ job'[j] \in [phase : {"idle", "asked", "saving", "saved"}, copy : SUBSET User,
                           target : Guest \cup {Nobody}, page : Tab \cup {Nobody}]
          /\ job'[j].phase = job[j].phase /\ job'[j].copy = job[j].copy
          /\ job'[j].target = job[j].target
    <3> TAKE j \in Job
    <3>1. job[j] \in [phase : {"idle", "asked", "saving", "saved"}, copy : SUBSET User,
                     target : Guest \cup {Nobody}, page : Tab \cup {Nobody}]
      OBVIOUS
    <3>2. job'[j] = job[j] \/ job'[j] = [job[j] EXCEPT !.page = Nobody]
      BY <2>1
    <3> HIDE DEF RosterInv, RosterTypeOK
    <3> QED BY <3>1, <3>2
  <2>3. RosterTypeOK'
    BY <2>1, <2>2
  <2>4. JobsSound'
    BY <2>2 DEF JobsSound
  <2>5. \A s \in Tab : \A u : Announced(s, u) => Announced(s, u)'
    BY <2>1, <2>2 DEF Announced
  <2>6. \A s \in Tab : \A set, gone : Explained(s, set, gone) => Explained(s, set, gone)'
    BY <2>1, <2>5 DEF Explained
  <2>7. ASSUME NEW s \in Tab
        PROVE  /\ Explained(s, roster[s], late[s])'
               /\ \A l \in loads'[s] \cup answer'[s] : Explained(s, l.users, l.gone)'
    <3>1. loads'[s] = loads[s] /\ answer'[s] \subseteq answer[s]
      BY <2>1
    <3>2. roster'[s] = roster[s] /\ late'[s] = late[s]
      BY <2>1
    <3> QED BY <2>6, <3>1, <3>2
  <2> QED BY <2>3, <2>4, <2>7
<1>9. ASSUME NEW t \in Tab, OnKicked(t) \/ MissKicked(t) PROVE RosterInv'
  <2> DEFINE w == Head(told[t])
  <2>1. /\ told[t] # <<>> /\ Hears(t, w)
        /\ \/ /\ roster' = [roster EXCEPT ![t] = roster[t] \ {w}]
              /\ late' = [late EXCEPT ![t] = @ \ {w}]
           \/ /\ roster' = roster
              /\ late' = [late EXCEPT ![t] = @ \cup {w}]
    BY <1>9 DEF OnKicked, MissKicked, Without
  <2>2. UNCHANGED <<users, job, lost, removing, steps>>
    BY <2>1 DEF Hears, serverVars
  <2>3. /\ \A s \in Tab : \A u \in Guest :
              Announced(s, u) => Announced(s, u)' \/ (s = t /\ u = w)
        /\ w \in Guest
    BY <2>1, Heard
  <2>4. /\ told' \in [Tab -> Seq(Guest)]
        /\ loads' \in [Tab -> SUBSET Snapshot] /\ answer' \in [Tab -> SUBSET Snapshot]
        /\ \A s \in Tab : \A l \in loads'[s] \cup answer'[s] : Explained(s, l.users, l.gone)'
    BY <2>1, Heard
  <2>5. roster' \in [Tab -> SUBSET User] /\ late' \in [Tab -> SUBSET Guest]
    <3>1. /\ roster[t] \ {w} \in SUBSET User
          /\ late[t] \ {w} \in SUBSET Guest /\ late[t] \cup {w} \in SUBSET Guest
      BY <2>3
    <3>2. \/ /\ roster' = [roster EXCEPT ![t] = roster[t] \ {w}]
             /\ late' = [late EXCEPT ![t] = late[t] \ {w}]
          \/ /\ roster' = roster
             /\ late' = [late EXCEPT ![t] = late[t] \cup {w}]
      <4> HIDE DEF w, RosterInv, RosterTypeOK
      <4> QED BY <2>1
    <3> HIDE DEF w
    <3>3. roster \in [Tab -> SUBSET User] /\ late \in [Tab -> SUBSET Guest]
      OBVIOUS
    <3> HIDE DEF RosterInv, RosterTypeOK
    <3>4. roster' \in [Tab -> SUBSET User]
      BY <3>1, <3>2, <3>3, SMTT(30)
    <3>5. late' \in [Tab -> SUBSET Guest]
      BY <3>1, <3>2, <3>3, SMTT(30)
    <3> QED BY <3>4, <3>5
  <2>6. RosterTypeOK'
    BY <2>2, <2>4, <2>5
  <2>7. ASSUME NEW s \in Tab PROVE Explained(s, roster[s], late[s])'
    <3>1. roster[s] \subseteq User /\ Host \in users /\ Explained(s, roster[s], late[s])
      OBVIOUS
    <3>2. CASE s # t
      <4>1. roster'[s] = roster[s] /\ late'[s] = late[s]
        BY <2>1, <3>2
      <4> QED BY <2>2, <2>3, <3>1, <3>2, <4>1 DEF Explained, User
    <3>3. CASE s = t
      <4>1. \/ roster'[s] = roster[s] \ {w} /\ late'[s] = late[s] \ {w}
            \/ roster'[s] = roster[s] /\ late'[s] = late[s] \cup {w}
        BY <2>1, <3>3
      <4> QED BY <2>2, <2>3, <3>1, <3>3, <4>1 DEF Explained, User
    <3> QED BY <3>2, <3>3
  <2>8. JobsSound'
    BY <2>2 DEF JobsSound
  <2> QED BY <2>4, <2>6, <2>7, <2>8
<1>10. CASE UNCHANGED rosterVars
  BY <1>10 DEF rosterVars, serverVars, Explained, Announced, JobsSound
<1> QED
  BY <1>1, <1>2, <1>3, <1>4, <1>5, <1>6, <1>7, <1>8, <1>9, <1>10, Announces, Saves DEF RosterNext

(* For any number of pages, guests, loads and removals: a row of somebody  *)
(* the room no longer has goes away, but for the overtaken snapshots, the  *)
(* missed events and the lost writes that `late` and `lost` record.        *)
THEOREM NoGhostRowHolds == RosterSpec => []NoGhostRow
<1>1. RosterInit => RosterInv
  BY RosterAssumption DEF RosterInit, RosterInv, RosterTypeOK, JobsSound, NoJob, User, Explained
<1>2. RosterInv => NoGhostRow
  BY DEF RosterInv, NoGhostRow, Explained, Announced
<1> QED BY <1>1, <1>2, RosterStep, PTL DEF RosterSpec

-----------------------------------------------------------------------------
(* Clock.                                                                  *)

(* A ping under way was sent before it was served, by both clocks.         *)
InTime(p) ==
    p.trusted => /\ p.sent - skew <= serverClock
                 /\ p.served # -1 => p.sent - skew <= p.served /\ p.served <= serverClock

ClockInv ==
    /\ serverClock \in 0..MaxNow /\ skew \in Int /\ offset \in Int /\ trip \in Int
    /\ echoes \subseteq Ping
    /\ \A p \in echoes : InTime(p)
    /\ ClockClose

LEMMA ClockStep == ClockInv /\ [ClockNext]_clockVars => ClockInv'
<1> SUFFICES ASSUME ClockInv, [ClockNext]_clockVars PROVE ClockInv'
  OBVIOUS
<1> USE ClockAssumption DEF ClockInv, InTime, Ping, ClockClose, ServerNow, ClientClock
<1>1. CASE Tick
  BY <1>1 DEF Tick
<1>2. CASE SendPing
  <2> DEFINE p == [sent |-> ClientClock, served |-> -1, trusted |-> TRUE]
  <2>1. p \in Ping /\ InTime(p)'
    BY <1>2 DEF SendPing
  <2> QED BY <1>2, <2>1 DEF SendPing
<1>3. CASE SetClock
  <2>1. \A p \in Ping : [p EXCEPT !.trusted = FALSE] \in Ping
                       /\ ~[p EXCEPT !.trusted = FALSE].trusted
    OBVIOUS
  <2>2. echoes' \subseteq Ping /\ \A p \in echoes' : ~p.trusted
    BY <1>3, <2>1 DEF SetClock
  <2>3. skew' \in Int /\ trip' = -1 /\ UNCHANGED <<serverClock, offset>>
    BY <1>3 DEF SetClock
  <2>4. \A p \in echoes' : InTime(p)'
    BY <2>2
  <2>5. ClockClose'
    BY <2>3
  <2>6. trip' \in Int /\ serverClock' \in 0..MaxNow /\ offset' \in Int
    BY <2>3
  <2>7. echoes' \subseteq Ping
    BY <2>2
  <2> HIDE DEF InTime, Ping, ClockClose
  <2> QED BY <2>3, <2>4, <2>5, <2>6, <2>7
<1>4. ASSUME NEW p \in echoes, HandlePing(p) PROVE ClockInv'
  <2> DEFINE q == [p EXCEPT !.served = serverClock]
  <2>1. q \in Ping /\ q.sent = p.sent /\ q.trusted = p.trusted /\ q.served = serverClock
    BY <1>4
  <2>2. echoes' = (echoes \ {p}) \cup {q} /\ UNCHANGED <<serverClock, skew, offset, trip>>
    BY <1>4 DEF HandlePing
  <2>3. \A o \in echoes' : InTime(o)'
    BY <1>4, <2>1, <2>2
  <2> QED BY <2>1, <2>2, <2>3
<1>5. ASSUME NEW p \in echoes, OnPong(p) PROVE ClockInv'
  <2>1. /\ p.sent \in Int /\ p.served \in Int /\ p.served # -1 /\ p.trusted \in BOOLEAN
        /\ echoes' = echoes \ {p} /\ UNCHANGED <<serverClock, skew>>
        /\ offset' = 2 * p.served + (serverClock + skew - p.sent) - 2 * (serverClock + skew)
        /\ trip' = IF p.trusted THEN serverClock + skew - p.sent ELSE -1
    BY <1>5 DEF OnPong, Estimate
  <2>2. offset' \in Int /\ trip' \in Int
    BY <2>1
  <2>3. p.trusted => p.sent - skew <= p.served /\ p.served <= serverClock
    BY <2>1
  <2>4. ClockClose'
    BY <2>1, <2>3
  <2> QED BY <2>1, <2>2, <2>4
<1>6. ASSUME NEW p \in echoes, PingLost(p) PROVE ClockInv'
  BY <1>6 DEF PingLost
<1>7. CASE UNCHANGED clockVars
  BY <1>7 DEF clockVars
<1> QED BY <1>1, <1>2, <1>3, <1>4, <1>5, <1>6, <1>7 DEF ClockNext

(* Whatever the skew and however slow the pings: half of a ping's way is   *)
(* as far off as the page may be about the server's time.                  *)
THEOREM ClockCloseHolds == ClockSpec => []ClockClose
<1>1. ClockInit => ClockInv
  <2> SUFFICES ASSUME ClockInit PROVE ClockInv
    OBVIOUS
  <2>1. serverClock \in 0..MaxNow /\ skew \in Int /\ offset \in Int
    BY ClockAssumption DEF ClockInit
  <2>2. trip = -1 /\ echoes = {}
    BY DEF ClockInit
  <2>3. -1 \in Int
    OBVIOUS
  <2> QED BY <2>1, <2>2, <2>3 DEF ClockInv, ClockClose
<1>2. ClockInv => ClockClose
  BY DEF ClockInv
<1> QED BY <1>1, <1>2, ClockStep, PTL DEF ClockSpec

=============================================================================
