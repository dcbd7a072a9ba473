------------------------------ MODULE AddSong ------------------------------
(***************************************************************************)
(* The add-song panel (components/AddSong.tsx): what is typed is looked up *)
(* after a pause, while answers to older texts are still on their way; a   *)
(* song found is added or played, a playlist found is imported, which      *)
(* empties the input when it is done.                                      *)
(*                                                                         *)
(* A text is trimmed and of a known mode; songs are abstracted to the text *)
(* they were found for.  React runs the effect of a keystroke with it, but *)
(* that of an answer some time later (`stale`).                            *)
(***************************************************************************)
EXTENDS Naturals

CONSTANTS
    Text,     \* what may stand in the input, trimmed
    Blank,    \* the empty text
    Short,    \* a single letter
    Video,    \* links to a video
    List,     \* links to a playlist; everything else is searched for
    NoText,   \* no results, no playlist, no import
    MaxAsks   \* bound on changes of the input

ASSUME TextAssumption ==
    /\ Blank \in Text /\ NoText \notin Text
    /\ Short \subseteq Text \ {Blank}
    /\ Video \subseteq Text \ (Short \cup {Blank})
    /\ List \subseteq Text \ (Short \cup Video \cup {Blank})
    /\ MaxAsks \in Nat

VARIABLES
    query,      \* the input
    stale,      \* the effect on a changed input has yet to run
    reqId,      \* the newest run of the effect
    lookup,     \* for each run its text, and where its lookup stands
    results,    \* the text whose songs are listed
    playlist,   \* the text whose playlist is shown, and whether it has songs
    status,
    error,      \* something is reported as failed
    pendingId,  \* a song is being added or played
    addingAll   \* the playlist being imported

panelVars == <<query, stale, reqId, lookup, results, playlist, status, error,
               pendingId, addingAll>>

Sought == Text \ (Short \cup {Blank})

(* detectMode.                                                             *)
Mode(q) ==
    IF q \in List THEN "playlist" ELSE IF q \in Video THEN "video" ELSE "search"

(* songFromId finds a song, whatever oEmbed says of it or fails to say.    *)
Certain(q) == Mode(q) = "video"

NoList == [of |-> NoText, songs |-> FALSE]

PanelInit ==
    /\ query = Blank /\ stale = FALSE
    /\ reqId = 0
    /\ lookup = [i \in 0..MaxAsks |-> [of |-> Blank, phase |-> "none"]]
    /\ results = NoText /\ playlist = NoList
    /\ status = "idle" /\ error = FALSE
    /\ pendingId = FALSE /\ addingAll = NoText

-----------------------------------------------------------------------------
(* The effect on the input, after the clean-up of the one before, which    *)
(* stops a timer but not a request.                                        *)

Superseded(l) == IF l.phase = "timer" THEN [l EXCEPT !.phase = "none"] ELSE l

EffectKeepsStatus(q) == \* mutant
    /\ reqId < MaxAsks /\ reqId' = reqId + 1
    /\ lookup' = [lookup EXCEPT
                    ![reqId] = Superseded(@),
                    ![reqId'] = [of |-> q, phase |-> IF q \in Sought THEN "timer" ELSE "none"]]
    /\ results' = NoText /\ playlist' = NoList
    /\ status' = IF q \in Sought THEN "loading" ELSE status
    /\ error' = FALSE

Effect(q) ==
    /\ reqId < MaxAsks /\ reqId' = reqId + 1
    /\ lookup' = [lookup EXCEPT
                    ![reqId] = Superseded(@),
                    ![reqId'] = [of |-> q, phase |-> IF q \in Sought THEN "timer" ELSE "none"]]
    /\ results' = NoText /\ playlist' = NoList
    /\ status' = IF q \in Sought THEN "loading" ELSE "idle"
    /\ error' = FALSE

(* A keystroke or a paste, of a space perhaps, which leaves the trimmed    *)
(* text as it was.  React runs effects that are due before it.             *)
Type(q) ==
    /\ ~stale
    /\ query' = q
    /\ Effect(q)
    /\ UNCHANGED <<stale, pendingId, addingAll>>

LateEffect ==
    /\ stale /\ stale' = FALSE
    /\ Effect(query)
    /\ UNCHANGED <<query, pendingId, addingAll>>

-----------------------------------------------------------------------------
(* Lookups.                                                                *)

(* The pause is over.                                                      *)
Timer(i) ==
    /\ lookup[i].phase = "timer"
    /\ lookup' = [lookup EXCEPT ![i].phase = "sent"]
    /\ UNCHANGED <<query, stale, reqId, results, playlist, status, error, pendingId, addingAll>>

Ends(i) ==
    /\ lookup[i].phase = "sent"
    /\ lookup' = [lookup EXCEPT ![i].phase = "none"]
    /\ UNCHANGED <<query, stale, reqId, pendingId, addingAll>>

AnyAnswer(i) == TRUE \* mutant

(* Only the newest run of the effect may speak.                            *)
Newest(i) == i = reqId

(* A lookup ends with songs or none.                                       *)
LookupAnswers(i) ==
    /\ Ends(i)
    /\ IF Newest(i)
       THEN /\ status' = "idle" /\ UNCHANGED error
            /\ \E songs \in (IF Certain(lookup[i].of) THEN {TRUE} ELSE BOOLEAN) :
                 IF Mode(lookup[i].of) = "playlist"
                 THEN playlist' = [of |-> lookup[i].of, songs |-> songs] /\ UNCHANGED results
                 ELSE /\ results' = IF songs THEN lookup[i].of ELSE NoText
                      /\ UNCHANGED playlist
       ELSE UNCHANGED <<results, playlist, status, error>>

(* Or it fails.                                                            *)
LookupFails(i) ==
    /\ ~Certain(lookup[i].of)
    /\ Ends(i)
    /\ IF Newest(i) THEN status' = "error" /\ error' = TRUE
                    ELSE UNCHANGED <<status, error>>
    /\ UNCHANGED <<results, playlist>>

-----------------------------------------------------------------------------
(* What is done with what was found.                                       *)

(* add and playNow.                                                        *)
Pick ==
    /\ results # NoText /\ ~pendingId
    /\ pendingId' = TRUE /\ error' = FALSE
    /\ UNCHANGED <<query, stale, reqId, lookup, results, playlist, status, addingAll>>

Picked ==
    /\ pendingId /\ pendingId' = FALSE
    /\ error' \in {error, TRUE}
    /\ UNCHANGED <<query, stale, reqId, lookup, results, playlist, status, addingAll>>

AddAll ==
    /\ playlist.songs /\ addingAll = NoText
    /\ addingAll' = playlist.of /\ error' = FALSE
    /\ UNCHANGED <<query, stale, reqId, lookup, results, playlist, status, pendingId>>

(* The import is done, and empties the input: whatever stands in it now.   *)
(* An effect follows unless nothing stood in it, not even a space.         *)
Imported ==
    /\ addingAll # NoText /\ addingAll' = NoText
    /\ query' = Blank /\ stale' \in {stale \/ query # Blank, TRUE}
    /\ UNCHANGED <<reqId, lookup, results, playlist, status, error, pendingId>>

ImportFails ==
    /\ addingAll # NoText /\ addingAll' = NoText
    /\ error' = TRUE
    /\ UNCHANGED <<query, stale, reqId, lookup, results, playlist, status, pendingId>>

Lookups == \E i \in 0..MaxAsks : Timer(i) \/ LookupAnswers(i) \/ LookupFails(i)

PanelNext ==
    \/ \E q \in Text : Type(q)
    \/ LateEffect \/ Lookups
    \/ Pick \/ Picked \/ AddAll \/ Imported \/ ImportFails

PanelSpec == PanelInit /\ [][PanelNext]_panelVars

(* Timers fire, requests end one way or another, and effects run.  Nobody  *)
(* has to type, to pick or to import.                                      *)
PanelFairness ==
    /\ WF_panelVars(LateEffect)
    /\ \A i \in 0..MaxAsks :
         WF_panelVars(Timer(i)) /\ WF_panelVars(LookupAnswers(i) \/ LookupFails(i))

-----------------------------------------------------------------------------
(* Properties.                                                             *)

(* What the panel says of the text that its newest effect was about.       *)
About == lookup[reqId].of

Says ==
    CASE status = "loading"     -> <<About, "awaited">>
      [] results # NoText       -> <<results, "songs">>
      [] playlist # NoList      -> <<playlist.of, IF playlist.songs THEN "songs" ELSE "nothing">>
      [] status = "error"       -> <<About, "failure">>
      [] status = "idle" /\ results = NoText /\ playlist = NoList /\ About \in Sought
                                -> <<About, "nothing">>
      [] OTHER                  -> <<About, "silent">>

Promise == INSTANCE Search WITH text <- About, outcome <- Says

(* The panel keeps the promise of Search: answers to older texts, however  *)
(* late, never show, and nothing is said of a text twice.                  *)
ImplementsSearch == Promise!SearchSpec

(* "Searching..." does not stay: the newest lookup ends, or there is none. *)
SearchEnds == status = "loading" ~> status # "loading"

=============================================================================
