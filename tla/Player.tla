------------------------------- MODULE Player -------------------------------
(***************************************************************************)
(* The player of a page (components/YouTubePlayer.tsx): a component that   *)
(* passes the page's commands on to YouTube's player in an iframe, and     *)
(* from the state changes that come back tells those it caused itself from *)
(* those of the user, which the page announces to the room.                *)
(*                                                                         *)
(* Commands and reports are messages between two windows and take time.    *)
(* Songs and positions are left out: RoomPage is about those.              *)
(***************************************************************************)
EXTENDS Naturals, Sequences

CONSTANTS MaxActs  \* bound on the page's commands and the user's clicks

ASSUME ActsAssumption == MaxActs \in Nat

VARIABLES
    mounted,  \* the component is on the page
    player,   \* "none", "loading" (the script or the iframe), or "ready" (readyRef)
    expects,  \* expectRef: the state change the component is waiting for, or "none"
    timer,    \* autoplayTimerRef is running
    known,    \* getPlayerState(): the last state reported
    told,     \* the callback that the last step made
    orders,   \* commands on their way to the iframe
    video,    \* what the iframe does, and who brought it there
    reports,  \* state changes on their way back
    allowed,  \* the browser lets the iframe play
    acts,
    refused,  \* history: the browser refused the last load
    shown,    \* history: and the page has been told
    plain     \* history: nothing has happened yet that blurs whose doing a change is

component == <<mounted, player, expects, timer, known>>
iframe == <<orders, video, reports, allowed>>
history == <<refused, shown, plain>>
vars == <<component, told, iframe, acts, history>>

States == {"unstarted", "buffering", "playing", "paused", "ended", "cued"}

(* What the page orders in one go: pages/Room.tsx has a play or a pause    *)
(* follow a seek at once.                                                  *)
Orders == {"load", "cue", "play", "pause", "seek", "seekPlay", "seekPause"}

(* These put another song into the player.                                 *)
Anew == {"load", "cue"}

Quiet == orders = <<>> /\ reports = <<>> /\ video.state # "buffering"

(* Once all is quiet and nothing is expected, there is nothing to mistake. *)
Clear(still) == still \/ (Quiet' /\ expects' = "none")

Init ==
    /\ mounted = TRUE /\ player = "loading"
    /\ expects = "none" /\ timer = FALSE /\ known = "unstarted" /\ told = "none"
    /\ orders = <<>> /\ reports = <<>>
    /\ video = [state |-> "unstarted", by |-> "page"]
    /\ allowed \in BOOLEAN
    /\ acts = 0
    /\ refused = FALSE /\ shown = FALSE /\ plain = TRUE

-----------------------------------------------------------------------------
(* The component.                                                          *)

OnReady ==
    /\ player = "loading" /\ player' = "ready"
    /\ told' = "ready"
    /\ UNCHANGED <<mounted, expects, timer, known, iframe, acts, history>>

SeekExpects(order) == \* mutant
    CASE order \in {"load", "play", "seekPlay", "seek"} -> "playing"
      [] order \in {"pause", "seekPause"} -> "paused"
      [] order = "cue" -> "cued"

(* The change a command will be known by.  A seek comes out of the buffer  *)
(* playing, if it was playing.                                             *)
Expectation(order) ==
    CASE order \in {"load", "play", "seekPlay"} -> "playing"
      [] order \in {"pause", "seekPause"} -> "paused"
      [] order = "cue" -> "cued"
      [] order = "seek" -> IF known = "playing" THEN "playing" ELSE expects

(* A command of the page.  Without a player that is ready it is lost.      *)
Order(order) ==
    /\ player = "ready" /\ acts < MaxActs /\ acts' = acts + 1
    /\ expects' = Expectation(order)
    /\ timer' = (order = "load" \/ (order # "cue" /\ timer))
    /\ orders' = Append(orders, order)
    /\ refused' = (refused /\ order \notin Anew) /\ shown' = (shown /\ order \notin Anew)
    /\ plain' = (plain /\ Quiet)
    /\ told' = "none"
    /\ UNCHANGED <<mounted, player, known, video, reports, allowed>>

(* Too much time has passed for a change to count as the component's own.  *)
Lapse ==
    /\ expects # "none" /\ expects' = "none"
    /\ plain' = Quiet
    /\ told' = "none"
    /\ UNCHANGED <<mounted, player, timer, known, iframe, acts, refused, shown>>

Callback(state) ==
    CASE state = "ended" -> "onEnded"
      [] state = "playing" /\ expects # state -> "onUserPlay"
      [] state = "paused" /\ expects # state -> "onUserPause"
      [] OTHER -> "none"

HushTimer(state) == \* mutant
    timer' = FALSE

StopTimer(state) == timer' = (timer /\ state # "playing")

OnStateChange ==
    /\ player = "ready" /\ reports # <<>>
    /\ LET state == Head(reports).state IN
         /\ known' = state
         /\ StopTimer(state)
         /\ told' = Callback(state)
         /\ expects' = IF state = expects THEN "none" ELSE expects
    /\ reports' = Tail(reports)
    /\ UNCHANGED <<mounted, player, orders, video, allowed, acts, refused, shown>>
    /\ plain' = Clear(plain)

(* A while after a load the player is neither playing nor about to.        *)
AutoplayTimer ==
    /\ timer /\ timer' = FALSE
    /\ told' = IF known \in {"playing", "buffering"} THEN "none" ELSE "onAutoplayBlocked"
    /\ shown' = (shown \/ told' = "onAutoplayBlocked")
    /\ UNCHANGED <<mounted, player, expects, known, iframe, acts, refused, plain>>

UnmountLate == \* mutant
    /\ mounted /\ mounted' = FALSE
    /\ told' = "none"
    /\ UNCHANGED <<player, expects, timer, known, iframe, acts, history>>

UnmountLoudly == \* mutant
    /\ mounted /\ mounted' = FALSE
    /\ player' = "none" /\ timer' = FALSE
    /\ orders' = <<>> /\ reports' = <<>>
    /\ told' = IF video.state = "playing" THEN "onUserPause" ELSE "none"
    /\ UNCHANGED <<expects, known, video, allowed, acts, history>>

(* The player is destroyed.  What it still reports, as it is or was on the *)
(* way, is ignored, and a script that is still loading builds no player.   *)
(* That a player which is destroyed while its iframe loads never calls     *)
(* onReady is YouTube's doing: onReady itself does not ask.                *)
Unmount ==
    /\ mounted /\ mounted' = FALSE
    /\ player' = "none" /\ timer' = FALSE
    /\ orders' = <<>> /\ reports' = <<>>
    /\ told' = "none"
    /\ UNCHANGED <<expects, known, video, allowed, acts, history>>

-----------------------------------------------------------------------------
(* The iframe.                                                             *)

Becomes(state, by) ==
    /\ video' = [state |-> state, by |-> by]
    /\ reports' = Append(reports, [state |-> state, by |-> by])

Same == UNCHANGED <<video, reports>>

Active == video.state \in {"playing", "buffering"}

(* Playing starts with a buffer to fill, unless the browser refuses.       *)
Starts(by) == Becomes("buffering", by) /\ allowed' = TRUE /\ UNCHANGED <<refused, plain>>

(* A change that was expected will not come.                               *)
Vain == plain' = FALSE /\ UNCHANGED <<allowed, refused>>

Loads ==
    \/ Starts("page")
    \/ /\ ~allowed /\ Becomes("unstarted", "page")
       /\ refused' = (\A i \in DOMAIN orders' : orders'[i] \notin Anew)
       /\ plain' = FALSE /\ UNCHANGED allowed

Plays ==
    \/ ~Active /\ Starts("page")
    \/ Active /\ Same /\ Vain
    \/ ~Active /\ ~allowed /\ Same /\ Vain

Pauses ==
    \/ /\ video.state \notin {"paused", "ended"} /\ Becomes("paused", "page")
       /\ UNCHANGED <<allowed, refused, plain>>
    \/ video.state \in {"paused", "ended"} /\ Same /\ Vain

(* A paused video stays paused.  One that has not begun or has ended may   *)
(* start to play, which the component does not reckon with.                *)
Seeks ==
    \/ video.state = "playing" /\ Starts("page")
    \/ video.state \in {"buffering", "paused"} /\ Same /\ UNCHANGED <<allowed, refused, plain>>
    \/ /\ video.state \in {"unstarted", "cued", "ended"}
       /\ \/ Same /\ Vain
          \/ Becomes("buffering", "page") /\ allowed' = TRUE /\ plain' = FALSE /\ UNCHANGED refused

Obey ==
    /\ orders # <<>> /\ orders' = Tail(orders)
    /\ LET order == Head(orders) IN
         \/ order = "load" /\ Loads
         \/ order = "cue" /\ Becomes("cued", "page") /\ UNCHANGED <<allowed, refused, plain>>
         \/ order = "play" /\ Plays
         \/ order = "seekPlay" /\ IF video.state = "playing" THEN Seeks ELSE Plays
         \/ order \in {"pause", "seekPause"} /\ Pauses
         \/ order = "seek" /\ Seeks
    /\ told' = "none"
    /\ UNCHANGED <<component, acts, shown>>

(* The buffer is full.                                                     *)
BufferFull ==
    /\ player = "ready" /\ video.state = "buffering"
    /\ Becomes("playing", video.by)
    /\ told' = "none"
    /\ UNCHANGED <<component, orders, allowed, acts, history>>

Ends ==
    /\ player = "ready" /\ video.state = "playing"
    /\ Becomes("ended", video.by)
    /\ told' = "none"
    /\ UNCHANGED <<component, orders, allowed, acts, history>>

(* The user clicks on the video.                                           *)
Click ==
    /\ player = "ready" /\ acts < MaxActs /\ acts' = acts + 1
    /\ Becomes(IF Active THEN "paused" ELSE "buffering", "user")
    /\ allowed' = TRUE
    /\ plain' = (plain /\ Quiet)
    /\ told' = "none"
    /\ UNCHANGED <<component, orders, refused, shown>>

Next ==
    \/ OnReady \/ \E order \in Orders : Order(order)
    \/ Lapse \/ OnStateChange \/ AutoplayTimer \/ Unmount
    \/ Obey \/ BufferFull \/ Ends \/ Click

Spec == Init /\ [][Next]_vars

-----------------------------------------------------------------------------
(* Properties.                                                             *)

TypeOK ==
    /\ mounted \in BOOLEAN /\ player \in {"none", "loading", "ready"}
    /\ (mounted <=> player # "none")
    /\ expects \in {"none", "playing", "paused", "cued"} /\ known \in States
    /\ timer \in BOOLEAN /\ (timer => player = "ready")
    /\ orders \in Seq(Orders) /\ video \in [state : States, by : {"page", "user"}]
    /\ acts \in 0..MaxActs

(* A change is announced as the user's if and only if it is, when commands *)
(* and clicks do not overlap, as long as every command has had its effect  *)
(* within its time.  A command without effect (a play while it plays, a    *)
(* refused one) does harm only until its expectation has passed.           *)
Distinguishes ==
    [][plain /\ OnStateChange /\ Head(reports).state \in {"playing", "paused"}
         => (told' # "none" <=> Head(reports).by = "user")]_vars

(* A load that the browser refuses is noticed: unless the user has clicked *)
(* the page has been told when the timer has run out or is stopped.        *)
RefusalShows == refused /\ ~allowed /\ mounted /\ ~timer => shown

(* A component that has left the page calls it no more, not even from the  *)
(* changes that come with its destruction.                                 *)
GoneIsSilent == [][~mounted' => told' = "none"]_vars

=============================================================================
