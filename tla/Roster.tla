------------------------------- MODULE Roster -------------------------------
(***************************************************************************)
(* Who the host's pages say has joined the room, and the removal of one of *)
(* them (pages/Room.tsx, components/People.tsx): the roster a page shows   *)
(* comes from loads of the room, from answers to its own removals and from *)
(* "kicked" events, in whatever order they arrive.  Nobody announces that  *)
(* somebody has joined.                                                    *)
(*                                                                         *)
(* The handlers on the server read the room, change their copy and write   *)
(* all of it back: a write may undo a join or a removal that came between. *)
(*                                                                         *)
(* A snapshot is a roster on its way: the users as the server had them,    *)
(* and, as history, those whose removal the page was told of, or missed,   *)
(* while it was on its way.                                                *)
(***************************************************************************)
EXTENDS Sequences, Naturals, FiniteSets

CONSTANTS
    Tab,      \* the pages the host has open
    Guest,    \* who may join
    Host,
    Nobody,
    Job,      \* slots for requests that write the room
    MaxLoads, \* bound on loads under way per page
    MaxSteps  \* bound on the requests that write the room

ASSUME RosterAssumption ==
    /\ Host \notin Guest /\ Nobody \notin Guest \cup Tab
    /\ MaxLoads \in Nat /\ MaxSteps \in Nat

VARIABLES
    users,      \* the room's users, on the server
    job,        \* what each request that writes the room is about to do
    told,       \* for each page the removals announced to it, on their way
    roster,     \* what each page shows; {} before its first load
    loads,      \* for each page the loads on their way back
    removing,   \* whom each page is removing
    answer,     \* for each page the answer to its removal, {} or a singleton
    late,       \* history: whom a snapshot brought back, or an event missed
    lost,       \* history: whom the write of an older copy has dropped
    steps

serverVars == <<users, job, lost, steps>>
rosterVars == <<serverVars, told, roster, loads, removing, answer, late>>

User == Guest \cup {Host}

Snapshot == [users : SUBSET User, gone : SUBSET Guest]

NoJob == [phase |-> "idle", copy |-> {}, target |-> Nobody, page |-> Nobody]

RosterInit ==
    /\ users = {Host}
    /\ job = [j \in Job |-> NoJob]
    /\ told = [t \in Tab |-> <<>>]
    /\ roster = [t \in Tab |-> {}]
    /\ loads = [t \in Tab |-> {}]
    /\ removing = [t \in Tab |-> Nobody]
    /\ answer = [t \in Tab |-> {}]
    /\ late = [t \in Tab |-> {}]
    /\ lost = {}
    /\ steps = 0

-----------------------------------------------------------------------------
(* Requests that write the room.                                           *)

pageVars == <<told, roster, loads, removing, answer, late>>

(* GetRoom: the handler holds a copy, changed as it likes, until it saves. *)
Reads(j, copy) ==
    /\ steps < MaxSteps /\ steps' = steps + 1
    /\ job' = [job EXCEPT ![j] = [@ EXCEPT !.phase = "saving", !.copy = copy]]
    /\ UNCHANGED <<users, lost, pageVars>>

(* handleJoinRoom; somebody who is there already is not written.           *)
GuestJoins(j, u) == job[j] = NoJob /\ u \notin users /\ Reads(j, users \cup {u})

(* A handler of the queue, of playback or of control.                      *)
OtherHandler(j) == job[j] = NoJob /\ Reads(j, users)

(* The server's handleRemoveUser, of a request that has arrived.           *)
HandleRemove(j) ==
    job[j].phase = "asked" /\ Reads(j, users \ {job[j].target})

(* SaveRoom; a removal is answered then.                                   *)
Save(j) == LET w == job[j] IN
    /\ w.phase = "saving"
    /\ users' = w.copy
    /\ lost' = (lost \cup (users \ {w.target})) \ w.copy
    /\ job' = [job EXCEPT ![j] = IF w.target = Nobody THEN NoJob ELSE [@ EXCEPT !.phase = "saved"]]
    /\ answer' = [t \in Tab |-> IF t = w.page THEN {[users |-> w.copy, gone |-> {}]} ELSE answer[t]]
    /\ UNCHANGED <<steps, told, roster, loads, removing, late>>

(* The request never arrives, is refused, or is not saved.                 *)
JobFails(j) ==
    /\ job[j].phase \in {"asked", "saving"}
    /\ job' = [job EXCEPT ![j] = NoJob]
    /\ UNCHANGED <<users, lost, steps, pageVars>>

Overtaken(snapshots, u) == {[l EXCEPT !.gone = @ \cup {u}] : l \in snapshots}

(* The removal is announced to everybody...                                *)
Publish(j) ==
    /\ job[j].phase = "saved"
    /\ job' = [job EXCEPT ![j] = NoJob]
    /\ told' = [t \in Tab |-> Append(told[t], job[j].target)]
    /\ UNCHANGED <<users, lost, steps, roster, loads, removing, answer, late>>

(* ...or to nobody: publish logs the error and goes on.                    *)
PublishFails(j) == LET u == job[j].target IN
    /\ job[j].phase = "saved"
    /\ job' = [job EXCEPT ![j] = NoJob]
    /\ loads' = [t \in Tab |-> Overtaken(loads[t], u)]
    /\ answer' = [t \in Tab |-> Overtaken(answer[t], u)]
    /\ late' = [t \in Tab |-> late[t] \cup {u}]
    /\ UNCHANGED <<users, lost, steps, told, roster, removing>>

-----------------------------------------------------------------------------
(* Loads.                                                                  *)

(* The server takes the room for a load: the first, or that of a reconnect.*)
TakeLoad(t) ==
    /\ Cardinality(loads[t]) < MaxLoads
    /\ loads' = [loads EXCEPT ![t] = @ \cup {[users |-> users, gone |-> {}]}]
    /\ UNCHANGED <<serverVars, told, roster, removing, answer, late>>

(* loadRoom sets the room, whatever happened since.                        *)
LoadArrives(t) == \E l \in loads[t] :
    /\ loads' = [loads EXCEPT ![t] = @ \ {l}]
    /\ roster' = [roster EXCEPT ![t] = l.users]
    /\ late' = [late EXCEPT ![t] = l.gone]
    /\ UNCHANGED <<serverVars, told, removing, answer>>

LoadFails(t) == \E l \in loads[t] :
    /\ loads' = [loads EXCEPT ![t] = @ \ {l}]
    /\ UNCHANGED <<serverVars, told, roster, removing, answer, late>>

-----------------------------------------------------------------------------
(* Removals.                                                               *)

(* The rows of People with a button.                                       *)
Rows(t) == roster[t] \ {Host}

(* handleRemoveUser, from such a row: one removal at a time.               *)
Remove(t, j, u) ==
    /\ removing[t] = Nobody /\ u \in Rows(t)
    /\ job[j] = NoJob
    /\ removing' = [removing EXCEPT ![t] = u]
    /\ job' = [job EXCEPT ![j] = [NoJob EXCEPT !.phase = "asked", !.target = u, !.page = t]]
    /\ UNCHANGED <<users, lost, steps, told, roster, loads, answer, late>>

(* The answer is the roster as the removal saved it.                       *)
RemoveAnswered(t) == \E a \in answer[t] :
    /\ answer' = [answer EXCEPT ![t] = {}]
    /\ removing' = [removing EXCEPT ![t] = Nobody]
    /\ roster' = [roster EXCEPT ![t] = a.users]
    /\ late' = [late EXCEPT ![t] = a.gone]
    /\ UNCHANGED <<serverVars, told, loads>>

(* The page gives the request up; the server may still be at it.           *)
RemoveFails(t) ==
    /\ removing[t] # Nobody
    /\ removing' = [removing EXCEPT ![t] = Nobody]
    /\ answer' = [answer EXCEPT ![t] = {}]
    /\ job' = [j \in Job |-> IF job[j].page = t THEN [job[j] EXCEPT !.page = Nobody] ELSE job[j]]
    /\ UNCHANGED <<users, lost, steps, told, roster, loads, late>>

-----------------------------------------------------------------------------
(* "kicked" events.                                                        *)

Hears(t, u) ==
    /\ told' = [told EXCEPT ![t] = Tail(@)]
    /\ loads' = [loads EXCEPT ![t] = Overtaken(@, u)]
    /\ answer' = [answer EXCEPT ![t] = Overtaken(@, u)]
    /\ UNCHANGED <<serverVars, removing>>

WithoutUnlessRemoving(t, u) == IF removing[t] = Nobody THEN roster[t] \ {u} ELSE roster[t] \* mutant

Without(t, u) == roster[t] \ {u}

(* onKicked, of somebody else: the host's pages are never named.           *)
OnKicked(t) ==
    /\ told[t] # <<>>
    /\ Hears(t, Head(told[t]))
    /\ roster' = [roster EXCEPT ![t] = Without(t, Head(told[t]))]
    /\ late' = [late EXCEPT ![t] = @ \ {Head(told[t])}]

(* The page's socket is down when the event is published.                  *)
MissKicked(t) ==
    /\ told[t] # <<>>
    /\ Hears(t, Head(told[t]))
    /\ late' = [late EXCEPT ![t] = @ \cup {Head(told[t])}]
    /\ UNCHANGED roster

RosterNext ==
    \/ \E j \in Job :
        \/ \E u \in Guest : GuestJoins(j, u)
        \/ OtherHandler(j) \/ HandleRemove(j) \/ Save(j) \/ JobFails(j)
        \/ Publish(j) \/ PublishFails(j)
    \/ \E t \in Tab :
        \/ TakeLoad(t) \/ LoadArrives(t) \/ LoadFails(t)
        \/ \E j \in Job, u \in Guest : Remove(t, j, u)
        \/ RemoveAnswered(t) \/ RemoveFails(t)
        \/ OnKicked(t) \/ MissKicked(t)

RosterSpec == RosterInit /\ [][RosterNext]_rosterVars

-----------------------------------------------------------------------------

RosterTypeOK ==
    /\ users \in SUBSET User /\ Host \in users
    /\ job \in [Job -> [phase : {"idle", "asked", "saving", "saved"}, copy : SUBSET User,
                        target : Guest \cup {Nobody}, page : Tab \cup {Nobody}]]
    /\ told \in [Tab -> Seq(Guest)]
    /\ roster \in [Tab -> SUBSET User]
    /\ loads \in [Tab -> SUBSET Snapshot]
    /\ removing \in [Tab -> Guest \cup {Nobody}]
    /\ answer \in [Tab -> SUBSET Snapshot]
    /\ late \in [Tab -> SUBSET Guest]
    /\ lost \in SUBSET Guest
    /\ steps \in 0..MaxSteps

(* A removal of u is announced to the page, or is about to be.             *)
Announced(t, u) ==
    \/ \E i \in DOMAIN told[t] : told[t][i] = u
    \/ \E j \in Job : job[j].phase = "saved" /\ job[j].target = u

(* A row of somebody the room no longer has goes away: the page is still   *)
(* to be told, unless a snapshot that an event overtook has brought the    *)
(* row back, the event found the page's socket down or was never           *)
(* published, or nobody removed them but the write of an older copy.       *)
NoGhostRow ==
    \A t \in Tab : \A u \in roster[t] \ users :
        u \in late[t] \cup lost \/ Announced(t, u)

=============================================================================
