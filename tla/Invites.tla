------------------------------ MODULE Invites ------------------------------
(***************************************************************************)
(* Invite tokens (api/invites.go) beside the room they lead into: a second *)
(* blob, which a join by invite reads, changes and writes back before it   *)
(* does the same with the room.  Tokens do not touch one another, so there *)
(* is one here, and the room exists as long as it.                         *)
(***************************************************************************)
EXTENDS Room

CONSTANTS
    MaxUses,   \* bound on the uses that are asked for
    MaxValid   \* bound on the time an invite is valid

ASSUME InviteAssumption == MaxUses \in Nat /\ MaxValid \in Nat

VARIABLES
    invite,    \* the blob under invite:<token>, or NoInvite
    spending,  \* the invite that a request has read, or NoInvite
    invited,   \* the requests that join by the invite
    admitted,  \* history: how many of them have been saved
    shared     \* history: a use was written over a newer count

inviteVars == <<invite, spending, invited, admitted, shared>>
allVars == <<vars, inviteVars>>

NoInvite == [uses |-> 0, maxUses |-> 0, expires |-> 0]

InvitesInit ==
    /\ Init
    /\ invite = NoInvite
    /\ spending = [r \in Req |-> NoInvite]
    /\ invited = {} /\ admitted = 0 /\ shared = FALSE

(* handleCreateInvite.  A limit or a validity of nothing gets a default.   *)
CreateInvite ==
    /\ invite = NoInvite
    /\ \E max \in 1..MaxUses, valid \in 1..MaxValid :
         invite' = [uses |-> 0, maxUses |-> max, expires |-> now + valid]
    /\ UNCHANGED <<vars, spending, invited, admitted, shared>>

UsableOnceMore(inv) == \* mutant
    inv # NoInvite /\ now <= inv.expires /\ inv.uses <= inv.maxUses

Usable(inv) == inv # NoInvite /\ now <= inv.expires /\ inv.uses < inv.maxUses

Free(r) == req[r].phase = "idle" /\ spending[r] = NoInvite

(* handleJoinInvite: the invite is read and checked.                       *)
ReadInvite(r) ==
    /\ Free(r)
    /\ Usable(invite)
    /\ spending' = [spending EXCEPT ![r] = invite]
    /\ UNCHANGED <<vars, invite, invited, admitted, shared>>

AdmitAlone(r, user) == \* mutant
    /\ spending[r] # NoInvite
    /\ CanJoin(room, user)
    /\ Plainly(r, "join", {}, [room EXCEPT !.users = {user}], <<>>)
    /\ UNCHANGED inviteVars

(* GetRoom, and on its copy a user with a new id.                          *)
Admit(r, user) ==
    /\ spending[r] # NoInvite
    /\ CanJoin(room, user)
    /\ Plainly(r, "join", {}, Join(room, user), <<>>)
    /\ UNCHANGED inviteVars

SpendNothing(r) == \* mutant
    /\ spending[r] # NoInvite /\ req[r].phase = "saving"
    /\ spending' = [spending EXCEPT ![r] = NoInvite]
    /\ invited' = invited \cup {r}
    /\ UNCHANGED <<vars, invite, admitted, shared>>

(* SaveInvite with a use more.                                             *)
SpendUse(r) ==
    /\ spending[r] # NoInvite /\ req[r].phase = "saving"
    /\ invite' = [spending[r] EXCEPT !.uses = @ + 1]
    /\ spending' = [spending EXCEPT ![r] = NoInvite]
    /\ invited' = invited \cup {r}
    /\ shared' = (shared \/ invite.uses > spending[r].uses)
    /\ UNCHANGED <<vars, admitted>>

(* The room cannot be read, or the invite not written.                     *)
SpendFails(r) ==
    /\ spending[r] # NoInvite
    /\ spending' = [spending EXCEPT ![r] = NoInvite]
    /\ \/ req[r].phase = "idle" /\ UNCHANGED vars
       \/ SaveFails(r)
    /\ UNCHANGED <<invite, invited, admitted, shared>>

(* The last step of any request.  A use stays spent if SaveRoom fails.     *)
Finish(r) ==
    /\ spending[r] = NoInvite
    /\ Finishing(r)
    /\ invited' = invited \ {r}
    /\ admitted' = IF r \in invited /\ Save(r) THEN admitted + 1 ELSE admitted
    /\ UNCHANGED <<invite, spending, shared>>

Elsewhere ==
    /\ \/ Tick
       \/ \E r \in Req : Free(r) /\ (Queueing(r) \/ Playing(r) \/ Gathering(r))
    /\ UNCHANGED inviteVars

InvitesNext ==
    \/ CreateInvite \/ Elsewhere
    \/ \E r \in Req :
         \/ ReadInvite(r) \/ SpendUse(r) \/ SpendFails(r) \/ Finish(r)
         \/ \E user \in User : Admit(r, user)

InvitesSpec == InvitesInit /\ [][InvitesNext]_allVars

-----------------------------------------------------------------------------
(* Properties.                                                             *)

(* However joins overlap, the count of an invite never passes its limit.   *)
UsesWithinLimit == invite.uses <= invite.maxUses

(* ... and it counts every join, unless a use was written over a newer     *)
(* count: only a lost update lets more people in than the limit says.      *)
JoinsAreCounted == shared \/ admitted <= invite.uses

(* To the room a join by invite is a join like any other: everything that  *)
(* holds for Room holds with invites.                                      *)
JoinsLikeAnyOther == Spec

=============================================================================
