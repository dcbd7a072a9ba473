--------------------------- MODULE InvitesProofs ---------------------------
(***************************************************************************)
(* Proofs about Invites: joins by invite are requests like any other, so   *)
(* that what RoomProofs shows of the room holds with them; and no invite   *)
(* is spent beyond its limit, however many requests overlap.               *)
(***************************************************************************)
EXTENDS Invites, RoomProofs

(* A step of Invites is a step of Room, or leaves the room alone.          *)
LEMMA StepsAreRequests == InvitesNext => [Next]_vars
<1> SUFFICES ASSUME InvitesNext PROVE [Next]_vars
  OBVIOUS
<1>1. CASE CreateInvite
  BY <1>1 DEF CreateInvite
<1>2. CASE Elsewhere
  BY <1>2 DEF Elsewhere, Next
<1>3. ASSUME NEW r \in Req, ReadInvite(r) \/ SpendUse(r) \/ SpendFails(r)
      PROVE  [Next]_vars
  BY <1>3 DEF ReadInvite, SpendUse, SpendFails, Next, Finishing
<1>4. ASSUME NEW r \in Req, Finish(r)
      PROVE  [Next]_vars
  BY <1>4 DEF Finish, Next
<1>5. ASSUME NEW r \in Req, NEW user \in User, Admit(r, user)
      PROVE  [Next]_vars
  <2>1. JoinRoom(r)
    BY <1>5 DEF Admit, JoinRoom
  <2> QED BY <2>1 DEF Next, Gathering
<1> QED BY <1>1, <1>2, <1>3, <1>4, <1>5 DEF InvitesNext

(* The room does not tell a join by invite from one by code.               *)
THEOREM JoinsLikeAnyOtherHolds == InvitesSpec => JoinsLikeAnyOther
<1>1. InvitesInit => Init
  BY DEF InvitesInit
<1>2. [InvitesNext]_allVars => [Next]_vars
  BY StepsAreRequests DEF allVars
<1> QED BY <1>1, <1>2, PTL DEF InvitesSpec, JoinsLikeAnyOther, Spec

(* With invites too, whatever overlaps and fails, no stored room or copy   *)
(* has duplicates, dishonest vote counts or a roster without the host.     *)
THEOREM WellFormedWithInvites == InvitesSpec => []AlwaysWellFormed
BY JoinsLikeAnyOtherHolds, AlwaysWellFormedHolds, PTL DEF JoinsLikeAnyOther

-----------------------------------------------------------------------------
Token == [uses : Nat, maxUses : Nat, expires : Nat]

(* What a request has read is checked: it has a use left.  That alone      *)
(* keeps the count, since what is written is what was read and one more.   *)
UsesLeft ==
    /\ now \in Nat
    /\ invite \in Token /\ UsesWithinLimit
    /\ spending \in [Req -> Token]
    /\ \A r \in Req : spending[r] # NoInvite => spending[r].uses < spending[r].maxUses

LEMMA UsesLeftInit == InvitesInit => UsesLeft
BY DEF InvitesInit, Init, UsesLeft, UsesWithinLimit, NoInvite, Token

LEMMA UsesLeftStep == UsesLeft /\ [InvitesNext]_allVars => UsesLeft'
<1> SUFFICES ASSUME UsesLeft, [InvitesNext]_allVars PROVE UsesLeft'
  OBVIOUS
<1> USE InviteAssumption DEF UsesLeft, UsesWithinLimit, Token
<1>0. NoInvite \in Token
  BY DEF NoInvite
<1>1. CASE CreateInvite
  <2>1. PICK max \in 1..MaxUses, valid \in 1..MaxValid :
          invite' = [uses |-> 0, maxUses |-> max, expires |-> now + valid]
    BY <1>1 DEF CreateInvite
  <2>2. spending' = spending /\ now' = now
    BY <1>1 DEF CreateInvite, vars
  <2> QED BY <2>1, <2>2
<1>2. CASE Elsewhere
  <2>1. ASSUME NEW r \in Req, Queueing(r)
        PROVE  now' = now
    BY <2>1 DEF Queueing, AddQueueItem, AddQueueBatch, VoteQueueItem, DeleteQueueItem, Plainly, Prepare
  <2>2. ASSUME NEW r \in Req, Playing(r)
        PROVE  now' = now
    <3>1. CASE NextQueueItem(r)
      BY <3>1 DEF NextQueueItem, Prepare
    <3>2. CASE PlayNowSong(r) \/ PlaybackControl(r)
      BY <3>2 DEF PlayNowSong, PlaybackControl, Plainly, Prepare
    <3>3. CASE PlaybackEvent(r)
      BY <3>3 DEF PlaybackEvent, Plainly, Prepare
    <3> QED BY <2>2, <3>1, <3>2, <3>3 DEF Playing
  <2>3. ASSUME NEW r \in Req, Gathering(r)
        PROVE  now' = now
    BY <2>3 DEF Gathering, JoinRoom, RemoveFromRoom, Plainly, Prepare
  <2>4. now' \in Nat
    BY <1>2, <2>1, <2>2, <2>3 DEF Elsewhere, Tick
  <2> QED BY <1>2, <2>4 DEF Elsewhere, inviteVars
<1>3. ASSUME NEW r \in Req, ReadInvite(r)
      PROVE  UsesLeft'
  BY <1>3 DEF ReadInvite, Usable, vars
<1>4. ASSUME NEW r \in Req, SpendFails(r)
      PROVE  UsesLeft'
  BY <1>0, <1>4 DEF SpendFails, SaveFails, vars
<1>5. ASSUME NEW r \in Req, Finish(r)
      PROVE  UsesLeft'
  BY <1>5 DEF Finish, Finishing, Save, SaveFails, Publish, PublishFails
<1>6. ASSUME NEW r \in Req, SpendUse(r)
      PROVE  UsesLeft'
  <2>1. now' = now
    BY <1>6 DEF SpendUse, vars
  <2>2. invite' \in Token /\ invite'.uses <= invite'.maxUses
    <3>1. PICK t \in Token : t = spending[r]
      OBVIOUS
    <3>2. t.uses < t.maxUses
      BY <1>6, <3>1 DEF SpendUse
    <3>3. invite' = [t EXCEPT !.uses = t.uses + 1]
      BY <1>6, <3>1 DEF SpendUse
    <3> QED BY <3>2, <3>3
  <2>3. spending' = [spending EXCEPT ![r] = NoInvite]
    BY <1>6 DEF SpendUse
  <2> QED BY <1>0, <2>1, <2>2, <2>3
<1>7. ASSUME NEW r \in Req, NEW user \in User, Admit(r, user)
      PROVE  UsesLeft'
  BY <1>7 DEF Admit, Plainly, Prepare, inviteVars
<1>8. CASE UNCHANGED allVars
  BY <1>8 DEF allVars, inviteVars, vars
<1> QED BY <1>1, <1>2, <1>3, <1>4, <1>5, <1>6, <1>7, <1>8 DEF InvitesNext

(* No invite is ever spent beyond its limit.                               *)
THEOREM UsesWithinLimitHolds == InvitesSpec => []UsesWithinLimit
<1>1. UsesLeft => UsesWithinLimit
  BY DEF UsesLeft
<1> QED BY <1>1, UsesLeftInit, UsesLeftStep, PTL DEF InvitesSpec

-----------------------------------------------------------------------------

(* The joins that have spent a use and are not yet saved are counted too.  *)
Counted ==
    /\ IsFiniteSet(invited) /\ admitted \in Nat
    /\ \A r \in Req : r \in invited => spending[r] = NoInvite /\ req[r].phase # "idle"
    /\ shared \/ admitted + Cardinality(invited) <= invite.uses

LEMMA CountedInit == InvitesInit => Counted
<1>1. IsFiniteSet({}) /\ Cardinality({}) = 0
  BY FS_EmptySet
<1> QED BY <1>1 DEF InvitesInit, Counted, NoInvite

(* A use that is written pays for a join before the room lets it in.       *)
LEMMA CountedStep ==
    ASSUME TypeOK, UsesLeft, Counted, [InvitesNext]_allVars
    PROVE  Counted'
<1> USE DEF Counted
<1>0. /\ Cardinality(invited) \in Nat
      /\ \A r : /\ IsFiniteSet(invited \ {r}) /\ IsFiniteSet(invited \cup {r})
                /\ Cardinality(invited \ {r}) =
                     IF r \in invited THEN Cardinality(invited) - 1 ELSE Cardinality(invited)
                /\ r \notin invited =>
                     Cardinality(invited \cup {r}) = Cardinality(invited) + 1
  BY FS_CardinalityType, FS_AddElement, FS_RemoveElement
<1>1. CASE CreateInvite
  <2>1. /\ invite.uses = 0 /\ invite'.uses = 0
        /\ UNCHANGED <<vars, spending, invited, admitted, shared>>
    BY <1>1 DEF CreateInvite, NoInvite
  <2>2. invited' = invited /\ spending' = spending /\ admitted' = admitted /\ shared' = shared /\ req' = req
    BY <2>1 DEF vars
  <2> QED BY <2>1, <2>2
<1>2. CASE Elsewhere \/ UNCHANGED allVars
  <2>1. UNCHANGED inviteVars
    BY <1>2 DEF Elsewhere, allVars
  <2>2. \A q \in Req : req[q].phase # "idle" => req'[q].phase # "idle"
    <3>1. CASE Tick \/ UNCHANGED allVars
      BY <3>1 DEF Tick, allVars, vars
    <3>2. ASSUME NEW r \in Req, Queueing(r) \/ Playing(r) \/ Gathering(r)
          PROVE  \A q \in Req : req[q].phase # "idle" => req'[q].phase # "idle"
      BY <3>2, HandlersPrepare DEF Prepare, TypeOK
    <3> QED BY <1>2, <3>1, <3>2 DEF Elsewhere
  <2> QED BY <2>1, <2>2 DEF inviteVars
<1>3. ASSUME NEW r \in Req, ReadInvite(r)
      PROVE  Counted'
  BY <1>3 DEF ReadInvite, Free, UsesLeft, vars
<1>4. ASSUME NEW r \in Req, SpendFails(r)
      PROVE  Counted'
  BY <1>4 DEF SpendFails, SaveFails, UsesLeft, TypeOK, vars
<1>5. ASSUME NEW r \in Req, SpendUse(r)
      PROVE  Counted'
  <2>1. /\ r \notin invited /\ spending' = [spending EXCEPT ![r] = NoInvite]
        /\ invited' = invited \cup {r} /\ admitted' = admitted
        /\ shared' = (shared \/ invite.uses > spending[r].uses)
        /\ invite' = [spending[r] EXCEPT !.uses = @ + 1]
    BY <1>5 DEF SpendUse
  <2>5. req' = req /\ req[r].phase # "idle"
    BY <1>5 DEF SpendUse, vars
  <2>2. /\ invite'.uses = spending[r].uses + 1
        /\ invite.uses \in Nat /\ spending[r].uses \in Nat
    BY <2>1 DEF UsesLeft, Token
  <2>3. \A q \in Req : q \in invited' => spending'[q] = NoInvite /\ req'[q].phase # "idle"
    BY <2>1, <2>5 DEF UsesLeft
  <2>4. shared' \/ admitted' + Cardinality(invited') <= invite'.uses
    <3>1. Cardinality(invited') = Cardinality(invited) + 1
      BY <1>0, <2>1
    <3>2. shared' \/ (~shared /\ invite.uses <= spending[r].uses)
      <4>1. invite.uses > spending[r].uses \/ invite.uses <= spending[r].uses
        BY <2>2
      <4> QED BY <2>1, <4>1, Zenon
    <3> QED BY <1>0, <2>1, <2>2, <3>1, <3>2
  <2> QED BY <1>0, <2>1, <2>3, <2>4
<1>6. ASSUME NEW r \in Req, Finish(r)
      PROVE  Counted'
  <2>1. /\ invited' = invited \ {r} /\ UNCHANGED <<invite, spending, shared>>
        /\ admitted' = admitted \/ (r \in invited /\ admitted' = admitted + 1)
    BY <1>6 DEF Finish
  <2>2. invite.uses \in Nat
    BY DEF UsesLeft, Token
  <2>3. \A q \in Req \ {r} : req'[q] = req[q]
    BY <1>6 DEF Finish, Finishing, Save, SaveFails, Publish, PublishFails, Announced, TypeOK
  <2>4. IsFiniteSet(invited') /\ admitted' \in Nat
    BY <1>0, <2>1
  <2>5. \A q \in Req : q \in invited' => spending'[q] = NoInvite /\ req'[q].phase # "idle"
    BY <2>1, <2>3
  <2>6. shared' \/ admitted' + Cardinality(invited') <= invite'.uses
    <3>1. CASE r \in invited
      <4>1. Cardinality(invited') = Cardinality(invited) - 1
        BY <1>0, <2>1, <3>1
      <4> QED BY <1>0, <2>1, <2>2, <4>1
    <3>2. CASE r \notin invited
      <4>1. Cardinality(invited') = Cardinality(invited)
        BY <1>0, <2>1, <3>2
      <4> QED BY <1>0, <2>1, <2>2, <3>2, <4>1
    <3> QED BY <3>1, <3>2
  <2> QED BY <2>4, <2>5, <2>6
<1>7. ASSUME NEW r \in Req, NEW user \in User, Admit(r, user)
      PROVE  Counted'
  <2>1. UNCHANGED inviteVars /\ \A q \in Req \ {r} : req'[q] = req[q]
    BY <1>7 DEF Admit, Plainly, Prepare, TypeOK
  <2>2. req[r].phase = "idle"
    BY <1>7 DEF Admit, Plainly, Prepare
  <2> QED BY <2>1, <2>2 DEF inviteVars
<1> QED BY <1>1, <1>2, <1>3, <1>4, <1>5, <1>6, <1>7 DEF InvitesNext

(* Unless a use is lost to a newer count, an invite lets in no more people *)
(* than it counts.                                                         *)
THEOREM JoinsAreCountedHolds == InvitesSpec => []JoinsAreCounted
<1>0. InvitesSpec => []TypeOK
  BY JoinsLikeAnyOtherHolds, TypeCorrect, PTL DEF JoinsLikeAnyOther
<1>1. InvitesSpec => []Counted
  BY <1>0, UsesLeftInit, UsesLeftStep, CountedInit, CountedStep, PTL DEF InvitesSpec
<1>2. UsesLeft /\ Counted => JoinsAreCounted
  <2> SUFFICES ASSUME UsesLeft, Counted, ~shared PROVE admitted <= invite.uses
    BY DEF JoinsAreCounted
  <2>1. Cardinality(invited) \in Nat
    BY FS_CardinalityType DEF Counted
  <2> QED BY <2>1 DEF Counted, UsesLeft, Token
<1> QED BY <1>1, <1>2, UsesLeftInit, UsesLeftStep, PTL DEF InvitesSpec

=============================================================================
