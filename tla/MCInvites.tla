----------------------------- MODULE MCInvites -----------------------------
(* A room that people only join, by its code or by an invite, and leave.   *)
EXTENDS Invites

CONSTANTS s1, host, guest, friend, r1, r2

MCDuration == [s \in Song |-> 2]
RosterKinds == {"join", "remove"}

=============================================================================
