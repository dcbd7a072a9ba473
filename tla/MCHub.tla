------------------------------- MODULE MCHub -------------------------------
(* Small instances of Hub: a socket for each of two users.  That a user    *)
(* with several sockets counts once is shown by the proof for any number.  *)
EXTENDS Hub, TLC

CONSTANTS c1, c2, alice, bob

MCUserOf == c1 :> alice @@ c2 :> bob

=============================================================================
