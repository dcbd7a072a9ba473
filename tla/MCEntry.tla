------------------------------ MODULE MCEntry ------------------------------
(* A browser with two tabs; others are out of sight.                       *)
EXTENDS Entry, TLC

CONSTANTS b1, t1, t2, c1

MCBrowserOf == t1 :> b1 @@ t2 :> b1

=============================================================================
