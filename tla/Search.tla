------------------------------- MODULE Search -------------------------------
(***************************************************************************)
(* What the add-song panel promises, whatever answers are late: it is      *)
(* always about one text, says nothing of it until its lookup has ended,   *)
(* and then what came out of it, once.                                     *)
(***************************************************************************)
CONSTANTS
    Text,   \* what may stand in the input, trimmed
    Sought  \* the texts that are looked up

VARIABLES
    text,     \* what the panel is about
    outcome   \* what it says, and of which text

Found == {"songs", "nothing", "failure"}

SearchInit ==
    /\ text \in Text \ Sought
    /\ outcome = <<text, "silent">>

Ask ==
    /\ text' \in Text
    /\ outcome' = <<text', IF text' \in Sought THEN "awaited" ELSE "silent">>

Tell ==
    /\ outcome = <<text, "awaited">>
    /\ outcome' \in {text} \X Found
    /\ UNCHANGED text

SearchNext == Ask \/ Tell

SearchSpec == SearchInit /\ [][SearchNext]_<<text, outcome>>

=============================================================================
