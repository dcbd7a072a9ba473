------------------------------- MODULE Sound -------------------------------
(***************************************************************************)
(* The volume of one listener (pages/Room.tsx): a slider and a mute button *)
(* on the page, the player they are applied to once there is one, and what *)
(* the browser remembers for the next visit.                               *)
(*                                                                         *)
(* Volume is counted in tens, as the slider moves it.                      *)
(***************************************************************************)
EXTENDS Integers

CONSTANTS
    Usual,  \* the volume of a first visit
    Modest  \* the volume of an unmuted silence

Level == 0..10

ASSUME LevelAssumption == Usual \in Level \ {0} /\ Modest \in Level \ {0}

VARIABLES
    sound,   \* volume and mute, as the page has them
    stored,  \* and as the browser has them; volume 0 if it has none
    deck,    \* and as the player has them
    playerReady,   \* the player is there
    due      \* the effect on a change has yet to run

soundVars == <<sound, stored, deck, playerReady, due>>

Setting == [volume : Level, muted : BOOLEAN]

(* The state a page starts with: a stored 0 is as good as none.            *)
Remembered(s) == [s EXCEPT !.volume = IF @ > 0 THEN @ ELSE Usual]

SoundInit ==
    /\ stored = [volume |-> 0, muted |-> FALSE]
    /\ sound = Remembered(stored)
    /\ deck \in Setting
    /\ playerReady = FALSE /\ due = FALSE

(* onReady; the player comes with a volume of its own.                     *)
DeckReady ==
    /\ ~playerReady /\ playerReady' = TRUE /\ due' = TRUE
    /\ deck' \in Setting
    /\ UNCHANGED <<sound, stored>>

(* The effect: nothing is applied, nor stored, without a player.           *)
ApplySound ==
    /\ due /\ due' = FALSE
    /\ deck' = IF playerReady THEN sound ELSE deck
    /\ stored' = IF playerReady THEN sound ELSE stored
    /\ UNCHANGED <<sound, playerReady>>

(* React runs an effect that is due before it renders the next change.     *)
SetSound(s) ==
    /\ ~due /\ due' = (s # sound)
    /\ sound' = s
    /\ UNCHANGED <<stored, deck, playerReady>>

ChangeUnmuted(v) == \* mutant
    SetSound([volume |-> v, muted |-> FALSE])

(* changeVolume: nothing is as good as muted.                              *)
ChangeVolume(v) == SetSound([volume |-> v, muted |-> v = 0])

Drag == \E v \in Level : ChangeVolume(v)

Shown == IF sound.muted THEN 0 ELSE sound.volume

(* handleVolumeKey: arrows, Home and End, from the volume that is shown.   *)
Key ==
    \/ Shown < 10 /\ ChangeVolume(Shown + 1)
    \/ Shown > 0 /\ ChangeVolume(Shown - 1)
    \/ ChangeVolume(0)
    \/ ChangeVolume(10)

ToggleMute ==
    SetSound(IF ~sound.muted THEN [sound EXCEPT !.muted = TRUE]
             ELSE [volume |-> IF sound.volume = 0 THEN Modest ELSE sound.volume,
                   muted |-> FALSE])

(* The page is loaded anew, at any moment.                                 *)
Reload ==
    /\ sound' = Remembered(stored)
    /\ playerReady' = FALSE /\ due' = FALSE
    /\ UNCHANGED <<stored, deck>>

SoundNext == DeckReady \/ ApplySound \/ Drag \/ Key \/ ToggleMute \/ Reload

SoundSpec == SoundInit /\ [][SoundNext]_soundVars

-----------------------------------------------------------------------------

Loudness(s) == IF s.muted THEN 0 ELSE s.volume

SoundTypeOK ==
    /\ sound \in Setting /\ stored \in Setting /\ deck \in Setting
    /\ playerReady \in BOOLEAN /\ due \in BOOLEAN

(* With a player and nothing left to apply, the player is as loud as the   *)
(* slider says, and a reload would leave it so: a stored 0, which reads as *)
(* no volume at all, is never without its mute.                            *)
LoudnessSurvives ==
    playerReady /\ ~due =>
        /\ Loudness(deck) = Shown
        /\ Loudness(Remembered(stored)) = Shown

=============================================================================
