---------------------------- MODULE MCPageParts ----------------------------
(* Parts of the page that share no state: in each behaviour one of them    *)
(* acts and the others rest, so that the states add up.                    *)
EXTENDS RoomSocket, AddSong, Sound, Scene, Roster, Clock

CONSTANTS a, b, v, l, blank, single, k1, k2, k3, k4, k5, t1, g1, g2, j1, j2

VARIABLE part

MCSkew == {-1, 0, 2}

parts == <<part, vars, panelVars, soundVars, sceneVars, rosterVars, clockVars>>

PartsInit ==
    /\ part \in {"socket", "panel", "sound", "scene", "roster", "clock"}
    /\ Init /\ PanelInit /\ SoundInit /\ SceneInit /\ RosterInit /\ ClockInit
    /\ part # "sound" => deck = sound
    /\ part # "scene" => ~still
    /\ part # "clock" => skew = 0

PartsNext ==
    /\ UNCHANGED part
    /\ \/ /\ part = "socket" /\ Next
          /\ UNCHANGED <<panelVars, soundVars, sceneVars, rosterVars, clockVars>>
       \/ /\ part = "panel" /\ PanelNext
          /\ UNCHANGED <<vars, soundVars, sceneVars, rosterVars, clockVars>>
       \/ /\ part = "sound" /\ SoundNext
          /\ UNCHANGED <<vars, panelVars, sceneVars, rosterVars, clockVars>>
       \/ /\ part = "scene" /\ SceneNext
          /\ UNCHANGED <<vars, panelVars, soundVars, rosterVars, clockVars>>
       \/ /\ part = "roster" /\ RosterNext
          /\ UNCHANGED <<vars, panelVars, soundVars, sceneVars, clockVars>>
       \/ /\ part = "clock" /\ ClockNext
          /\ UNCHANGED <<vars, panelVars, soundVars, sceneVars, rosterVars>>

PartsSpec == PartsInit /\ [][PartsNext]_parts /\ PanelFairness

=============================================================================
