------------------------------- MODULE Scene -------------------------------
(***************************************************************************)
(* The animation behind the room (components/RoomAtmosphere.tsx).  Each    *)
(* run of its effect imports the renderer, builds a scene out of several   *)
(* things the browser does not free by itself, and draws it frame by frame *)
(* until the clean-up, which may come before any of this.                  *)
(***************************************************************************)
EXTENDS Naturals

CONSTANT MaxRuns  \* bound on runs of the effect (one per mount)

ASSUME RunsAssumption == MaxRuns \in Nat

Run == 1..MaxRuns

VARIABLES
    runs,       \* how many runs there have been
    phase,      \* where the import of each run stands
    cancelled,  \* runs that were cleaned up
    cleanup,    \* runs that have a scene to clean up
    held,       \* what each run holds of the browser
    frame,      \* runs with a frame to draw
    still       \* the visitor prefers no motion

sceneVars == <<runs, phase, cancelled, cleanup, held, frame, still>>

SceneInit ==
    /\ runs = 0
    /\ phase = [r \in Run |-> "none"]
    /\ cancelled = {} /\ cleanup = {} /\ frame = {}
    /\ held = [r \in Run |-> {}]
    /\ still \in BOOLEAN

Mounted == runs > 0 /\ runs \notin cancelled

Current(r) == r = runs /\ Mounted

(* The effect runs when the page appears, and after its own clean-up.      *)
Mount ==
    /\ ~Mounted /\ runs < MaxRuns
    /\ runs' = runs + 1
    /\ phase' = [phase EXCEPT ![runs'] = "importing"]
    /\ UNCHANGED <<cancelled, cleanup, held, frame, still>>

Canvas == {"renderer", "canvas", "buffers"}

Whole == Canvas \cup {"observer"} \cup (IF still THEN {} ELSE {"listener"})

(* What mountScene has acquired where it may throw: building the scene, or *)
(* drawing it for the first time.                                          *)
Partial == {{"renderer"}, {"renderer", "canvas"}, Canvas, Whole}

MountsAnyway(r) == TRUE \* mutant

Wanted(r) == r \notin cancelled

(* mountScene, with its first frame.  A browser without WebGL gets none.   *)
SceneImported(r) ==
    /\ phase[r] = "importing"
    /\ UNCHANGED <<runs, cancelled, still>>
    /\ \/ /\ ~Wanted(r)
          /\ phase' = [phase EXCEPT ![r] = "idle"]
          /\ UNCHANGED <<cleanup, held, frame>>
       \/ /\ Wanted(r)
          /\ phase' = [phase EXCEPT ![r] = "unavailable"]
          /\ cleanup' = cleanup \cup {r}
          /\ UNCHANGED <<held, frame>>
       \/ /\ Wanted(r)
          /\ phase' = [phase EXCEPT ![r] = "drawn"]
          /\ cleanup' = cleanup \cup {r}
          /\ held' = [held EXCEPT ![r] = Whole]
          /\ frame' = IF still THEN frame ELSE frame \cup {r}

(* It throws before it returns a clean-up: what it holds stays held.       *)
MountThrows(r) ==
    /\ phase[r] = "importing" /\ Wanted(r)
    /\ phase' = [phase EXCEPT ![r] = "thrown"]
    /\ \E things \in Partial : held' = [held EXCEPT ![r] = things]
    /\ UNCHANGED <<runs, cancelled, cleanup, frame, still>>

SceneImportFails(r) ==
    /\ phase[r] = "importing"
    /\ phase' = [phase EXCEPT ![r] = "unavailable"]
    /\ UNCHANGED <<runs, cancelled, cleanup, held, frame, still>>

(* A frame is drawn and asks for the next one; or it throws, and no other  *)
(* follows.                                                                *)
DrawFrame(r) ==
    /\ r \in frame
    /\ frame' \in {frame, frame \ {r}}
    /\ UNCHANGED <<runs, phase, cancelled, cleanup, held, still>>

(* What mountScene returns.  It disposes of all it has built but the grid, *)
(* and what it has forgotten goes with the context that it gives up.       *)
FreeScene(r) ==
    /\ frame' = frame \ {r}
    /\ held' = [held EXCEPT ![r] = {}]

(* The clean-up of the effect, and of the scene if there is one.           *)
Unmount ==
    /\ Mounted
    /\ cancelled' = cancelled \cup {runs}
    /\ IF runs \in cleanup THEN FreeScene(runs) ELSE UNCHANGED <<frame, held>>
    /\ UNCHANGED <<runs, phase, cleanup, still>>

SceneNext ==
    \/ Mount \/ Unmount
    \/ \E r \in Run : SceneImported(r) \/ MountThrows(r) \/ SceneImportFails(r) \/ DrawFrame(r)

SceneSpec == SceneInit /\ [][SceneNext]_sceneVars

-----------------------------------------------------------------------------

SceneTypeOK ==
    /\ runs \in 0..MaxRuns
    /\ phase \in [Run -> {"none", "importing", "idle", "unavailable", "drawn", "thrown"}]
    /\ cancelled \subseteq 1..runs /\ cleanup \subseteq Run /\ frame \subseteq Run
    /\ held \in [Run -> SUBSET (Canvas \cup {"observer", "listener"})]
    /\ still \in BOOLEAN

(* A run that was cleaned up, however late its import is, holds nothing    *)
(* and draws nothing, unless building its scene threw; so there is one     *)
(* canvas at a time, and it is that of the page that is there.             *)
SceneFreed ==
    \A r \in Run :
        /\ r \in frame => Current(r)
        /\ held[r] # {} => Current(r) \/ phase[r] = "thrown"

=============================================================================
