--------------------------- MODULE ChunkRecovery ----------------------------
(* A tab that was opened before a deploy: its lazy chunks are gone with the  *)
(* build they belong to. lib/chunk-recovery.ts reloads the tab, once in a    *)
(* window; error-boundary.tsx offers the reload where it may not.            *)
EXTENDS Naturals, Sequences

CONSTANTS
  Window,    \* RELOAD_WINDOW_MS
  MaxTime,   \* bound: the clock, which starts a window after the epoch
  MaxBuilds  \* bound: deploys

ASSUME WindowAssumption == Window \in Nat

VARIABLES
  deployed,  \* the deployed build, and whether its own chunks resolve
  tab,       \* its build, what is on screen, a reload under way, an import beside the page
  storage,   \* sessionStorage, which survives a reload: whether there is one, and the marker
  now,       \* the clock
  reloads    \* when the tab reloaded by itself

tabVars == <<deployed, tab, storage, now, reloads>>

Document(build) ==
  [build |-> build, screen |-> "loading", reloading |-> FALSE, beside |-> TRUE]

TabInit ==
  /\ deployed = [build |-> 1, sound |-> TRUE] /\ tab = Document(1)
  /\ storage \in [usable : BOOLEAN, marker : {0}] /\ now = Window /\ reloads = <<>>

(* A deploy replaces the chunks of every build before it. *)
Deploy(sound) ==
  /\ deployed.build < MaxBuilds
  /\ deployed' = [build |-> deployed.build + 1, sound |-> sound]
  /\ UNCHANGED <<tab, storage, now, reloads>>

Tick == now < MaxTime /\ now' = now + 1 /\ UNCHANGED <<deployed, tab, storage, reloads>>

Resolves == deployed.sound /\ tab.build = deployed.build

(* A bug: the last reload is compared with the start of the window only.     *)
MayReload_AnyLater == storage.usable /\ now > storage.marker

(* A bug: a tab without a marker counts as one that has just reloaded.       *)
MayReload_NotTheFirst == storage.usable /\ storage.marker > 0 /\ now - storage.marker >= Window

(* True at most once per window, and never without a place to record it. *)
MayReload == storage.usable /\ now - storage.marker >= Window

(* vite:preloadError: the listener reloads the tab, if it may.               *)
preloadError ==
  IF MayReload
  THEN storage' = [storage EXCEPT !.marker = now] /\ reloads' = Append(reloads, now)
  ELSE UNCHANGED <<storage, reloads>>

(* The route on screen asks for its chunk. An import rejects even when the    *)
(* tab reloads, and the boundary takes the place of the page.                *)
ImportPage ==
  /\ tab.screen = "loading"
  /\ IF Resolves
     THEN tab' = [tab EXCEPT !.screen = "page"] /\ UNCHANGED <<storage, reloads>>
     ELSE /\ preloadError
          /\ tab' = [tab EXCEPT !.screen = "boundary", !.reloading = @ \/ MayReload]
  /\ UNCHANGED <<deployed, now>>

(* The measurement main.tsx imports beside the page. *)
ImportBeside ==
  /\ tab.beside
  /\ tab' = [tab EXCEPT !.beside = FALSE, !.reloading = @ \/ (~Resolves /\ MayReload)]
  /\ IF Resolves THEN UNCHANGED <<storage, reloads>> ELSE preloadError
  /\ UNCHANGED <<deployed, now>>

(* A route that has not been loaded yet. *)
OpenRoute ==
  /\ tab.screen = "page"
  /\ tab' = [tab EXCEPT !.screen = "loading"]
  /\ UNCHANGED <<deployed, storage, now, reloads>>

(* The reload that was begun, or the boundary's button: the live build.      *)
Reloaded ==
  /\ tab.reloading /\ tab' = Document(deployed.build)
  /\ UNCHANGED <<deployed, storage, now, reloads>>

PressReload ==
  /\ tab.screen = "boundary" /\ tab' = Document(deployed.build)
  /\ UNCHANGED <<deployed, storage, now, reloads>>

TabNext ==
  \/ \E sound \in BOOLEAN : Deploy(sound)
  \/ Tick \/ ImportPage \/ ImportBeside \/ OpenRoute \/ Reloaded \/ PressReload

(* The browser answers every import and completes every reload; nobody has   *)
(* to press anything.                                                        *)
TabFairness == WF_tabVars(ImportPage) /\ WF_tabVars(Reloaded)

TabSpec == TabInit /\ [][TabNext]_tabVars /\ TabFairness

-----------------------------------------------------------------------------

(* The tab never spins: whatever is deployed, however many of its imports    *)
(* fail and however often a person reloads it, its own reloads are a window  *)
(* apart (chunk-recovery.ts 3-6, "Reloading again would spin").              *)
NoSpin ==
  \A i, j \in DOMAIN reloads : i < j => reloads[j] - reloads[i] >= Window

(* A tab that meets its first retired chunk ends on its page without anyone's *)
(* help, once deploys stop at a sound build (chunk-recovery.ts 13-16).       *)
RecoversAlone ==
  (/\ storage.usable /\ storage.marker = 0 /\ tab.screen = "loading"
   /\ deployed.build = MaxBuilds /\ deployed.sound)
    ~> tab.screen = "page"
=============================================================================
