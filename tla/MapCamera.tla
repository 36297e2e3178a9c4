------------------------------ MODULE MapCamera ------------------------------
(***************************************************************************)
(* Where the map looks, and who decides it: the view the composition       *)
(* states, the user's hands on the map, and the controls of the bar that   *)
(* work on the map (src/map/composition-map-view.ts,                       *)
(* src/elements/studio-control-bar-element.ts, studio-canvas-element.ts).  *)
(*                                                                         *)
(* A view states some of a box, a centre and a zoom; what it does not      *)
(* state stays as it is on the map.  A composed view is eased to, by an    *)
(* update that runs some time after the change; the user may move the map  *)
(* at any time.  Saving a version reads the camera back into the view      *)
(* (studio-workspace.ts).                                                  *)
(***************************************************************************)
EXTENDS Integers, TLC

CONSTANTS
    Views,              \* what setView may state: functions on "bbox", "center", "zoom"
    Bookmarks,          \* those of them a bookmark of the bar states
    Centers,            \* where the user may drag the map to, or be
    World,              \* the centre of a map nobody moved
    Somewhere,          \* on the way from one camera to another
    MaxZoom,            \* the reducer's bound on a zoom
    FitZoom,            \* the zoom at which a box fits
    Measures,           \* the measure controls a composition may have
    Bases,              \* the basemaps of a switcher
    None,
    MaxGestures,        \* bound on what the user does
    MaxChanges,         \* bound on what the agent does
    MaxUpsets           \* bound on restarts, failures and other drafts

VARIABLES
    view,       \* the composition's view
    map,        \* "none", "starting" or "ready"
    initial,    \* the view a starting map was projected with
    camera,     \* where the map looks, or where it left from
    ease,       \* the transition under way, and whether a composed view asked for it
    applied,    \* #appliedView
    pending,    \* #authoredViewPending
    behind,     \* an update of the map is scheduled
    failed,     \* the last update did not apply its style
    saving,     \* a save of the camera: None, "waiting", "reading" or "writing"
    captured,   \* the camera it read, and whether a composed transition was under way
    controls,   \* the measure controls of the composition
    measure,    \* #measure: control -> measuring or not
    error,      \* #commandError is shown
    locating,   \* the browser was asked where the user is
    choice,     \* #basemapChoice
    basemap,    \* what the map view was given
    importing,  \* the palette of a chosen basemap is being loaded
    click,      \* the last click on a feature
    panned,     \* where the user left the map, until somebody else decides
    asked,      \* the bookmark that was clicked last, until somebody else decides
    decided,    \* what the composition states was applied after the user's last gesture
    moves       \* gestures, changes and upsets so far

cameraVars == <<view, map, initial, camera, ease, applied, pending, behind, failed, saving,
                captured, controls, measure, error, locating, choice, basemap, importing, click,
                panned, asked, decided, moves>>

\* What a step on one side leaves alone on the other.
lookVars == <<map, initial, camera, ease, applied, pending>>
barVars == <<controls, measure, locating, choice, basemap, importing, click>>
saveVars == <<saving, captured>>

-----------------------------------------------------------------------------
(* Views and cameras                                                       *)

Spend(n) == moves[n] < <<MaxGestures, MaxChanges, MaxUpsets>>[n]
            /\ moves' = [moves EXCEPT ![n] = @ + 1]

States(v, part) == part \in DOMAIN v

(* applySetView: what it may not state, and what it leaves of a former box. *)
InBounds(v) == States(v, "zoom") => v.zoom \in {Somewhere} \cup 0..MaxZoom

WithView(old, v) ==
    LET next == v @@ old IN
    IF States(v, "center") /\ ~States(v, "bbox")
    THEN [part \in DOMAIN next \ {"bbox"} |-> next[part]]
    ELSE next

(* fitBounds, or compositionCameraOptions on the camera there is.          *)
CameraOf(v, c) ==
    IF States(v, "bbox") THEN [center |-> v.bbox, zoom |-> FitZoom]
    ELSE [center |-> IF States(v, "center") THEN v.center ELSE c.center,
          zoom |-> IF States(v, "zoom") THEN v.zoom ELSE c.zoom]

Shows(v, c) == c = CameraOf(v, c)

(* camera(): in a transition, wherever it has come to.                     *)
Live == IF ease = None THEN camera ELSE [center |-> Somewhere, zoom |-> Somewhere]

Target == IF ease = None THEN camera ELSE ease.to

(* The bar's view of the map (#mapBridge), and what it draws for it.       *)
Usable == map = "ready"
NavigationDrawn == Usable
GeolocateDrawn == Usable
BasemapsDrawn == Usable
MeasureDrawn(m) == Usable /\ m \in controls

(* Mutated: the zoom is not compared.                                      *)
SameButZoom(v, w) ==
    /\ DOMAIN v \ {"zoom"} = DOMAIN w \ {"zoom"}
    /\ \A part \in DOMAIN v \ {"zoom"} : v[part] = w[part]

(* viewsEqual                                                              *)
ViewsEqual(v, w) == v = w

(* #applyView at once: the map jumps, which ends any transition.           *)
JumpTo(v) ==
    /\ pending' = FALSE
    /\ IF DOMAIN v = {} THEN UNCHANGED <<camera, ease>>
       ELSE camera' = CameraOf(v, Live) /\ ease' = None

(* Mutated: the transition is not remembered as the composition's.         *)
EaseUnmarked(v) ==
    /\ pending' = FALSE
    /\ IF DOMAIN v = {} THEN UNCHANGED <<camera, ease>>
       ELSE /\ camera' = Live
            /\ ease' = [to |-> CameraOf(v, Live), composed |-> TRUE]

(* #applyView with a duration.                                             *)
EaseTo(v) ==
    /\ pending' = (DOMAIN v # {})
    /\ IF DOMAIN v = {} THEN UNCHANGED <<camera, ease>>
       ELSE /\ camera' = Live
            /\ ease' = [to |-> CameraOf(v, Live), composed |-> TRUE]

CameraInit ==
    /\ view = << >> /\ map = "none" /\ initial = None
    /\ camera = [center |-> World, zoom |-> 0]
    /\ ease = None /\ applied = None /\ pending = FALSE /\ behind = FALSE /\ failed = FALSE
    /\ saving = None /\ captured = None
    /\ controls = Measures /\ measure = [m \in Measures |-> FALSE]
    /\ error = FALSE /\ locating = FALSE
    /\ choice = None /\ basemap = None /\ importing = None
    /\ click = None /\ panned = None /\ asked = None /\ decided = TRUE
    /\ moves = <<0, 0, 0>>

-----------------------------------------------------------------------------
(* The map                                                                 *)

(* start(): the styles are awaited, with the view they were projected with. *)
BeginStart ==
    /\ map = "none"
    /\ map' = "starting"
    /\ initial' = view
    /\ UNCHANGED <<view, camera, ease, applied, pending, behind, failed, saveVars, barVars,
                   error, panned, asked, decided, moves>>

(* The map is there: it was made at the first view, and jumps to this one. *)
FinishStart ==
    /\ map = "starting"
    /\ map' = "ready" /\ initial' = None
    /\ LET made == IF States(initial, "bbox") THEN [center |-> World, zoom |-> 0]
                   ELSE CameraOf(initial, [center |-> World, zoom |-> 0])
       IN  camera' = CameraOf(view, made)
    /\ ease' = None /\ pending' = FALSE
    /\ applied' = view
    /\ behind' = (initial # view) /\ failed' = FALSE
    /\ panned' = None /\ decided' = TRUE
    /\ UNCHANGED <<view, saveVars, barVars, error, asked, moves>>

(* #restartMapView, and the basemap goes with the map view.                *)
Restart ==
    /\ Spend(3)
    /\ map # "none"
    /\ map' = "none" /\ initial' = None
    /\ ease' = None /\ applied' = None /\ pending' = FALSE /\ behind' = FALSE
    /\ basemap' = None /\ importing' = None
    /\ saving' = IF saving \in {"waiting", "reading"} THEN None ELSE saving
    /\ panned' = None
    /\ UNCHANGED <<view, camera, failed, captured, controls, measure, error, locating, choice,
                   click, asked, decided>>

(* Mutated: every update takes the map to the composed view.               *)
MoveAlways ==
    /\ applied' = view
    /\ EaseTo(view)
    /\ decided' = TRUE

(* #update, after the style: the view is applied if it is another one.     *)
MoveToView ==
    IF ViewsEqual(view, applied) THEN UNCHANGED <<applied, camera, ease, pending, decided>>
    ELSE /\ applied' = view
         /\ EaseTo(view)
         /\ decided' = TRUE

Update ==
    /\ map = "ready" /\ behind
    /\ MoveToView
    /\ behind' = FALSE /\ failed' = FALSE
    /\ saving' = IF saving = "waiting" THEN "reading" ELSE saving
    /\ UNCHANGED <<view, map, initial, captured, barVars, error, panned, asked, moves>>

(* #update: the map did not take the style, so its view is not applied.    *)
UpdateFails ==
    /\ Spend(3)
    /\ map = "ready" /\ behind
    /\ behind' = FALSE /\ failed' = TRUE
    /\ saving' = IF saving = "waiting" THEN "reading" ELSE saving
    /\ UNCHANGED <<view, lookVars, captured, barVars, error, panned, asked, decided>>

(* "moveend": the transition is over.                                      *)
MoveEnd ==
    /\ ease # None
    /\ camera' = ease.to /\ ease' = None /\ pending' = FALSE
    /\ UNCHANGED <<view, map, initial, applied, behind, failed, saveVars, barVars, error,
                   panned, asked, decided, moves>>

-----------------------------------------------------------------------------
(* The user's hands                                                        *)

(* What the user does to the map stays, unless a view is on its way.       *)
Left(c) ==
    /\ panned' = IF view = applied THEN c ELSE None
    /\ asked' = None
    /\ decided' = FALSE

(* The map is dragged, which ends a transition ("moveend").                *)
Drag(p) ==
    /\ Spend(1)
    /\ map = "ready"
    /\ camera' = [Live EXCEPT !.center = p] /\ ease' = None /\ pending' = FALSE
    /\ Left(camera')
    /\ UNCHANGED <<view, map, initial, applied, behind, failed, saveVars, barVars, error>>

(* The navigation control: nudgeCamera moves the map and nothing else.     *)
Nudge(by) ==
    /\ Spend(1)
    /\ NavigationDrawn
    /\ LET zoom == IF Live.zoom = Somewhere THEN Somewhere
                   ELSE IF Live.zoom + by < 0 THEN 0
                   ELSE IF Live.zoom + by > MaxZoom THEN MaxZoom ELSE Live.zoom + by
       IN  ease' = [to |-> [Live EXCEPT !.zoom = zoom], composed |-> FALSE]
    /\ camera' = Live /\ pending' = FALSE
    /\ Left(ease'.to)
    /\ UNCHANGED <<view, map, initial, applied, behind, failed, saveVars, barVars, error>>

(* A click on a feature: every measure that is on takes the point, and the *)
(* feature is selected unless one is (isMeasuring).                        *)
Click ==
    /\ Spend(1)
    /\ map = "ready"
    /\ click' = [selected |-> \A m \in Measures : ~measure[m],
                 measured |-> \E m \in controls : measure[m]]
    /\ UNCHANGED <<view, lookVars, behind, failed, saveVars, controls, measure, error, locating,
                   choice, basemap, importing, panned, asked, decided>>

-----------------------------------------------------------------------------
(* The bar                                                                 *)

(* A view the composition takes, and the listeners are told.  If the map   *)
(* has not applied the one before, it may be taken for applied already.    *)
Compose(v) ==
    /\ view' = WithView(view, v)
    /\ decided' = (decided /\ applied = view)
    /\ behind' = (map = "ready")
    /\ panned' = IF view' = view THEN panned ELSE None

(* #applyIntrinsic: a bookmark is a setView, which may be refused.         *)
ApplyBookmark(b) ==
    /\ Spend(1)
    /\ IF InBounds(b) THEN Compose(b) /\ error' = FALSE /\ asked' = b
       ELSE error' = TRUE /\ UNCHANGED <<view, behind, panned, asked, decided>>
    /\ UNCHANGED <<lookVars, failed, saveVars, barVars>>

(* #geolocate: the browser is asked.                                       *)
Geolocate ==
    /\ Spend(1)
    /\ GeolocateDrawn /\ ~locating
    /\ locating' = TRUE
    /\ UNCHANGED <<view, lookVars, behind, failed, saveVars, controls, measure, error, choice,
                   basemap, importing, click, panned, asked, decided>>

(* It answers, whatever composition is shown by then.                      *)
Located(p) ==
    /\ locating
    /\ locating' = FALSE
    /\ Compose([center |-> p, zoom |-> MaxZoom])
    /\ error' = FALSE /\ asked' = None
    /\ UNCHANGED <<lookVars, failed, saveVars, controls, measure, choice, basemap, importing,
                   click, moves>>

(* It will not say.                                                        *)
NotLocated ==
    /\ locating
    /\ locating' = FALSE /\ error' = TRUE
    /\ UNCHANGED <<view, lookVars, behind, failed, saveVars, controls, measure, choice, basemap,
                   importing, click, panned, asked, decided, moves>>

(* #switchBasemap: the choice is marked, the palette loaded.               *)
SwitchBasemap(base) ==
    /\ Spend(1)
    /\ BasemapsDrawn
    /\ choice' = base
    /\ importing' = base
    /\ UNCHANGED <<view, lookVars, behind, failed, saveVars, controls, measure, error, locating,
                   basemap, click, panned, asked, decided>>

(* #applyBasemapOption, and setBasemap schedules an update.                *)
BasemapLoaded ==
    /\ importing # None
    /\ basemap' = importing /\ importing' = None
    /\ behind' = TRUE
    /\ UNCHANGED <<view, lookVars, failed, saveVars, controls, measure, error, locating, choice,
                   click, panned, asked, decided, moves>>

(* The measure control's button, which a map is needed for.                *)
ToggleMeasure(m) ==
    /\ Spend(1)
    /\ MeasureDrawn(m)
    /\ measure' = [measure EXCEPT ![m] = ~@]
    /\ UNCHANGED <<view, lookVars, behind, failed, saveVars, controls, error, locating, choice,
                   basemap, importing, click, panned, asked, decided>>

-----------------------------------------------------------------------------
(* Everyone else                                                           *)

(* The agent, or an undo, states a view.                                   *)
SetView(v) ==
    /\ Spend(2)
    /\ InBounds(v)
    /\ Compose(v)
    /\ asked' = None
    /\ UNCHANGED <<lookVars, failed, saveVars, barVars, error>>

(* ... changes anything else, of which a measure control may come or go.   *)
ChangeElse(cs) ==
    /\ Spend(2)
    /\ controls' = cs
    /\ behind' = (map = "ready")
    /\ UNCHANGED <<view, lookVars, failed, saveVars, measure, error, locating, choice, basemap,
                   importing, click, panned, asked, decided>>

(* Mutated: the map stays where the former draft's was left.               *)
OpenWhereItIs(v) ==
    /\ UNCHANGED <<camera, ease, pending>>
    /\ decided' = TRUE

(* resetExploration: restoreComposedView.                                  *)
OpenAt(v) ==
    /\ JumpTo(v)
    /\ decided' = TRUE

(* Another draft's baseline is adopted.                                    *)
OpenDraft(v) ==
    /\ Spend(3)
    /\ map = "ready"
    /\ view' = v
    /\ OpenAt(v)
    /\ behind' = TRUE
    /\ saving' = None
    /\ panned' = None /\ asked' = None
    /\ UNCHANGED <<map, initial, applied, failed, captured, barVars, error>>

-----------------------------------------------------------------------------
(* Saving the current view                                                 *)

(* #saveCurrentView: settleAuthoredView awaits the scheduled updates.      *)
BeginSave ==
    /\ Spend(1)
    /\ map = "ready" /\ saving = None
    /\ saving' = IF behind THEN "waiting" ELSE "reading"
    /\ UNCHANGED <<view, lookVars, behind, failed, captured, barVars, error, panned, asked,
                   decided>>

(* A composed transition is cut short, and the camera read.                *)
ReadCamera ==
    /\ saving = "reading"
    /\ IF pending THEN JumpTo(view) ELSE UNCHANGED <<camera, ease, pending>>
    /\ captured' = [camera |-> IF ease' = None THEN camera'
                               ELSE [center |-> Somewhere, zoom |-> Somewhere],
                    midway |-> ease' # None /\ ease'.composed]
    /\ saving' = "writing"
    /\ UNCHANGED <<view, map, initial, applied, behind, failed, barVars, error, panned, asked,
                   decided, moves>>

(* The draft is replaced by one with that view, and adopted.               *)
SaveLands ==
    /\ saving = "writing"
    /\ saving' = None
    /\ Compose(captured.camera)
    /\ asked' = None
    /\ UNCHANGED <<lookVars, failed, captured, barVars, error, moves>>

SaveFails ==
    /\ saving = "writing"
    /\ saving' = None
    /\ UNCHANGED <<view, lookVars, behind, failed, captured, barVars, error, panned, asked,
                   decided, moves>>

CameraNext ==
    \/ BeginStart \/ FinishStart \/ Restart \/ Update \/ UpdateFails \/ MoveEnd
    \/ \E p \in Centers : Drag(p) \/ Located(p)
    \/ \E by \in {-1, 1} : Nudge(by)
    \/ Click \/ Geolocate \/ NotLocated \/ BasemapLoaded
    \/ \E b \in Bookmarks : ApplyBookmark(b)
    \/ \E base \in Bases : SwitchBasemap(base)
    \/ \E m \in Measures : ToggleMeasure(m)
    \/ \E v \in Views : SetView(v) \/ OpenDraft(v)
    \/ \E cs \in SUBSET Measures : ChangeElse(cs)
    \/ BeginSave \/ ReadCamera \/ SaveLands \/ SaveFails

CameraSpec == CameraInit /\ [][CameraNext]_cameraVars

-----------------------------------------------------------------------------
CameraTypeOK ==
    /\ DOMAIN view \subseteq {"bbox", "center", "zoom"}
    /\ map \in {"none", "starting", "ready"}
    /\ (initial # None) = (map = "starting")
    /\ (applied # None) = (map = "ready")
    /\ DOMAIN camera = {"center", "zoom"}
    /\ saving \in {None, "waiting", "reading", "writing"}
    /\ controls \subseteq Measures
    /\ measure \in [Measures -> BOOLEAN]
    /\ {choice, basemap, importing} \subseteq Bases \cup {None}

(* Once the map has caught up it looks, or is on its way to look, where    *)
(* the composition says, unless the user moved it since the view was       *)
(* applied; and where the user left it, it stays, whatever else of the     *)
(* composition changes (#update, viewsEqual, restoreComposedView).         *)
CameraFollows ==
    /\ map = "ready" /\ ~behind /\ ~failed /\ decided => Shows(view, Target)
    /\ panned # None => Target = panned

(* A saved view is never a place the map passed on its way to a composed   *)
(* view (settleAuthoredView).                                              *)
CaptureIsWhole == captured # None => ~captured.midway

(* "a label and the view it restores" (BookmarkEntry): a bookmark that was *)
(* clicked last takes the map to its view.                                 *)
(* This does not hold: the view is compared with the one applied last, not *)
(* with the camera.                                                        *)
BookmarkRestores ==
    asked # None /\ map = "ready" /\ ~behind /\ ~failed /\ ease = None => Shows(asked, camera)

(* "suppresses selection so a measuring click does not also select"        *)
(* (isMeasuring): any other click on a feature selects it.                 *)
(* This does not hold: a measure control removed while it measures         *)
(* suppresses selection for good.                                          *)
ClicksSelect == click # None => click.selected \/ click.measured

(* The map has the basemap the switcher shows as chosen.                   *)
(* This does not hold: a restarted map has its own.                        *)
BasemapIsChosen ==
    map = "ready" /\ importing = None /\ choice # None => basemap = choice

=============================================================================
