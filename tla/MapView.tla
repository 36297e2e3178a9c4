------------------------------- MODULE MapView -------------------------------
(***************************************************************************)
(* The live map: the canvas element (src/src/elements/                     *)
(* studio-canvas-element.ts), which builds and rebuilds a map view around  *)
(* its inputs, the view itself (src/src/map/composition-map-view.ts),      *)
(* which re-projects the composition and hands it to the renderer one      *)
(* update at a time, and the interaction runtime (src/src/interactions/    *)
(* studio-interactions.ts), which computes the filters the map must show.  *)
(*                                                                         *)
(* An action is one stretch of code between two awaits.  What a map draws  *)
(* is a record: the version of the composition, the filters,    *)
(* the style preview and, per layer, the stylesheet bound to it.  The      *)
(* renderer (MapLibre) and the server's style catalog are external: the    *)
(* first draws what it is given or refuses it, the second publishes new    *)
(* revisions of a stylesheet at any time.                                  *)
(***************************************************************************)
EXTENDS Naturals, FiniteSets, Sequences

CONSTANTS
  Styled,    \* the layers that name a stylesheet of the server's catalog
  None,      \* nothing bound, drawn or awaited
  MaxMaps,   \* bound: map views built
  MaxChanges \* bound: changes of the composition, the controls, the reader, the catalog ...

VARIABLES
  live,      \* the composition's version, which every applied command increases
  clause,    \* the filter the user's controls hold
  runtime,   \* the interaction runtime: "none" or "up"
  reader,    \* the session the style provider reads with
  published, \* the revision of the stylesheets on the server
  shell,     \* the canvas: its generation, whether a map is pending, its view, its preview
  views,     \* the map views ever built, in the order of their construction
  evidence,  \* a proof observer's refresh: what it awaits, and what it found
  changes    \* what has been spent of MaxChanges

mapVars == <<live, clause, runtime, reader, published, shell, views, evidence, changes>>

-----------------------------------------------------------------------------
(* Data                                                                     *)

NoStyles == [l \in Styled |-> None]

(* A stylesheet bound to a layer: the revision that was read, and for whom. *)
Binding == [revision : Nat, reader : Nat]
MaybeBinding == Binding \union {None}

(* What a map draws. *)
Drawing == [version : Nat, filter : Nat, preview : Nat, styles : [Styled -> MaybeBinding]]

Steps == {"idle", "binding", "bound", "composing"}

ViewId == 1..Len(views)

(* The canvas's view is the one whose start has returned; the others are    *)
(* still being started for it, or are gone.                                 *)
IsShown(i) == shell.view = i

Spend == changes < MaxChanges /\ changes' = changes + 1

Set(i, v) == views' = [views EXCEPT ![i] = v]

-----------------------------------------------------------------------------
(* The view                                                                 *)

(* Mutated: a change that arrives during an update is left to that update. *)
ScheduleIfIdle(v) == IF v.step = "idle" THEN [v EXCEPT !.issued = @ + 1] ELSE v

(* #scheduleUpdate: another generation joins the queue. *)
Schedule(v) == [v EXCEPT !.issued = @ + 1]

(* The caller that awaits settled() awaits the updates issued by then; it   *)
(* goes on when each of them has run or has been skipped.                   *)
Settled(v, target) == v.done >= target

NewView(generation, filter) ==
  [generation |-> generation, phase |-> "starting",
   filter |-> filter, preview |-> 0,
   issued |-> 0, done |-> 0, step |-> "idle", behind |-> FALSE,
   snapshot |-> 0, session |-> None, epoch |-> 0, refreshes |-> 0,
   partial |-> NoStyles, todo |-> {}, cache |-> NoStyles, styles |-> NoStyles,
   drawing |-> None, map |-> None]

(* #resolveStyles, up to its first await: the snapshot, the session and the *)
(* refresh epoch are captured, and a cache of another session is dropped.   *)
StartResolving(v) ==
  LET kept == IF v.session = reader THEN v.cache ELSE NoStyles
  IN [v EXCEPT !.step = "binding", !.snapshot = live, !.session = reader,
               !.epoch = v.refreshes, !.cache = kept, !.partial = NoStyles, !.todo = Styled]

(* Mutated: results of a session that has ended are adopted. *)
AdoptedForAnyone(v) == IF v.snapshot = live THEN v.partial ELSE NoStyles

(* The end of #resolveStyles: what was bound is adopted only if neither the *)
(* composition nor the session has changed, and retained only if neither    *)
(* the session has, nor a refresh was asked for.                            *)
Adopted(v) == IF v.snapshot = live /\ v.session = reader THEN v.partial ELSE NoStyles

Retained(v) == IF v.session = reader /\ v.epoch = v.refreshes THEN v.partial ELSE NoStyles

Resolved(v) ==
  [v EXCEPT !.cache = Retained(v), !.styles = Adopted(v), !.partial = NoStyles, !.epoch = 0,
            !.step = "bound"]

(* The next layer's binding: a retained one, or what the provider answers,  *)
(* which refuses when the session has changed since it was asked.           *)
BindLayer(i) ==
  LET v == views[i]
      l == CHOOSE k \in v.todo : TRUE
      answers == {[revision |-> published, reader |-> reader], None}
  IN /\ v.step = "binding"
     /\ \E b \in (IF v.cache[l] # None THEN {v.cache[l]} ELSE answers) :
          LET bound == [v EXCEPT !.partial[l] = b, !.todo = @ \ {l}]
          IN Set(i, IF bound.todo = {} THEN Resolved(bound) ELSE bound)
     /\ UNCHANGED <<live, clause, runtime, reader, published, shell, evidence, changes>>

(* #project: the composition as it is now, with what the view was last told. *)
Projection(v) ==
  [version |-> live, filter |-> v.filter, preview |-> v.preview, styles |-> v.styles]

Project(i) ==
  LET v == views[i]
  IN /\ v.step = "bound"
     /\ Set(i, [v EXCEPT !.drawing = Projection(v), !.step = "composing"])
     /\ UNCHANGED <<live, clause, runtime, reader, published, shell, evidence, changes>>

(* The map exists: it is bound to the controller, and an update follows if  *)
(* the composition has changed since the start.                             *)
CatchUp(v) ==
  LET bound == [v EXCEPT !.map = v.drawing, !.drawing = None, !.snapshot = 0,
                         !.phase = "ready", !.step = "idle"]
  IN IF v.snapshot # live THEN Schedule(bound) ELSE bound

(* #ensureMapView after `await view.start()`: a stale view is disposed, any *)
(* other becomes the canvas's, and is told the preview it may have missed.  *)
IsStale(v) == v.generation # shell.generation

Disposed(v) == [NewView(v.generation, 0) EXCEPT !.phase = "disposed"]

Previewing(v, preview) == Schedule([v EXCEPT !.preview = preview])

(* Mutated: a map that comes too late is dropped without being disposed. *)
AdoptOrForget(v) == IF IsStale(v) THEN v ELSE Previewing(v, shell.preview)

Adopt(v) == IF IsStale(v) THEN Disposed(v) ELSE Previewing(v, shell.preview)

Started(i, v) ==
  /\ Set(i, Adopt(v))
  /\ shell' = IF IsStale(v) THEN shell ELSE [shell EXCEPT !.view = i, !.pending = FALSE]
  /\ UNCHANGED <<live, clause, runtime, reader, published, evidence, changes>>

MapMade(i) ==
  LET v == views[i]
  IN /\ v.step = "composing"
     /\ v.phase = "starting"
     /\ Started(i, CatchUp(v))

(* No WebGL, a refused context: the view is unavailable, the readout stays. *)
NoMap(i) ==
  LET v == views[i]
  IN /\ v.step = "composing"
     /\ v.phase = "starting"
     /\ Started(i, [v EXCEPT !.phase = "unavailable", !.step = "idle", !.drawing = None,
                                 !.snapshot = 0])

-----------------------------------------------------------------------------
(* Updates, one at a time                                                   *)

(* The next job of #queue: superseded generations are skipped, and an       *)
(* update without a map does nothing.                                       *)
Superseded(v) == v.done + 1 # v.issued

NextUpdate(i) ==
  LET v == views[i]
  IN /\ v.done < v.issued
     /\ v.step = "idle"
     /\ Set(i, IF Superseded(v) \/ v.map = None
                 THEN [v EXCEPT !.done = @ + 1]
                 ELSE StartResolving(v))
     /\ UNCHANGED <<live, clause, runtime, reader, published, shell, evidence, changes>>

(* map.setStyle; a style the differ refuses leaves the previous one. *)
Draw(i) ==
  LET v == views[i]
      finished == [v EXCEPT !.done = @ + 1, !.step = "idle", !.drawing = None, !.snapshot = 0]
  IN /\ v.step = "composing"
     /\ v.phase = "ready"
     /\ \/ Set(i, [finished EXCEPT !.map = v.drawing, !.behind = FALSE])
        \/ Set(i, [finished EXCEPT !.behind = TRUE])
     /\ UNCHANGED <<live, clause, runtime, reader, published, shell, evidence, changes>>

-----------------------------------------------------------------------------
(* The canvas                                                               *)

(* #ensureMapView, up to the import of the map's modules; what the view is  *)
(* built with is read when the import has answered.                         *)
EnsureMap ==
  /\ shell.view = 0
  /\ ~shell.pending
  /\ Len(views) < MaxMaps
  /\ shell' = [shell EXCEPT !.pending = TRUE, !.importing = TRUE]
  /\ UNCHANGED <<live, clause, runtime, reader, published, views, evidence, changes>>

RuntimeFilter == IF runtime = "up" THEN clause ELSE 0

(* The modules are there: the view is built with the filters known by then, *)
(* and start() runs up to its first await.                                  *)
BuildView ==
  /\ shell.importing
  /\ Len(views) < MaxMaps
  /\ shell' = [shell EXCEPT !.importing = FALSE]
  /\ views' = Append(views, StartResolving(NewView(shell.generation, RuntimeFilter)))
  /\ UNCHANGED <<live, clause, runtime, reader, published, evidence, changes>>

(* #restartMapView: an input of the projection (the catalog, the basemap,   *)
(* the session ...) has been assigned.  A start under way goes stale.       *)
Restart(sh) ==
  [sh EXCEPT !.generation = @ + 1, !.view = 0, !.pending = TRUE, !.importing = TRUE]

AssignInput ==
  /\ Spend
  /\ shell.view # 0 \/ shell.pending
  /\ Len(views) < MaxMaps
  /\ shell' = Restart(shell)
  /\ views' = IF shell.view = 0 THEN views
              ELSE [views EXCEPT ![shell.view] = Disposed(@)]
  /\ UNCHANGED <<live, clause, runtime, reader, published, evidence>>

(* Another session, of an application that keeps the element: the provider  *)
(* asks for it at each call, and nothing is rebuilt or rescheduled.         *)
ChangeReader ==
  /\ Spend
  /\ reader' = reader + 1
  /\ UNCHANGED <<live, clause, runtime, published, shell, views, evidence>>

(* A command is applied: the views bound to the controller are told. *)
Compose ==
  /\ Spend
  /\ live' = live + 1
  /\ views' = [i \in ViewId |-> IF views[i].phase = "ready" THEN Schedule(views[i]) ELSE views[i]]
  /\ UNCHANGED <<clause, runtime, reader, published, shell, evidence>>

(* What the canvas tells its view, when it has one. *)
Tell(Change(_)) ==
  views' = IF shell.view = 0 THEN views ELSE [views EXCEPT ![shell.view] = Change(@)]

SetPreview ==
  /\ Spend
  /\ shell' = [shell EXCEPT !.preview = @ + 1]
  /\ Tell(LAMBDA v : Previewing(v, shell.preview + 1))
  /\ UNCHANGED <<live, clause, runtime, reader, published, evidence>>

-----------------------------------------------------------------------------
(* The controls                                                             *)

Filtering(v) == Schedule([v EXCEPT !.filter = clause'])

(* #ensureInteractionRuntime: the runtime's modules have been imported for  *)
(* a composition that declares a control; it holds no filter yet.           *)
NeedRuntime ==
  /\ runtime = "none"
  /\ runtime' = "up"
  /\ clause' = clause
  /\ Tell(Filtering)
  /\ UNCHANGED <<live, reader, published, shell, evidence, changes>>

(* A control publishes a clause; the appearance is recomputed and the       *)
(* canvas hands it to the map view, if it has one.                          *)
MoveControl ==
  /\ runtime = "up"
  /\ Spend
  /\ clause' = clause + 1
  /\ Tell(Filtering)
  /\ UNCHANGED <<live, runtime, reader, published, shell, evidence>>

-----------------------------------------------------------------------------
(* Proof observers                                                          *)

Publish ==
  /\ Spend
  /\ published' = published + 1
  /\ UNCHANGED <<live, clause, runtime, reader, shell, views, evidence>>

(* refreshAuthoritativeStyles: the retained bindings go, an update is       *)
(* scheduled, and the observer awaits the queue as it is by then.           *)
AskToRefresh ==
  /\ shell.view # 0
  /\ evidence.awaits = None
  /\ Spend
  /\ LET v == Schedule([views[shell.view] EXCEPT !.refreshes = @ + 1, !.cache = NoStyles])
     IN /\ Set(shell.view, v)
        /\ evidence' = [awaits |-> [view |-> shell.view, update |-> v.issued],
                        asked |-> published, seen |-> None]
  /\ UNCHANGED <<live, clause, runtime, reader, published, shell>>

(* Its wait is over: it reads the map. *)
Observe ==
  /\ evidence.awaits # None
  /\ LET v == views[evidence.awaits.view]
     IN /\ Settled(v, evidence.awaits.update)
        /\ evidence' = [evidence EXCEPT !.awaits = None,
                                        !.seen = IF v.map = None THEN None ELSE v.map.styles]
  /\ UNCHANGED <<live, clause, runtime, reader, published, shell, views, changes>>

-----------------------------------------------------------------------------
MapInit ==
  /\ live = 1
  /\ clause = 0
  /\ runtime = "none"
  /\ reader = 1
  /\ published = 1
  /\ shell = [generation |-> 0, pending |-> FALSE, importing |-> FALSE, view |-> 0, preview |-> 0]
  /\ views = <<>>
  /\ evidence = [awaits |-> None, asked |-> 0, seen |-> None]
  /\ changes = 0

ViewStep(i) ==
  \/ BindLayer(i) \/ Project(i)
  \/ MapMade(i) \/ NoMap(i)
  \/ NextUpdate(i) \/ Draw(i)

MapNext ==
  \/ \E i \in ViewId : ViewStep(i)
  \/ EnsureMap \/ BuildView \/ AssignInput \/ ChangeReader \/ Compose
  \/ SetPreview
  \/ NeedRuntime \/ MoveControl
  \/ Publish \/ AskToRefresh \/ Observe

MapSpec == MapInit /\ [][MapNext]_mapVars

-----------------------------------------------------------------------------
(* What holds                                                               *)

View ==
  [generation : Nat, phase : {"starting", "ready", "unavailable", "disposed"},
   filter : Nat, preview : Nat, issued : Nat, done : Nat, step : Steps,
   behind : BOOLEAN, snapshot : Nat, session : Nat \union {None}, epoch : Nat, refreshes : Nat,
   partial : [Styled -> MaybeBinding], todo : SUBSET Styled, cache : [Styled -> MaybeBinding],
   styles : [Styled -> MaybeBinding], drawing : Drawing \union {None}, map : Drawing \union {None}]

(* Every variable has the shape its comment says. *)
MapTypeOK ==
  /\ {live, clause, reader, published, changes} \subseteq Nat
  /\ runtime \in {"none", "up"}
  /\ shell \in [generation : Nat, pending : BOOLEAN, importing : BOOLEAN,
                view : 0..Len(views), preview : Nat]
  /\ \A i \in ViewId : views[i] \in View
  /\ DOMAIN evidence = {"awaits", "asked", "seen"}

(* Nothing of view i is queued or under way. *)
Quiet(v) == v.step = "idle" /\ v.done = v.issued

(* Once the updates of the canvas's map have run, and the renderer took the *)
(* last of them, the map draws the newest composition with the newest       *)
(* preview: nothing that was applied while the map was being made, or while *)
(* an older update was under way, is left behind or overtaken.              *)
MapShowsComposition ==
  \A i \in ViewId :
    LET v == views[i]
    IN IsShown(i) /\ v.phase = "ready" /\ Quiet(v) /\ ~v.behind
         => v.map.version = live /\ v.map.preview = shell.preview

(* A map that exists is the canvas's: one that was made for inputs that     *)
(* have been replaced since is removed, whenever it arrives.                *)
NoOrphanMap ==
  \A i \in ViewId : views[i].map # None => IsShown(i)

(* The stylesheets on one map were all bound for one session: when the      *)
(* session changes between two layers, neither's binding is drawn.          *)
OneReadersStyles ==
  \A i \in ViewId :
    LET bound == {views[i].map.styles[l] : l \in Styled} \ {None}
    IN views[i].map # None => Cardinality({b.reader : b \in bound}) <= 1

(* The filters the runtime computed are on the map once it is quiet.  This  *)
(* does not hold: a control moved while the map is being made.              *)
FilterReachesMap ==
  \A i \in ViewId :
    LET v == views[i]
    IN IsShown(i) /\ v.phase = "ready" /\ Quiet(v) /\ ~v.behind
         => v.map.filter = RuntimeFilter

(* What a proof observer finds on the map after its refresh was read after  *)
(* it asked.  This does not hold: a superseded update ends its wait.        *)
RefreshedBeforeRead ==
  evidence.seen # None
    => \A l \in Styled : evidence.seen[l] # None => evidence.seen[l].revision >= evidence.asked

=============================================================================
