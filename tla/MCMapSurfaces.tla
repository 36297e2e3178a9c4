--------------------------- MODULE MCMapSurfaces ---------------------------
(***************************************************************************)
(* Small instances of the composition's commands and of everything that    *)
(* shows or edits the composition around the map, in one run: a behaviour  *)
(* is a behaviour of one of them, the component it begins with, and the    *)
(* others keep an initial state.  They meet in the code only through the   *)
(* composition, which each of them changes for itself as its environment.  *)
(***************************************************************************)
EXTENDS FixtureTools, Integers, Sequences, FiniteSets, TLC

CONSTANTS a1, b1, s1, y1, w1, c1, i1, g1, x1, d1, e1, p1, q1, f1, l1, k1, t1, v1, m1, dd,
          box, World, Somewhere

VARIABLES
    component, \* which component the behaviour is of
    styledDraft, mapStyle, authority, described, visual, observing, frame, toFrame, toHost,
    styling,
    styledMap, inspector, applying, suggester, suggested, shared, renders, proposals,
    live, clause, runtime, reader, published, shell, views, evidence, changes,
    reload, disposed, shownCanvas, failure, reloading, stack, awaiting, canvases, mounted, told,
    transport, reads, delivered,
    session, expired, rowsBound, rowDeck, requests, rowBar, rowChanges,
    composition, doc, connected, runtimes, current, generation, pending, imports, bar,
    filteredMap, deck, used,
    input, at, out, reviewed,
    route, deckLayers, deckPins, cards, jobs, refusal, last, deckSpent,
    sources, control, bound, readings,
    view, map, initial, camera, ease, appliedView, viewPending, behind, failed, saving, captured,
    measures, measure, error, locating, choice, basemap, importing, click, panned, asked, decided,
    cameraMoves

-----------------------------------------------------------------------------
stylingVars == <<styledDraft, mapStyle, authority, described, visual, observing, frame, toFrame,
    toHost, styling>>
proposalVars == <<styledMap, inspector, applying, suggester, suggested, shared, renders,
    proposals>>
mapVars == <<live, clause, runtime, reader, published, shell, views, evidence, changes>>
viewVars == <<reload, disposed, shownCanvas, failure, reloading, stack, awaiting, canvases,
    mounted, told, transport, reads, delivered>>
rowVars == <<session, expired, rowsBound, rowDeck, requests, rowBar, rowChanges>>
explorationVars == <<composition, doc, connected, runtimes, current, generation, pending,
    imports, bar, filteredMap, deck, used>>
projectionVars == <<input, at, out, reviewed>>
deckVars == <<route, deckLayers, deckPins, cards, jobs, refusal, last, deckSpent>>
readingVars == <<sources, control, bound, readings>>
cameraVars == <<view, map, initial, camera, ease, appliedView, viewPending, behind, failed,
    saving, captured, measures, measure, error, locating, choice, basemap, importing, click,
    panned, asked, decided, cameraMoves>>
surfaceVars == <<component, vars, stylingVars, proposalVars, mapVars, viewVars, rowVars,
    explorationVars, projectionVars, deckVars, readingVars, cameraVars>>

-----------------------------------------------------------------------------
(* The commands of a composition of two layers; b is a layer id and a      *)
(* source id.                                                              *)
TwoLayers == {a1, b1}
TwoSources == {s1, b1}
OneStyle == {y1}
OneWidget == {w1}
OneControl == {c1}
OneInteraction == {i1}
OneRegion == {g1}
OneExtra == {x1}

(* Two drafts, one paint beside the first one, and a field a paint reads.  *)
Styling == INSTANCE MapStyling WITH
    Drafts <- {d1, e1}, Sources <- {1}, Paints <- {p1}, Fields <- {f1}, MaxStyling <- 4

(* Two layers that may be restyled.                                        *)
Proposals == INSTANCE StyleProposals WITH
    Layers <- {l1, k1}, MaxProposals <- 4, map <- styledMap

(* Two styled layers, two maps, two changes of anything beside them.       *)
Maps == INSTANCE MapView WITH Styled <- {l1, k1}, MaxMaps <- 2, MaxChanges <- 2

(* Two reloads of the published view under two readers.                  *)
Publication == INSTANCE PublishedView WITH
    MaxReloads <- 2, MaxReads <- 2, MaxReaders <- 2, generation <- reload, current <- shownCanvas,
    pending <- reloading

(* The widget's source and another one a control may be bound to.          *)
Rows == INSTANCE WidgetRows WITH
    Sources <- {s1, t1}, Shown <- s1, MaxChanges <- 2, bound <- rowsBound, deck <- rowDeck,
    bar <- rowBar, spent <- rowChanges

(* One control over two layers.                                            *)
Exploring == INSTANCE Exploration WITH
    Controls <- {c1}, Layers <- {l1, k1}, Values <- {v1}, MaxEdits <- 2, MaxGestures <- 2,
    MaxUpsets <- 1, map <- filteredMap

(* Two layers of every kind the projection tells apart, over catalogs and  *)
(* saved styles that have, lack or repeat what they name.                  *)
LayerOf(id, src, over, ty, st) ==
    [id |-> id, source |-> src, override |-> over, type |-> ty, style |-> st]
Overrides == {None, "inline", "asset", "network"}
SecondLayers ==
    {LayerOf(k1, src, over, None, None) : src \in {s1, t1}, over \in Overrides}
        \cup {LayerOf(k1, s1, None, "symbol", None)}
LayerPairs ==
    {<<LayerOf(l1, s1, over, ty, None), second>> :
        over \in Overrides, ty \in {None, "symbol", "raster"}, second \in SecondLayers}
    \cup {<<LayerOf(l1, s1, over, None, st), LayerOf(k1, s1, None, None, other)>> :
        over \in {None, "inline"}, st \in {None, "inline", "live", "bare"},
        other \in {"inline", "live", "bare"}}
Entry(id, service, protocol, geometry) ==
    [id |-> id, service |-> service, protocol |-> protocol, geometry |-> geometry]
Polygons == Entry(s1, None, "features", "fill")
Served(id) == Entry(id, s1, "features", "line")
SmallCatalogs ==
    {{}, {Polygons}, {Polygons, Entry(s1, None, "features", "line")},
     {Served(e1)}, {Served(e1), Served(f1)},
     {Entry(s1, None, "features", "raster"), Entry(t1, None, "features", "fill")},
     {Entry(s1, None, "other", "fill"), Entry(t1, None, "features", None)}}
Visual(layer, part, owner, src, tiled) ==
    [id |-> [of |-> layer, part |-> part], owner |-> owner, source |-> src, tiled |-> tiled]
SmallStyles ==
    {None,
     [captured |-> None, sources |-> s1 :> "network" @@ t1 :> "network",
      visuals |-> <<Visual(l1, "main", None, s1, FALSE), Visual(x1, "main", l1, t1, FALSE),
                    Visual(k1, "main", k1, t1, FALSE)>>],
     [captured |-> {l1}, sources |-> s1 :> "asset" @@ t1 :> "network",
      visuals |-> <<Visual(l1, "main", None, s1, TRUE), Visual(x1, "main", k1, t1, FALSE)>>],
     [captured |-> {k1}, sources |-> s1 :> "inline",
      visuals |-> <<Visual(k1, "main", k1, s1, FALSE), Visual(x1, "main", k1, s1, TRUE)>>]}
SmallStyleMaps ==
    {None} \cup {l1 :> first @@ k1 :> second :
                    first \in {"absent", "bound"}, second \in {"failed", "mapped", "stale"}}
Projection == INSTANCE MapProjection WITH
    LayerLists <- LayerPairs, SavedStyles <- SmallStyles, Catalogs <- SmallCatalogs,
    StyleMaps <- SmallStyleMaps

(* A compare card of two layers, which is also the time card of both.      *)
Deck == INSTANCE DeckGestures WITH
    Layers <- {a1, b1}, Left <- a1, Right <- b1, Steps <- <<a1, b1>>,
    Routes <- {"draft", "own", "tools"},
    MaxGestures <- 2, MaxChanges <- 2, layers <- deckLayers, pins <- deckPins, spent <- deckSpent

(* Two layers, one spelled like a source.                                  *)
Reading == INSTANCE ControlReading WITH
    LayerNames <- {a1, b1}, SourceNames <- {a1, b1, s1}, MaxReadings <- 4, changes <- readings

(* Views of every shape, bookmarks of a place, a box and an unreachable    *)
(* zoom, and two gestures beside one change of the composition.            *)
SmallViews == {[center |-> p1, zoom |-> 2], [zoom |-> 1], [bbox |-> box], [center |-> q1]}
SmallBookmarks == {[center |-> p1, zoom |-> 2], [bbox |-> box], [center |-> p1, zoom |-> 9]}
Camera == INSTANCE MapCamera WITH
    Views <- SmallViews, Bookmarks <- SmallBookmarks, Centers <- {q1}, MaxZoom <- 2, FitZoom <- 1,
    Measures <- {m1}, Bases <- {dd}, MaxGestures <- 2, MaxChanges <- 1, MaxUpsets <- 1,
    applied <- appliedView, pending <- viewPending, controls <- measures, moves <- cameraMoves

-----------------------------------------------------------------------------
SurfacesInit ==
    /\ component \in {"commands", "styling", "proposals", "maps", "publication", "rows",
                      "exploring", "projection", "deck", "reading", "camera"}
    /\ Init /\ Styling!StylingInit /\ Proposals!ProposalInit /\ Maps!MapInit
    /\ Publication!ViewInit /\ Rows!RowsInit /\ Exploring!ExplorationInit
    \* A component that does not move begins in one of its initial states only.
    /\ component = "styling" \/ styledDraft = d1
    /\ component = "proposals" \/ styledMap.selection = l1
    /\ Deck!DeckInit /\ Reading!ReadingInit
    /\ component = "deck" \/ (route = "draft" /\ deckLayers = [layer \in {a1, b1} |-> "shown"])
    /\ component = "reading" \/ control = CHOOSE first \in Reading!Controls : TRUE
    /\ Camera!CameraInit
    /\ IF component = "projection"
       THEN Projection!ProjectionInit
       ELSE /\ input = [layers |-> <<LayerOf(l1, s1, None, None, None)>>, saved |-> None,
                        catalog |-> {}, reader |-> FALSE, styles |-> None]
            /\ at = 0 /\ out = Projection!StartOut(input) /\ reviewed = FALSE

\* The one component that moves.
Only(name) ==
    /\ component = name
    /\ UNCHANGED component
    /\ IF name = "commands" THEN TRUE ELSE UNCHANGED vars
    /\ IF name = "styling" THEN TRUE ELSE UNCHANGED stylingVars
    /\ IF name = "proposals" THEN TRUE ELSE UNCHANGED proposalVars
    /\ IF name = "maps" THEN TRUE ELSE UNCHANGED mapVars
    /\ IF name = "publication" THEN TRUE ELSE UNCHANGED viewVars
    /\ IF name = "rows" THEN TRUE ELSE UNCHANGED rowVars
    /\ IF name = "exploring" THEN TRUE ELSE UNCHANGED explorationVars
    /\ IF name = "projection" THEN TRUE ELSE UNCHANGED projectionVars
    /\ IF name = "deck" THEN TRUE ELSE UNCHANGED deckVars
    /\ IF name = "reading" THEN TRUE ELSE UNCHANGED readingVars
    /\ IF name = "camera" THEN TRUE ELSE UNCHANGED cameraVars

SurfacesNext ==
    \/ Only("commands") /\ Next
    \/ Only("styling") /\ Styling!StylingNext
    \/ Only("proposals") /\ Proposals!ProposalNext
    \/ Only("maps") /\ Maps!MapNext
    \/ Only("publication") /\ Publication!ViewNext
    \/ Only("rows") /\ Rows!RowsNext
    \/ Only("exploring") /\ Exploring!ExplorationNext
    \/ Only("projection") /\ Projection!ProjectionNext
    \/ Only("deck") /\ Deck!DeckNext
    \/ Only("reading") /\ Reading!ReadingNext
    \/ Only("camera") /\ Camera!CameraNext

SurfacesSpec == SurfacesInit /\ [][SurfacesNext]_surfaceVars

-----------------------------------------------------------------------------
(* The properties, which the modules state and explain.                    *)

\* The state of the component that moves has its type.
SurfacesTypeOK ==
    /\ component = "commands" => TypeOK
    /\ component = "styling" => Styling!StylingTypeOK
    /\ component = "proposals" => Proposals!ProposalTypeOK
    /\ component = "maps" => Maps!MapTypeOK
    /\ component = "publication" => Publication!ViewTypeOK
    /\ component = "rows" => Rows!RowsTypeOK
    /\ component = "exploring" => Exploring!ExplorationTypeOK
    /\ component = "projection" => Projection!ProjectionTypeOK
    /\ component = "deck" => Deck!DeckTypeOK
    /\ component = "reading" => Reading!ReadingTypeOK
    /\ component = "camera" => Camera!CameraTypeOK

\* The live map, once at rest, is the one of its canvas and shows the composition with one
\* reader's styles under the current filters (CompositionMapView.update, the canvas' #startView).
\* The invariant includes the types.
MapShowsComposition ==
    /\ SurfacesTypeOK
    /\ Maps!MapShowsComposition /\ Maps!NoOrphanMap /\ Maps!OneReadersStyles
    /\ Exploring!AppearanceFollows /\ Exploring!OneRuntime

\* The map is where the author's view put it unless somebody moved it since, and a view captured
\* for a save is no moment of an animation (setView, settleAuthoredView).
CameraFollows == Camera!CameraFollows /\ Camera!CaptureIsWhole

\* A reader's page shows the newest reload only, with rows the reader may read, on a map that
\* reads what the reader's catalog gives (read-only-composition-view, widget deck, projection).
ReadersSeeTheirOwn ==
    /\ Publication!OnlyTheNewestRemains /\ Publication!SettledIsOfTheNewest
    /\ Publication!HostKnowsStatus /\ Publication!RowsOfReader
    /\ Rows!RowsOfSession /\ Projection!ReaderSeesOnlyApproved

\* A layer that cannot be drawn takes no other with it and is reported, and the drawn ones keep
\* their order (compositionToMapPackage).
SiblingsSurvive ==
    Projection!SiblingsSurvive /\ Projection!EveryLayerAccountedFor /\ Projection!DrawnInOrder

\* The cards and the control bar show the composition and read again after a failure, and a
\* control's layers share one source (the widget deck, the control bar, control-config).
CardsShowComposition ==
    /\ Deck!CardsShowComposition /\ Deck!DraftGesturesAreWhole
    /\ Rows!BarFollowsDeck /\ Rows!ReadsRecover /\ Reading!TargetsShareSource

\* A style suggestion that was discarded stays away (style-suggestion).
DismissedStaysAway == Proposals!DismissedStaysAway

\* The style editor writes what it shows, to the draft it was opened over; the shared preview
\* renders the newest document; a control that stays keeps its source (map-style-editor,
\* shared-style-preview, source-reference).
ChangesAreAsShown ==
    /\ Styling!WritesWhatIsShown /\ Styling!WritesToItsDraft /\ Proposals!RendersTheNewest
    /\ Reading!MeaningStays
=============================================================================
