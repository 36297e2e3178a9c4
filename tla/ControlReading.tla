--------------------------- MODULE ControlReading ---------------------------
(***************************************************************************)
(* What a control of a composition can be drawn as, and what it reads:     *)
(* src/controls/control-config.ts and src/composition/source-reference.ts. *)
(*                                                                         *)
(* A control's sourceId is a reference: the id of a layer, which is then   *)
(* an alias of that layer's source, or the name of a source itself.  The   *)
(* two are drawn from one set of names, so what a reference means depends  *)
(* on all the layers; here layers come and go under one control.  Of its   *)
(* config only what readControlConfig requires is kept.                    *)
(***************************************************************************)
EXTENDS Integers, FiniteSets

CONSTANTS
    LayerNames,         \* ids of layers
    SourceNames,        \* names of sources; some are ids of layers too
    None,
    MaxReadings         \* bound on the changes of the composition

VARIABLES
    sources,    \* the layers: id -> the name of the source, or None
    control,    \* the control: kind, sourceId, and what its config has
    bound,      \* an interaction that is not disabled is on the control
    changes     \* changes made

readingVars == <<sources, control, bound, changes>>

(* CONTROL_KIND_EMITS_CHANGE; the kinds that act on the map alone need no  *)
(* more than a name, but for the two named here.                           *)
DataKinds == {"timeSlider", "filterSelect", "filterSlider", "filterDateRange", "opacity"}
Kinds == DataKinds \cup {"search", "bookmarks", "navigation"}

Controls == [kind : Kinds, source : LayerNames \cup SourceNames \cup {None},
             field : BOOLEAN,               \* config.field
             domain : BOOLEAN,              \* min and max, from and to, or bookmarks
             driven : SUBSET LayerNames]    \* config.layerIds

Held == {l \in LayerNames : sources[l] # None}

-----------------------------------------------------------------------------
(* Mutated: an alias counts whatever else the name stands for.             *)
AliasFirst(ref) == IF ref \in Held THEN sources[ref] ELSE ref

(* compositionDataSource: the source a reference means, if it means one.   *)
DataSource(ref) ==
    IF ref \notin Held THEN ref
    ELSE IF \/ sources[ref] # ref /\ \E l \in Held : sources[l] = ref
            \/ sources[ref] \in Held /\ sources[sources[ref]] # sources[ref]
         THEN None
         ELSE sources[ref]

(* controlTargetLayers: the layers a filter of the control is for.         *)
TargetLayers(ref) ==
    IF ref = None \/ DataSource(ref) = None THEN {}
    ELSE {l \in Held : l = ref \/ sources[l] = ref}

(* controlSourceResolves                                                   *)
SourceResolves(ref) == DataSource(ref) # None /\ (ref \in Held \/ \E l \in Held : sources[l] = ref)

(* The layers an opacity slider drives: those it names, or its source.     *)
Driven == IF control.driven # {} THEN control.driven ELSE {control.source} \ {None}

(* readControlConfig: the config has what the kind needs.                  *)
IsReadable ==
    CASE control.kind \in {"filterSelect", "filterDateRange"} -> control.field
      [] control.kind \in {"filterSlider", "timeSlider"} -> control.field /\ control.domain
      [] control.kind = "opacity" -> Driven # {}
      [] control.kind = "bookmarks" -> control.domain
      [] control.kind = "search" -> FALSE
      [] OTHER -> TRUE

(* describeControl                                                         *)
IsRendered ==
    /\ IsReadable
    /\ control.source # None => SourceResolves(control.source)
    /\ control.kind = "opacity" => Driven \cap Held # {}

(* A control that says nothing binds it yet.                               *)
IsInert == IsRendered /\ control.kind \in DataKinds /\ ~bound

-----------------------------------------------------------------------------
Change == changes < MaxReadings /\ changes' = changes + 1

ReadingInit ==
    /\ sources = [l \in LayerNames |-> None]
    /\ control \in Controls
    /\ bound = FALSE
    /\ changes = 0

(* addLayer, removeLayer                                                   *)
HoldLayer(l, s) ==
    /\ Change
    /\ l \notin Held
    /\ sources' = [sources EXCEPT ![l] = s]
    /\ UNCHANGED <<control, bound>>

DropLayer(l) ==
    /\ Change
    /\ l \in Held
    /\ sources' = [sources EXCEPT ![l] = None]
    /\ UNCHANGED <<control, bound>>

(* bindInteraction, removeInteraction                                      *)
Rebind ==
    /\ Change
    /\ bound' = ~bound
    /\ UNCHANGED <<sources, control>>

ReadingNext ==
    \/ \E l \in LayerNames : DropLayer(l) \/ \E s \in SourceNames : HoldLayer(l, s)
    \/ Rebind

ReadingSpec == ReadingInit /\ [][ReadingNext]_readingVars

-----------------------------------------------------------------------------
ReadingTypeOK ==
    /\ sources \in [LayerNames -> SourceNames \cup {None}]
    /\ control \in Controls
    /\ bound \in BOOLEAN

(* A drawn control reads one source: every layer its filter is for draws   *)
(* from the source its reference means, and there is one.                  *)
TargetsShareSource ==
    IsRendered /\ control.source # None =>
        /\ TargetLayers(control.source) # {}
        /\ \A l \in TargetLayers(control.source) : sources[l] = DataSource(control.source)

(* While a control stays drawn, a layer that comes or goes does not change *)
(* what it reads: a reference that turns ambiguous means nothing rather    *)
(* than something else (compositionDataSource).                            *)
MeaningStays ==
    [][IsRendered /\ IsRendered' /\ control.source # None =>
           DataSource(control.source)' = DataSource(control.source)]_readingVars

=============================================================================
