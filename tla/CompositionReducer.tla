------------------------- MODULE CompositionReducer -------------------------
(***************************************************************************)
(* The composition and the commands that change it (composition/model.ts,  *)
(* commands.ts, reducer.ts, source-use.mjs), with what they do to the map  *)
(* style a visual editor saved (styles/map-style-edit.ts) and to the       *)
(* render layers the map draws from it (map/map-package-projection.ts).    *)
(*                                                                         *)
(* A command the reducer refuses throws and changes nothing: its action is *)
(* then not enabled.  The parts of a composition are tables over their     *)
(* ids.  The drawing order, titles, the view and feature targets take part *)
(* in no guard and are left out.                                           *)
(***************************************************************************)
EXTENDS Naturals

CONSTANTS
    LayerIds, WidgetIds, ControlIds, InteractionIds, RegionIds,
    Sources,      \* source ids; one may be spelled like a layer id
    SharedStyles, \* ids of catalog styles
    Extras,       \* ids a map style edit may give the render layers it adds
    Map,          \* the interaction reference "map"
    None,         \* no style, no source, no map style
    Absent,       \* not part of the composition
    MaxCommands   \* how many commands are applied: the bound of a run

ASSUME StylesAssumption == SharedStyles \intersect LayerIds = {} /\ None \notin LayerIds
\* An edit names no new render layer like a composed layer: one that is goes
\* with that layer, whoever it belongs to (reducer.ts:269).
ASSUME ExtrasAssumption == LayerIds \intersect Extras = {}

VARIABLES
    layers,       \* per id, its source, visibility and styleRef
    bodies,       \* the inline styles "honua-inline:<id>" of styleRefs, by id
    style,        \* mapSpec, as a visual editor saved it
    widgets,      \* per id, the source a widget reads
    controls,     \* per id, the source a control reads
    interactions, \* per id, the references of on and do
    annotations,  \* the ids of the annotations
    pins,         \* the targets no command may alter
    applied       \* commands applied so far

styleVars == <<layers, bodies, style>>
consumerVars == <<widgets, controls, interactions>>
vars == <<styleVars, consumerVars, annotations, pins, applied>>

-----------------------------------------------------------------------------
(* The parts of a composition *)

\* A layer's style is a shared one or an inline one, named by its layer.
Layer == [source : Sources, visible : BOOLEAN,
          style : SharedStyles \union LayerIds \union {None}]

\* Widgets and controls read a layer by its source id or by its own.
Consumer == [source : Sources \union LayerIds \union {None}]

Target(kind, id) == [kind |-> kind, id |-> id]

Targets ==
    [kind : {"layer"}, id : LayerIds] \union [kind : {"component"}, id : WidgetIds]
        \union [kind : {"control"}, id : ControlIds] \union [kind : {"region"}, id : RegionIds]

\* componentRef: map, layer:{id}, widget:{id} or control:{id}
Refs ==
    {Map} \union [kind : {"layer"}, id : LayerIds] \union [kind : {"widget"}, id : WidgetIds]
        \union [kind : {"control"}, id : ControlIds]

Interaction == [on : Refs, do : Refs]

\* honua:compositionLayerIds, the sources and the render layers of a map style.
\* A render layer's owner is honua:compositionLayerId, preset when the layer
\* came into the style with one.
Render == [id : LayerIds \union Extras, owner : LayerIds, source : Sources, preset : BOOLEAN]
MapStyle == [captured : SUBSET LayerIds, sources : SUBSET Sources, renders : SUBSET Render]

\* Nothing absent is mistaken for a part, and no map style for a missing one.
ASSUME AbsentAssumption == Absent \notin Layer \union Consumer \union Interaction
ASSUME NoneAssumption == None \notin MapStyle

Composed == {l \in LayerIds : layers[l] # Absent}

Exists(t) ==
    CASE t.kind = "layer" -> layers[t.id] # Absent
      [] t.kind = "component" -> widgets[t.id] # Absent
      [] t.kind = "control" -> controls[t.id] # Absent
      [] OTHER -> t.id \in annotations

\* resolveCompositionTarget and guardPin: the target exists and is not pinned.
Alterable(kind, id) == Exists(Target(kind, id)) /\ Target(kind, id) \notin pins

Apply == applied < MaxCommands /\ applied' = applied + 1

-----------------------------------------------------------------------------
(* Layers *)

\* beforeId chooses a place in the drawing order and must be composed.
AddLayer(l, source, visible, shared, before) ==
    /\ Apply
    /\ l \notin Composed
    /\ before \in Composed \union {None}
    /\ layers' = [layers EXCEPT ![l] = [source |-> source, visible |-> visible, style |-> shared]]
    /\ UNCHANGED <<bodies, style, consumerVars, annotations, pins>>

Remaining(l) == Composed \ {l}

StillDeclared(source, l) == \E other \in Remaining(l) : layers[other].source = source

\* Mutated: only the layer's source id is looked for, not its own id.
OrphanedBySourceOnly(consumer, l) ==
    /\ consumer # Absent
    /\ consumer.source = layers[l].source
    /\ ~StillDeclared(consumer.source, l)

\* layerRemovalBlocker: what would read a source no remaining layer declares.
Orphaned(consumer, l) ==
    /\ consumer # Absent
    /\ consumer.source \in {l, layers[l].source}
    /\ ~StillDeclared(consumer.source, l)

\* Mutated: the render layers and their sources go, the captured owner stays.
StyleKeepingOwner(l) ==
    IF style = None THEN None
    ELSE [captured |-> style.captured,
          sources |-> {s \in style.sources : s # layers[l].source \/ StillDeclared(s, l)},
          renders |-> {r \in style.renders : r.id # l /\ r.owner # l}]

\* The saved map style forgets the layer, its render layers and its source,
\* unless another layer reads the same one.
StyleWithout(l) ==
    IF style = None THEN None
    ELSE [captured |-> style.captured \ {l},
          sources |-> {s \in style.sources : s # layers[l].source \/ StillDeclared(s, l)},
          renders |-> {r \in style.renders : r.id # l /\ r.owner # l}]

RemoveLayer(l) ==
    /\ Apply
    /\ Alterable("layer", l)
    /\ \A w \in WidgetIds : ~Orphaned(widgets[w], l)
    /\ \A c \in ControlIds : ~Orphaned(controls[c], l)
    /\ layers' = [layers EXCEPT ![l] = Absent]
    /\ bodies' = bodies \ {l}
    /\ style' = StyleWithout(l)
    /\ UNCHANGED <<consumerVars, annotations, pins>>

\* setLayerStyleRef with a shared style or none: an inline body stays behind.
SetLayerStyleRef(l, shared) ==
    /\ Apply
    /\ Alterable("layer", l)
    /\ layers' = [layers EXCEPT ![l].style = shared]
    /\ UNCHANGED <<bodies, style, consumerVars, annotations, pins>>

\* setLayerStyleRef with a styleBody
SetInlineStyle(l) ==
    /\ Apply
    /\ Alterable("layer", l)
    /\ bodies' = bodies \union {l}
    /\ layers' = [layers EXCEPT ![l].style = l]
    /\ UNCHANGED <<style, consumerVars, annotations, pins>>

SetVisibility(l, visible) ==
    /\ Apply
    /\ Alterable("layer", l)
    /\ layers' = [layers EXCEPT ![l].visible = visible]
    /\ UNCHANGED <<bodies, style, consumerVars, annotations, pins>>

-----------------------------------------------------------------------------
(* The map style *)

\* The layers the map composes itself: those no saved style captured.
Dynamic == IF style = None THEN Composed ELSE Composed \ style.captured

SavedRenders == IF style = None THEN {} ELSE style.renders

SavedSources == IF style = None THEN {} ELSE style.sources

\* editableMapStyle: the saved render layers and one for each dynamic layer.
SnapshotRenders ==
    SavedRenders \union
        {[id |-> l, owner |-> l, source |-> layers[l].source, preset |-> FALSE] :
            l \in {d \in Dynamic : \A r \in SavedRenders : r.id # d}}

SnapshotSources == SavedSources \union {layers[l].source : l \in Dynamic}

\* Mutated: a new render layer keeps the owner it was drawn with, none.
NewRendersUnbound ==
    {r \in [id : Extras, owner : {None}, source : SnapshotSources, preset : {FALSE}] :
        \A old \in SnapshotRenders : old.id # r.id}

\* bindNewRenderLayerOwners: a new render layer is given a composed owner that
\* reads its source.  One that names an owner already, a copy of another render
\* layer, is taken as it is (map-style-edit.ts:115).
NewRenders ==
    {r \in [id : Extras, owner : LayerIds, source : SnapshotSources, preset : BOOLEAN] :
        /\ r.preset \/ (r.owner \in Composed /\ r.source = layers[r.owner].source)
        /\ \A old \in SnapshotRenders : old.id # r.id}

\* Mutated: pinned layers are not asked for.
SetMapStyleUnguarded(kept, added) ==
    /\ Apply
    /\ kept \subseteq SnapshotRenders /\ added \subseteq NewRenders
    /\ \A r \in kept : r.source \in SnapshotSources
    /\ style' = [captured |-> Composed, sources |-> SnapshotSources,
                 renders |-> kept \union added]
    /\ bodies' = {}
    /\ layers' = [l \in LayerIds |-> IF l \in Composed THEN [layers[l] EXCEPT !.style = None] ELSE Absent]
    /\ UNCHANGED <<consumerVars, annotations, pins>>

\* setMapStyle, as the server answers it: an edit of the canvas's snapshot that
\* changes no source and no owner, draws from no source the style lacks, and
\* captures every composed layer; shared and inline styles are detached.  Every
\* composed layer must be free to change.
SetMapStyle(kept, added) ==
    /\ Apply
    /\ \A l \in Composed : Alterable("layer", l)
    /\ kept \subseteq SnapshotRenders /\ added \subseteq NewRenders
    /\ \A r \in kept : r.source \in SnapshotSources
    /\ style' = [captured |-> Composed, sources |-> SnapshotSources,
                 renders |-> kept \union added]
    /\ bodies' = {}
    /\ layers' = [l \in LayerIds |-> IF l \in Composed THEN [layers[l] EXCEPT !.style = None] ELSE Absent]
    /\ UNCHANGED <<consumerVars, annotations, pins>>

-----------------------------------------------------------------------------
(* Widgets, controls and interactions *)

\* Neither asks whether the source is composed: a consumer may come first.
AddWidget(w, source) ==
    /\ Apply
    /\ widgets[w] = Absent
    /\ widgets' = [widgets EXCEPT ![w] = [source |-> source]]
    /\ UNCHANGED <<styleVars, controls, interactions, annotations, pins>>

RemoveWidget(w) ==
    /\ Apply
    /\ Alterable("component", w)
    /\ widgets' = [widgets EXCEPT ![w] = Absent]
    /\ UNCHANGED <<styleVars, controls, interactions, annotations, pins>>

AddControl(c, source) ==
    /\ Apply
    /\ controls[c] = Absent
    /\ controls' = [controls EXCEPT ![c] = [source |-> source]]
    /\ UNCHANGED <<styleVars, widgets, interactions, annotations, pins>>

\* interactionsReferencingControl
Referencing(c) ==
    {i \in InteractionIds :
        interactions[i] # Absent /\ Target("control", c) \in {interactions[i].on, interactions[i].do}}

\* Bindings of the control are removed with it, or keep it in place.
RemoveControl(c, cascade) ==
    /\ Apply
    /\ Alterable("control", c)
    /\ Referencing(c) # {} => cascade
    /\ controls' = [controls EXCEPT ![c] = Absent]
    /\ interactions' = [i \in InteractionIds |->
                          IF i \in Referencing(c) THEN Absent ELSE interactions[i]]
    /\ UNCHANGED <<styleVars, widgets, annotations, pins>>

\* An interaction is added or replaced by its id, whatever it refers to.
BindInteraction(i, on, do) ==
    /\ Apply
    /\ interactions' = [interactions EXCEPT ![i] = [on |-> on, do |-> do]]
    /\ UNCHANGED <<styleVars, widgets, controls, annotations, pins>>

RemoveInteraction(i) ==
    /\ Apply
    /\ interactions[i] # Absent
    /\ interactions' = [interactions EXCEPT ![i] = Absent]
    /\ UNCHANGED <<styleVars, widgets, controls, annotations, pins>>

-----------------------------------------------------------------------------
(* Annotations and pins *)

AddAnnotation(a) ==
    /\ Apply
    /\ a \notin annotations
    /\ annotations' = annotations \union {a}
    /\ UNCHANGED <<styleVars, consumerVars, pins>>

RemoveAnnotation(a) ==
    /\ Apply
    /\ Alterable("region", a)
    /\ annotations' = annotations \ {a}
    /\ UNCHANGED <<styleVars, consumerVars, pins>>

Pin(t) ==
    /\ Apply
    /\ Exists(t)
    /\ pins' = pins \union {t}
    /\ UNCHANGED <<styleVars, consumerVars, annotations>>

Unpin(t) ==
    /\ Apply
    /\ pins' = pins \ {t}
    /\ UNCHANGED <<styleVars, consumerVars, annotations>>

-----------------------------------------------------------------------------
\* createEmptyCompositionState
Init ==
    /\ layers = [l \in LayerIds |-> Absent]
    /\ bodies = {} /\ style = None
    /\ widgets = [w \in WidgetIds |-> Absent]
    /\ controls = [c \in ControlIds |-> Absent]
    /\ interactions = [i \in InteractionIds |-> Absent]
    /\ annotations = {} /\ pins = {}
    /\ applied = 0

ChangeLayer ==
    \/ \E l \in LayerIds, source \in Sources, visible \in BOOLEAN, shared \in SharedStyles \union {None},
          before \in LayerIds \union {None} : AddLayer(l, source, visible, shared, before)
    \/ \E l \in LayerIds : RemoveLayer(l)
    \/ \E l \in LayerIds, shared \in SharedStyles \union {None} : SetLayerStyleRef(l, shared)
    \/ \E l \in LayerIds : SetInlineStyle(l)
    \/ \E l \in LayerIds, visible \in BOOLEAN : SetVisibility(l, visible)
    \/ \E kept \in SUBSET SnapshotRenders, added \in SUBSET NewRenders : SetMapStyle(kept, added)

ChangeConsumer ==
    \/ \E w \in WidgetIds, source \in Sources \union LayerIds \union {None} : AddWidget(w, source)
    \/ \E w \in WidgetIds : RemoveWidget(w)
    \/ \E c \in ControlIds, source \in Sources \union LayerIds \union {None} : AddControl(c, source)
    \/ \E c \in ControlIds, cascade \in BOOLEAN : RemoveControl(c, cascade)
    \/ \E i \in InteractionIds, on \in Refs, do \in Refs : BindInteraction(i, on, do)
    \/ \E i \in InteractionIds : RemoveInteraction(i)

ChangeMark ==
    \/ \E a \in RegionIds : AddAnnotation(a)
    \/ \E a \in RegionIds : RemoveAnnotation(a)
    \/ \E t \in Targets : Pin(t)
    \/ \E t \in Targets : Unpin(t)

Next == ChangeLayer \/ ChangeConsumer \/ ChangeMark

Spec == Init /\ [][Next]_vars

-----------------------------------------------------------------------------
\* Every table maps its ids to what the code's types allow, or to nothing.
TypeOK ==
    /\ layers \in [LayerIds -> Layer \union {Absent}]
    /\ bodies \subseteq LayerIds
    /\ style \in MapStyle \union {None}
    /\ widgets \in [WidgetIds -> Consumer \union {Absent}]
    /\ controls \in [ControlIds -> Consumer \union {Absent}]
    /\ interactions \in [InteractionIds -> Interaction \union {Absent}]
    /\ annotations \subseteq RegionIds
    /\ pins \subseteq Targets
    /\ applied \in Nat

\* The inline styles are those of composed layers, and a layer that has one has
\* its own and finds its body: a layer added again under an old id starts unstyled.
InlineStylesWhole ==
    /\ bodies \subseteq Composed
    /\ \A l \in Composed : layers[l].style \in LayerIds => layers[l].style = l /\ l \in bodies

\* The saved map style leaves every layer added later to the map: a layer
\* removed and added again is not taken for one the style captured.  What it
\* draws belongs to composed layers, each from its own source, which the style
\* still has, but for render layers that came with an owner.  No render layer
\* has the id of a layer that does not own it.
MapStyleWhole ==
    style # None =>
        /\ style.captured \subseteq Composed
        /\ \A r \in style.renders :
             \/ r.preset /\ r.id \in Extras
             \/ /\ r.owner \in style.captured
                /\ r.id \in Extras \union {r.owner}
                /\ r.source = layers[r.owner].source
                /\ r.source \in style.sources

\* This does not hold.  Every render layer of the saved map style belongs to a
\* composed layer, which its removal asks for ("New render layers require an
\* explicit/unique owner from the actual composition", map-style-edit.ts:102),
\* and the style has the source it draws from.  A copy moved to another layer's
\* source keeps the owner it was copied with and is not looked at again: when
\* the layer it reads is removed, the source goes and the copy stays.
RendersHaveSources ==
    style # None =>
        \A r \in style.renders : r.owner \in Composed /\ r.source \in style.sources

\* No command leaves a style behind that nothing composed explains.
StylesWhole == InlineStylesWhole /\ MapStyleWhole

\* What a target looks like: everything a command could change about it, the
\* render layers and the inline body of a layer included.
Appearance(t) ==
    CASE t.kind = "layer" ->
           <<layers[t.id], t.id \in bodies, {r \in SavedRenders : r.owner = t.id},
             t.id \in Dynamic>>
      [] t.kind = "component" -> <<widgets[t.id]>>
      [] t.kind = "control" -> <<controls[t.id]>>
      [] OTHER -> <<t.id \in annotations>>

\* A pinned target exists and stays as it is for as long as it is pinned,
\* whatever is done to its neighbours: a shared source, a render layer, the
\* whole map style.
PinsProtect == [][\A t \in pins \intersect pins' : Exists(t) /\ Appearance(t)' = Appearance(t)]_vars

Resolves(consumer) ==
    \/ consumer.source = None
    \/ \E l \in Composed : consumer.source \in {l, layers[l].source}

\* A reference that resolves goes on resolving while it stands: no command
\* takes the layer a widget or control reads, by id or by source, or the
\* control an interaction listens to or acts on.
ReferencesStay ==
    [][/\ \A w \in WidgetIds : Absent \notin {widgets[w], widgets'[w]} /\ Resolves(widgets[w])
                                 => Resolves(widgets[w])'
       /\ \A c \in ControlIds : Absent \notin {controls[c], controls'[c]} /\ Resolves(controls[c])
                                 => Resolves(controls[c])'
       /\ \A i \in InteractionIds, c \in ControlIds :
             interactions'[i] = interactions[i] /\ i \in Referencing(c) /\ controls[c] # Absent
                => controls'[c] # Absent]_vars

=============================================================================
