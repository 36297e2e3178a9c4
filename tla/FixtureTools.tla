---------------------------- MODULE FixtureTools ----------------------------
(***************************************************************************)
(* The composition tools of the loopback server (mock-server.mjs,          *)
(* scripts/lib/mock-composition.mjs): a second implementation of the       *)
(* commands of CompositionReducer, on the body of a draft.  A tool takes a *)
(* body to the next one, or refuses.  The server knows neither pins nor    *)
(* annotations, so a command a pin refuses is not sent.                    *)
(***************************************************************************)
EXTENDS CompositionReducer

Refused == "refused"

\* What the draft holds of the composition.
Body == [layers |-> layers, styleRefs |-> bodies, mapSpec |-> style,
         widgets |-> widgets, controls |-> controls, interactions |-> interactions]

Without(table, id) == [table EXCEPT ![id] = Absent]

-----------------------------------------------------------------------------
(* Layers *)

\* honua_studio_add_layer: an unknown beforeId appends.
ToolAddLayer(b, l, layer) ==
    IF b.layers[l] # Absent THEN Refused ELSE [b EXCEPT !.layers[l] = layer]

\* Mutated: the layer that goes counts as a reader of its source.
AnyLayerUses(b, l, s) == \E m \in LayerIds : b.layers[m] # Absent /\ b.layers[m].source = s
\* isSourceStillUsed
SourceStillUsed(b, l, s) ==
    \E m \in LayerIds \ {l} : b.layers[m] # Absent /\ b.layers[m].source = s

\* mapSpecWithoutLayer
MapSpecWithoutLayer(b, l) ==
    IF b.mapSpec = None THEN None
    ELSE [captured |-> b.mapSpec.captured \ {l},
          sources |-> {s \in b.mapSpec.sources :
                          s = b.layers[l].source => SourceStillUsed(b, l, s)},
          renders |-> {r \in b.mapSpec.renders : l \notin {r.id, r.owner}}]

\* compositionWithoutLayer
WithoutLayer(b, l) ==
    [b EXCEPT !.layers = Without(@, l), !.styleRefs = @ \ {l},
              !.mapSpec = MapSpecWithoutLayer(b, l)]

\* layerRemovalBlocker, which the reducer shares.
RemovalBlocked(b, l) ==
    \E consumer \in {b.controls[c] : c \in ControlIds} \union {b.widgets[w] : w \in WidgetIds} :
        /\ consumer # Absent
        /\ consumer.source \in {l, b.layers[l].source}
        /\ ~SourceStillUsed(b, l, consumer.source)

\* honua_studio_remove_layer
ToolRemoveLayer(b, l) ==
    IF b.layers[l] = Absent THEN Refused
    ELSE IF RemovalBlocked(b, l) THEN Refused ELSE WithoutLayer(b, l)

\* compositionWithLayerStyle: a shared style, or none
WithStyleRef(b, l, shared) == [b EXCEPT !.layers[l].style = shared]

\* compositionWithLayerStyle: a style body of the layer's own
WithStyleBody(b, l) == [b EXCEPT !.layers[l].style = l, !.styleRefs = @ \union {l}]

\* honua_studio_set_layer_style
ToolSetLayerStyle(b, l, styled) == IF b.layers[l] = Absent THEN Refused ELSE styled

\* honua_studio_set_layer_visibility
ToolSetVisibility(b, l, visible) ==
    IF b.layers[l] = Absent THEN Refused ELSE [b EXCEPT !.layers[l].visible = visible]

-----------------------------------------------------------------------------
(* Widgets, controls and interactions *)

\* honua_studio_add_widget
ToolAddWidget(b, w, source) ==
    IF b.widgets[w] # Absent THEN Refused
    ELSE [b EXCEPT !.widgets[w] = [source |-> source]]

\* honua_studio_remove_widget
ToolRemoveWidget(b, w) ==
    IF b.widgets[w] = Absent THEN Refused ELSE [b EXCEPT !.widgets = Without(@, w)]

\* honua_studio_add_control
ToolAddControl(b, c, source) ==
    IF b.controls[c] # Absent THEN Refused
    ELSE [b EXCEPT !.controls[c] = [source |-> source]]

ReferencedBy(b, c) ==
    {i \in InteractionIds : /\ b.interactions[i] # Absent
                            /\ \/ b.interactions[i].on = Target("control", c)
                               \/ b.interactions[i].do = Target("control", c)}

\* honua_studio_remove_control: what refers to it goes too, if the call says so.
ToolRemoveControl(b, c, cascade) ==
    IF b.controls[c] = Absent \/ (ReferencedBy(b, c) # {} /\ ~cascade) THEN Refused
    ELSE [b EXCEPT !.controls = Without(@, c),
                   !.interactions = [i \in InteractionIds |->
                       IF cascade /\ i \in ReferencedBy(b, c) THEN Absent ELSE @[i]]]

\* honua_studio_bind_interaction
ToolBindInteraction(b, i, on, do) == [b EXCEPT !.interactions[i] = [on |-> on, do |-> do]]

\* honua_studio_remove_interaction
ToolRemoveInteraction(b, i) ==
    IF b.interactions[i] = Absent THEN Refused
    ELSE [b EXCEPT !.interactions = Without(@, i)]

-----------------------------------------------------------------------------
(* Every command the reducer carries out on layers the tool carries out on *)
(* the draft's body, with the same result: none is refused.                *)
LayerToolsMirror ==
    /\ \A l \in LayerIds, source \in Sources, visible \in BOOLEAN,
          shared \in SharedStyles \union {None}, before \in LayerIds \union {None} :
          AddLayer(l, source, visible, shared, before) =>
              Body' = ToolAddLayer(Body, l, [source |-> source, visible |-> visible,
                                             style |-> shared])
    /\ \A l \in LayerIds : RemoveLayer(l) => Body' = ToolRemoveLayer(Body, l)
    /\ \A l \in LayerIds, shared \in SharedStyles \union {None} :
          SetLayerStyleRef(l, shared) =>
              Body' = ToolSetLayerStyle(Body, l, WithStyleRef(Body, l, shared))
    /\ \A l \in LayerIds :
          SetInlineStyle(l) => Body' = ToolSetLayerStyle(Body, l, WithStyleBody(Body, l))
    /\ \A l \in LayerIds, visible \in BOOLEAN :
          SetVisibility(l, visible) => Body' = ToolSetVisibility(Body, l, visible)

\* So it is for widgets, controls and interactions.
ConsumerToolsMirror ==
    /\ \A w \in WidgetIds, source \in Sources \union LayerIds \union {None} :
          AddWidget(w, source) => Body' = ToolAddWidget(Body, w, source)
    /\ \A w \in WidgetIds : RemoveWidget(w) => Body' = ToolRemoveWidget(Body, w)
    /\ \A c \in ControlIds, source \in Sources \union LayerIds \union {None} :
          AddControl(c, source) => Body' = ToolAddControl(Body, c, source)
    /\ \A c \in ControlIds, cascade \in BOOLEAN :
          RemoveControl(c, cascade) => Body' = ToolRemoveControl(Body, c, cascade)
    /\ \A i \in InteractionIds, on \in Refs, do \in Refs :
          BindInteraction(i, on, do) => Body' = ToolBindInteraction(Body, i, on, do)
    /\ \A i \in InteractionIds : RemoveInteraction(i) => Body' = ToolRemoveInteraction(Body, i)

\* The client's reducer and the server's tools reach the same composition for
\* the same command, in every composition commands lead to
\* (test/mcp/mock-reducer-parity.test.ts compares a sample of them).
ToolsMirror == [][LayerToolsMirror /\ ConsumerToolsMirror]_vars
=============================================================================
