---------------------- MODULE CompositionReducerProofs ----------------------
(***************************************************************************)
(* Proofs about CompositionReducer for any ids, sources and styles: types, *)
(* whole styles, protected pins, stable references, and the server's tools *)
(* mirroring its commands.                                                 *)
(*                                                                         *)
(* The styles are inductive with the types.  A pin protects its target     *)
(* only because it also keeps it in existence, which the inductive         *)
(* invariant adds.                                                         *)
(***************************************************************************)
EXTENDS FixtureTools, TLAPS

\* Every pin names a part of the composition.
PinsExist == \A t \in pins : Exists(t)

IInv == TypeOK /\ StylesWhole /\ PinsExist

-----------------------------------------------------------------------------
\* The commands on layers keep the types.
LEMMA ChangeLayerType == TypeOK /\ ChangeLayer => TypeOK'
<1> SUFFICES ASSUME TypeOK, ChangeLayer PROVE TypeOK'
  OBVIOUS
<1> USE DEF TypeOK, Apply, Layer, Composed
<1>1. ASSUME NEW l \in LayerIds, NEW source \in Sources, NEW visible \in BOOLEAN,
             NEW shared \in SharedStyles \union {None}, NEW before \in LayerIds \union {None},
             AddLayer(l, source, visible, shared, before)
      PROVE  TypeOK'
  BY <1>1 DEF AddLayer, consumerVars
<1>2. ASSUME NEW l \in LayerIds, RemoveLayer(l) PROVE TypeOK'
  <2>1. style' \in MapStyle \union {None}
    BY <1>2 DEF RemoveLayer, StyleWithout, MapStyle
  <2> QED BY <1>2, <2>1 DEF RemoveLayer, consumerVars
<1>3. ASSUME NEW l \in LayerIds, NEW shared \in SharedStyles \union {None},
             SetLayerStyleRef(l, shared)
      PROVE  TypeOK'
  BY <1>3 DEF SetLayerStyleRef, Alterable, Exists, Target, consumerVars
<1>4. ASSUME NEW l \in LayerIds, SetInlineStyle(l) PROVE TypeOK'
  BY <1>4 DEF SetInlineStyle, Alterable, Exists, Target, consumerVars
<1>5. ASSUME NEW l \in LayerIds, NEW visible \in BOOLEAN, SetVisibility(l, visible) PROVE TypeOK'
  BY <1>5 DEF SetVisibility, Alterable, Exists, Target, consumerVars
<1>6. ASSUME NEW kept \in SUBSET SnapshotRenders, NEW added \in SUBSET NewRenders,
             SetMapStyle(kept, added)
      PROVE  TypeOK'
  <2>1. SnapshotSources \subseteq Sources
    BY DEF SnapshotSources, SavedSources, MapStyle, Dynamic
  <2>2. kept \subseteq Render /\ added \subseteq Render
    <3>1. SavedRenders \subseteq Render
      BY DEF SavedRenders, MapStyle
    <3>2. \A l \in Dynamic : l \in LayerIds /\ layers[l].source \in Sources
      BY DEF Dynamic
    <3>3. SnapshotRenders \subseteq Render
      <4>1. \A l \in Dynamic :
               [id |-> l, owner |-> l, source |-> layers[l].source, preset |-> FALSE] \in Render
        BY <3>2 DEF Render
      <4>2. \A r \in SnapshotRenders :
               \/ r \in SavedRenders
               \/ \E l \in Dynamic :
                     r = [id |-> l, owner |-> l, source |-> layers[l].source, preset |-> FALSE]
        BY DEF SnapshotRenders
      <4> HIDE DEF Layer, TypeOK
      <4> QED BY <3>1, <4>1, <4>2
    <3>4. NewRenders \subseteq Render
      BY <2>1 DEF NewRenders, Render
    <3> QED BY <3>3, <3>4
  <2>3. style' \in MapStyle
    BY <1>6, <2>1, <2>2 DEF SetMapStyle, MapStyle
  <2>4. layers' \in [LayerIds -> Layer \union {Absent}]
    BY <1>6 DEF SetMapStyle
  <2> QED BY <1>6, <2>3, <2>4 DEF SetMapStyle, consumerVars
<1> QED BY <1>1, <1>2, <1>3, <1>4, <1>5, <1>6 DEF ChangeLayer

\* The commands on widgets, controls and interactions keep the types.
LEMMA ChangeConsumerType == TypeOK /\ ChangeConsumer => TypeOK'
<1> SUFFICES ASSUME TypeOK, ChangeConsumer PROVE TypeOK'
  OBVIOUS
<1> USE DEF TypeOK, Apply, Consumer, styleVars
<1>1. ASSUME NEW w \in WidgetIds, NEW source \in Sources \union LayerIds \union {None},
             AddWidget(w, source)
      PROVE  TypeOK'
  BY <1>1 DEF AddWidget
<1>2. ASSUME NEW w \in WidgetIds, RemoveWidget(w) PROVE TypeOK'
  BY <1>2 DEF RemoveWidget
<1>3. ASSUME NEW c \in ControlIds, NEW source \in Sources \union LayerIds \union {None},
             AddControl(c, source)
      PROVE  TypeOK'
  BY <1>3 DEF AddControl
<1>4. ASSUME NEW c \in ControlIds, NEW cascade \in BOOLEAN, RemoveControl(c, cascade) PROVE TypeOK'
  BY <1>4 DEF RemoveControl
<1>5. ASSUME NEW i \in InteractionIds, NEW on \in Refs, NEW do \in Refs, BindInteraction(i, on, do)
      PROVE  TypeOK'
  BY <1>5 DEF BindInteraction, Interaction
<1>6. ASSUME NEW i \in InteractionIds, RemoveInteraction(i) PROVE TypeOK'
  BY <1>6 DEF RemoveInteraction
<1> QED BY <1>1, <1>2, <1>3, <1>4, <1>5, <1>6 DEF ChangeConsumer

\* Annotations and pins keep the types.
LEMMA ChangeMarkType == TypeOK /\ ChangeMark => TypeOK'
BY DEF ChangeMark, AddAnnotation, RemoveAnnotation, Pin, Unpin, TypeOK, Apply, styleVars, consumerVars

-----------------------------------------------------------------------------
\* The commands on layers keep the inline styles whole.
LEMMA ChangeLayerInline == TypeOK /\ InlineStylesWhole /\ ChangeLayer => InlineStylesWhole'
<1> SUFFICES ASSUME TypeOK, InlineStylesWhole, ChangeLayer PROVE InlineStylesWhole'
  OBVIOUS
<1> USE StylesAssumption, AbsentAssumption DEF TypeOK, InlineStylesWhole, Composed, Layer
<1>1. ASSUME NEW l \in LayerIds, NEW source \in Sources, NEW visible \in BOOLEAN,
             NEW shared \in SharedStyles \union {None}, NEW before \in LayerIds \union {None},
             AddLayer(l, source, visible, shared, before)
      PROVE  InlineStylesWhole'
  BY <1>1 DEF AddLayer
<1>2. ASSUME NEW l \in LayerIds, RemoveLayer(l) PROVE InlineStylesWhole'
  BY <1>2 DEF RemoveLayer
<1>3. ASSUME NEW l \in LayerIds, NEW shared \in SharedStyles \union {None},
             SetLayerStyleRef(l, shared)
      PROVE  InlineStylesWhole'
  BY <1>3 DEF SetLayerStyleRef, Alterable, Exists, Target
<1>4. ASSUME NEW l \in LayerIds, SetInlineStyle(l) PROVE InlineStylesWhole'
  BY <1>4 DEF SetInlineStyle, Alterable, Exists, Target
<1>5. ASSUME NEW l \in LayerIds, NEW visible \in BOOLEAN, SetVisibility(l, visible)
      PROVE  InlineStylesWhole'
  BY <1>5 DEF SetVisibility, Alterable, Exists, Target
<1>6. ASSUME NEW kept \in SUBSET SnapshotRenders, NEW added \in SUBSET NewRenders,
             SetMapStyle(kept, added)
      PROVE  InlineStylesWhole'
  <2>1. bodies' = {}
    BY <1>6 DEF SetMapStyle
  <2>2. \A l \in LayerIds : layers'[l] # Absent => layers'[l].style = None
    BY <1>6 DEF SetMapStyle
  <2> QED BY <2>1, <2>2
<1> HIDE DEF TypeOK, InlineStylesWhole, Composed, Layer
<1> QED BY <1>1, <1>2, <1>3, <1>4, <1>5, <1>6 DEF ChangeLayer

\* The canvas's snapshot draws composed layers, each from its own source, and
\* render layers that came with an owner.
LEMMA SnapshotWhole ==
  ASSUME TypeOK, MapStyleWhole
  PROVE  \A r \in SnapshotRenders \union NewRenders :
            \/ r.preset /\ r.id \in Extras
            \/ /\ r.owner \in Composed /\ r.id \in Extras \union {r.owner}
               /\ r.source = layers[r.owner].source /\ r.source \in SnapshotSources
<1>1. ASSUME NEW r \in SavedRenders
      PROVE  \/ r.preset /\ r.id \in Extras
             \/ /\ r.owner \in Composed /\ r.id \in Extras \union {r.owner}
                /\ r.source = layers[r.owner].source /\ r.source \in SnapshotSources
  BY <1>1 DEF SavedRenders, SnapshotSources, SavedSources, MapStyleWhole
<1>2. ASSUME NEW l \in Dynamic
      PROVE  l \in Composed /\ layers[l].source \in SnapshotSources
  BY <1>2 DEF Dynamic, SnapshotSources
<1>3. ASSUME NEW r \in NewRenders
      PROVE  \/ r.preset /\ r.id \in Extras
             \/ /\ r.owner \in Composed /\ r.id \in Extras \union {r.owner}
                /\ r.source = layers[r.owner].source /\ r.source \in SnapshotSources
  BY <1>3 DEF NewRenders
<1> QED BY <1>1, <1>2, <1>3 DEF SnapshotRenders

\* The commands on layers keep the map style whole.
LEMMA ChangeLayerMapStyle == TypeOK /\ MapStyleWhole /\ ChangeLayer => MapStyleWhole'
<1> SUFFICES ASSUME TypeOK, MapStyleWhole, ChangeLayer PROVE MapStyleWhole'
  OBVIOUS
<1> USE AbsentAssumption, NoneAssumption DEF TypeOK, Composed, Layer
<1>1. ASSUME NEW l \in LayerIds, NEW source \in Sources, NEW visible \in BOOLEAN,
             NEW shared \in SharedStyles \union {None}, NEW before \in LayerIds \union {None},
             AddLayer(l, source, visible, shared, before)
      PROVE  MapStyleWhole'
  BY <1>1 DEF AddLayer, MapStyleWhole, MapStyle
<1>2. ASSUME NEW l \in LayerIds, RemoveLayer(l) PROVE MapStyleWhole'
  <2>1. CASE style = None
    BY <1>2, <2>1 DEF RemoveLayer, StyleWithout, MapStyleWhole
  <2>2. CASE style # None
    <3>1. /\ style'.captured = style.captured \ {l}
          /\ style'.sources = {s \in style.sources : s # layers[l].source \/ StillDeclared(s, l)}
          /\ style'.renders = {r \in style.renders : r.id # l /\ r.owner # l}
      BY <1>2, <2>2 DEF RemoveLayer, StyleWithout
    <3>2. style'.captured \subseteq Composed'
      BY <1>2, <2>2, <3>1 DEF RemoveLayer, MapStyleWhole
    <3>3. ASSUME NEW r \in style'.renders
          PROVE  \/ r.preset /\ r.id \in Extras
                 \/ /\ r.owner \in style'.captured
                    /\ r.id \in Extras \union {r.owner}
                    /\ r.source = layers'[r.owner].source
                    /\ r.source \in style'.sources
      <4> SUFFICES ASSUME ~(r.preset /\ r.id \in Extras)
                   PROVE  /\ r.owner \in style'.captured
                          /\ r.id \in Extras \union {r.owner}
                          /\ r.source = layers'[r.owner].source
                          /\ r.source \in style'.sources
        OBVIOUS
      <4>1. /\ r \in style.renders /\ r.owner # l /\ r.owner \in style.captured
            /\ r.id \in Extras \union {r.owner}
            /\ r.source = layers[r.owner].source /\ r.source \in style.sources
        BY <2>2, <3>1, <3>3 DEF MapStyleWhole
      <4>2. r.owner \in Remaining(l)
        BY <2>2, <4>1 DEF Remaining, MapStyleWhole
      <4>3. StillDeclared(r.source, l)
        BY <4>1, <4>2 DEF StillDeclared
      <4>4. layers'[r.owner] = layers[r.owner]
        BY <1>2, <4>1, <4>2 DEF RemoveLayer, Remaining
      <4> QED BY <3>1, <4>1, <4>3, <4>4
    <3> QED BY <3>2, <3>3 DEF MapStyleWhole
  <2> QED BY <2>1, <2>2
<1>3. ASSUME NEW l \in LayerIds, NEW shared \in SharedStyles \union {None},
             SetLayerStyleRef(l, shared)
      PROVE  MapStyleWhole'
  BY <1>3 DEF SetLayerStyleRef, Alterable, Exists, Target, MapStyleWhole, MapStyle
<1>4. ASSUME NEW l \in LayerIds, SetInlineStyle(l) PROVE MapStyleWhole'
  BY <1>4 DEF SetInlineStyle, Alterable, Exists, Target, MapStyleWhole, MapStyle
<1>5. ASSUME NEW l \in LayerIds, NEW visible \in BOOLEAN, SetVisibility(l, visible)
      PROVE  MapStyleWhole'
  BY <1>5 DEF SetVisibility, Alterable, Exists, Target, MapStyleWhole, MapStyle
<1>6. ASSUME NEW kept \in SUBSET SnapshotRenders, NEW added \in SUBSET NewRenders,
             SetMapStyle(kept, added)
      PROVE  MapStyleWhole'
  <2>1. /\ style'.captured = Composed /\ style'.sources = SnapshotSources
        /\ style'.renders = kept \union added
    BY <1>6 DEF SetMapStyle
  <2>2. \A l \in Composed : layers'[l].source = layers[l].source
    BY <1>6 DEF SetMapStyle
  <2>3. Composed \subseteq Composed'
    BY <1>6 DEF SetMapStyle
  <2>4. \A r \in kept \union added :
          \/ r.preset /\ r.id \in Extras
          \/ /\ r.owner \in Composed /\ r.id \in Extras \union {r.owner}
             /\ r.source = layers[r.owner].source /\ r.source \in SnapshotSources
    BY SnapshotWhole
  <2>5. style'.captured \subseteq Composed'
    BY <2>1, <2>3
  <2>6. \A r \in style'.renders :
          \/ r.preset /\ r.id \in Extras
          \/ /\ r.owner \in style'.captured
             /\ r.id \in Extras \union {r.owner}
             /\ r.source = layers'[r.owner].source
             /\ r.source \in style'.sources
    BY <2>1, <2>2, <2>4
  <2> QED BY <2>5, <2>6 DEF MapStyleWhole
<1> HIDE DEF TypeOK, Composed, Layer
<1> QED BY <1>1, <1>2, <1>3, <1>4, <1>5, <1>6 DEF ChangeLayer

-----------------------------------------------------------------------------
\* What is pinned keeps existing: whatever removes a part asks for its pin.
LEMMA PinsExistStep == IInv /\ [Next]_vars => PinsExist'
<1> SUFFICES ASSUME IInv, [Next]_vars, NEW t \in pins' PROVE Exists(t)'
  BY DEF PinsExist
<1> USE AbsentAssumption DEF IInv, TypeOK, PinsExist
<1>1. CASE UNCHANGED vars
  BY <1>1 DEF vars, styleVars, consumerVars, Exists
<1>2. CASE t \notin pins
  <2>1. PICK u \in Targets : Pin(u)
    BY <1>2 DEF Next, ChangeLayer, ChangeConsumer, ChangeMark, AddLayer, RemoveLayer,
         SetLayerStyleRef, SetInlineStyle, SetVisibility, SetMapStyle, AddWidget, RemoveWidget,
         AddControl, RemoveControl, BindInteraction, RemoveInteraction, AddAnnotation,
         RemoveAnnotation, Unpin, vars
  <2> QED BY <1>2, <2>1 DEF Pin, Exists, styleVars, consumerVars
<1>3. ASSUME t \in pins, ChangeLayer PROVE Exists(t)'
  <2> USE <1>3 DEF Exists, consumerVars
  <2>1. ASSUME NEW l \in LayerIds, NEW source \in Sources, NEW visible \in BOOLEAN,
               NEW shared \in SharedStyles \union {None}, NEW before \in LayerIds \union {None},
               AddLayer(l, source, visible, shared, before)
        PROVE  Exists(t)'
    BY <2>1 DEF AddLayer, Layer, Targets
  <2>2. ASSUME NEW l \in LayerIds, RemoveLayer(l) PROVE Exists(t)'
    BY <2>2 DEF RemoveLayer, Alterable, Target, Targets
  <2>3. ASSUME NEW l \in LayerIds, \/ SetInlineStyle(l)
                                   \/ \E shared \in SharedStyles \union {None} : SetLayerStyleRef(l, shared)
                                   \/ \E visible \in BOOLEAN : SetVisibility(l, visible)
        PROVE  Exists(t)'
    BY <2>3 DEF SetInlineStyle, SetLayerStyleRef, SetVisibility, Layer, Targets, Target, Alterable
  <2>4. ASSUME NEW kept \in SUBSET SnapshotRenders, NEW added \in SUBSET NewRenders,
               SetMapStyle(kept, added)
        PROVE  Exists(t)'
    BY <2>4 DEF SetMapStyle, Composed, Layer, Targets
  <2> QED BY <2>1, <2>2, <2>3, <2>4 DEF ChangeLayer
<1>4. ASSUME t \in pins, ChangeConsumer PROVE Exists(t)'
  <2> USE <1>4 DEF Exists, styleVars, Targets, Target, Alterable
  <2>1. ASSUME NEW w \in WidgetIds, RemoveWidget(w) PROVE Exists(t)'
    BY <2>1 DEF RemoveWidget
  <2>2. ASSUME NEW w \in WidgetIds, NEW source \in Sources \union LayerIds \union {None},
               AddWidget(w, source)
        PROVE  Exists(t)'
    BY <2>2 DEF AddWidget, Consumer
  <2>3. ASSUME NEW c \in ControlIds, NEW source \in Sources \union LayerIds \union {None},
               AddControl(c, source)
        PROVE  Exists(t)'
    BY <2>3 DEF AddControl, Consumer
  <2>4. ASSUME NEW c \in ControlIds, NEW cascade \in BOOLEAN, RemoveControl(c, cascade)
        PROVE  Exists(t)'
    BY <2>4 DEF RemoveControl
  <2>5. ASSUME NEW i \in InteractionIds, \/ RemoveInteraction(i)
                                         \/ \E on \in Refs, do \in Refs : BindInteraction(i, on, do)
        PROVE  Exists(t)'
    BY <2>5 DEF RemoveInteraction, BindInteraction
  <2> QED BY <2>1, <2>2, <2>3, <2>4, <2>5 DEF ChangeConsumer
<1>5. ASSUME t \in pins, ChangeMark PROVE Exists(t)'
  BY <1>5 DEF ChangeMark, AddAnnotation, RemoveAnnotation, Pin, Unpin, Exists, Alterable, Target,
       Targets, styleVars, consumerVars
<1> QED BY <1>1, <1>2, <1>3, <1>4, <1>5 DEF Next

\* The inductive invariant: types, styles as StylesWhole has them and pins with a target.
THEOREM Invariance == Spec => []IInv
<1>1. Init => IInv
  <2> SUFFICES ASSUME Init PROVE IInv
    OBVIOUS
  <2>1. TypeOK
    BY DEF Init, TypeOK
  <2>2. StylesWhole
    BY DEF Init, StylesWhole, InlineStylesWhole, MapStyleWhole, Composed
  <2>3. PinsExist
    BY DEF Init, PinsExist
  <2> QED BY <2>1, <2>2, <2>3 DEF IInv
<1>2. IInv /\ [Next]_vars => IInv'
  <2> SUFFICES ASSUME IInv, [Next]_vars PROVE IInv'
    OBVIOUS
  <2>1. TypeOK /\ InlineStylesWhole /\ MapStyleWhole
    BY DEF IInv, StylesWhole
  <2>2. TypeOK'
    <3>1. CASE UNCHANGED vars
      BY <2>1, <3>1 DEF TypeOK, vars, styleVars, consumerVars
    <3> QED BY <2>1, <3>1, ChangeLayerType, ChangeConsumerType, ChangeMarkType DEF Next
  <2>3. StylesWhole'
    <3>1. CASE UNCHANGED styleVars
      BY <2>1, <3>1 DEF StylesWhole, InlineStylesWhole, MapStyleWhole, Composed, styleVars
    <3>2. CASE ChangeLayer
      BY <2>1, <3>2, ChangeLayerInline, ChangeLayerMapStyle DEF StylesWhole
    <3>3. ASSUME ChangeConsumer \/ ChangeMark \/ UNCHANGED vars PROVE UNCHANGED styleVars
      BY <3>3 DEF ChangeConsumer, ChangeMark, AddWidget, RemoveWidget, AddControl, RemoveControl,
           BindInteraction, RemoveInteraction, AddAnnotation, RemoveAnnotation, Pin, Unpin, vars
    <3> QED BY <3>1, <3>2, <3>3 DEF Next
  <2>4. PinsExist'
    BY PinsExistStep
  <2> QED BY <2>2, <2>3, <2>4 DEF IInv
<1> QED BY <1>1, <1>2, PTL DEF Spec

\* Every composition a sequence of commands reaches is well typed.
THEOREM TypeCorrect == Spec => []TypeOK
<1>1. IInv => TypeOK
  BY DEF IInv
<1> QED BY <1>1, Invariance, PTL

\* No inline style outlives the layer it was made for, and what the saved style draws is
\* of a composed layer and its source, but for render layers that came with an owner.
THEOREM WholeStyles == Spec => []StylesWhole
<1>1. IInv => StylesWhole
  BY DEF IInv
<1> QED BY <1>1, Invariance, PTL

-----------------------------------------------------------------------------
\* A command on layers leaves a pinned layer, its inline body, its render
\* layers and the way it is drawn alone.
LEMMA PinnedLayer ==
  ASSUME IInv, IInv', ChangeLayer, NEW l \in LayerIds, Target("layer", l) \in pins
  PROVE  Appearance(Target("layer", l))' = Appearance(Target("layer", l))
<1> DEFINE mine == {r \in SavedRenders : r.owner = l}
<1>0. l \in Composed
  BY DEF IInv, PinsExist, Exists, Target, Composed
<1>1. SUFFICES /\ layers'[l] = layers[l] /\ (l \in bodies' <=> l \in bodies)
               /\ mine' = mine /\ (l \in Dynamic' <=> l \in Dynamic)
  BY DEF Appearance, Target
<1> USE <1>0, AbsentAssumption, NoneAssumption DEF IInv, TypeOK, Composed, Target
<1>2. ASSUME NEW k \in LayerIds, k # l, UNCHANGED style,
             layers' = [layers EXCEPT ![k] = layers'[k]], bodies \ {k} = bodies' \ {k}
      PROVE  /\ layers'[l] = layers[l] /\ (l \in bodies' <=> l \in bodies)
             /\ mine' = mine /\ (l \in Dynamic' <=> l \in Dynamic)
  BY <1>2 DEF SavedRenders, Dynamic
<1>3. ASSUME NEW k \in LayerIds,
             \/ \E source \in Sources, visible \in BOOLEAN, shared \in SharedStyles \union {None},
                   before \in LayerIds \union {None} : AddLayer(k, source, visible, shared, before)
             \/ \E shared \in SharedStyles \union {None} : SetLayerStyleRef(k, shared)
             \/ SetInlineStyle(k)
             \/ \E visible \in BOOLEAN : SetVisibility(k, visible)
      PROVE  /\ layers'[l] = layers[l] /\ (l \in bodies' <=> l \in bodies)
             /\ mine' = mine /\ (l \in Dynamic' <=> l \in Dynamic)
  <2>1. /\ k # l /\ UNCHANGED style /\ layers' = [layers EXCEPT ![k] = layers'[k]]
        /\ bodies \ {k} = bodies' \ {k}
    BY <1>3 DEF AddLayer, SetLayerStyleRef, SetInlineStyle, SetVisibility, Alterable
  <2> QED BY <1>2, <2>1
<1>7. ASSUME NEW k \in LayerIds, RemoveLayer(k)
      PROVE  /\ layers'[l] = layers[l] /\ (l \in bodies' <=> l \in bodies)
             /\ mine' = mine /\ (l \in Dynamic' <=> l \in Dynamic)
  <2>1. k # l /\ layers'[l] = layers[l] /\ (l \in bodies' <=> l \in bodies)
    BY <1>7 DEF RemoveLayer, Alterable
  <2>2. CASE style = None
    BY <1>7, <2>1, <2>2 DEF RemoveLayer, StyleWithout, SavedRenders, Dynamic
  <2>3. CASE style # None
    <3>1. style' # None /\ style'.captured = style.captured \ {k}
            /\ style'.renders = {r \in style.renders : r.id # k /\ r.owner # k}
      BY <1>7, <2>3 DEF RemoveLayer, StyleWithout, MapStyle
    <3>2. \A r \in style.renders : r.owner = l => r.id # k
      BY <2>1, <2>3, ExtrasAssumption DEF StylesWhole, MapStyleWhole
    <3> QED BY <2>1, <2>3, <3>1, <3>2 DEF SavedRenders, Dynamic
  <2> QED BY <2>1, <2>2, <2>3
<1>8. ASSUME NEW kept \in SUBSET SnapshotRenders, NEW added \in SUBSET NewRenders,
             SetMapStyle(kept, added)
      PROVE  FALSE
  BY <1>8 DEF SetMapStyle, Alterable
<1> HIDE DEF mine, IInv, TypeOK, Composed, Target
<1> QED BY <1>3, <1>7, <1>8 DEF ChangeLayer

\* No command that runs alters what is pinned before and after it.
LEMMA PinsProtectStep ==
  ASSUME IInv, IInv', [Next]_vars, NEW t \in pins \intersect pins'
  PROVE  Exists(t) /\ Appearance(t)' = Appearance(t)
<1>1. Exists(t) /\ t \in Targets
  BY DEF IInv, PinsExist, TypeOK
<1>2. CASE UNCHANGED vars
  BY <1>1, <1>2 DEF Appearance, SavedRenders, Dynamic, Composed, vars, styleVars, consumerVars
<1>3. CASE ChangeLayer
  <2>1. CASE t.kind = "layer"
    <3>1. t.id \in LayerIds /\ t = Target("layer", t.id)
      BY <1>1, <2>1 DEF Targets, Target
    <3> QED BY <1>1, <1>3, <3>1, PinnedLayer
  <2>2. UNCHANGED <<consumerVars, annotations>>
    BY <1>3 DEF ChangeLayer, AddLayer, RemoveLayer, SetLayerStyleRef, SetInlineStyle, SetVisibility,
         SetMapStyle
  <2>3. CASE t.kind # "layer"
    BY <1>1, <2>2, <2>3 DEF Appearance, consumerVars, Targets
  <2> QED BY <1>1, <2>1, <2>3
<1>4. CASE ChangeConsumer
  <2>1. UNCHANGED <<styleVars, annotations>>
    BY <1>4 DEF ChangeConsumer, AddWidget, RemoveWidget, AddControl, RemoveControl, BindInteraction,
         RemoveInteraction
  <2>2. CASE t.kind \in {"layer", "region"}
    BY <1>1, <2>1, <2>2 DEF Appearance, SavedRenders, Dynamic, Composed, styleVars, Targets
  <2>3. ASSUME t.kind = "component" PROVE widgets'[t.id] = widgets[t.id]
    <3>1. t.id \in WidgetIds /\ t = Target("component", t.id) /\ widgets[t.id] # Absent
      BY <1>1, <2>3 DEF Targets, Target, Exists
    <3> QED BY <1>4, <3>1 DEF ChangeConsumer, AddWidget, RemoveWidget, AddControl, RemoveControl,
              BindInteraction, RemoveInteraction, Alterable, IInv, TypeOK
  <2>4. ASSUME t.kind = "control" PROVE controls'[t.id] = controls[t.id]
    <3>1. t.id \in ControlIds /\ t = Target("control", t.id) /\ controls[t.id] # Absent
      BY <1>1, <2>4 DEF Targets, Target, Exists
    <3> QED BY <1>4, <3>1 DEF ChangeConsumer, AddWidget, RemoveWidget, AddControl, RemoveControl,
              BindInteraction, RemoveInteraction, Alterable, IInv, TypeOK
  <2> QED BY <1>1, <2>2, <2>3, <2>4 DEF Appearance, Targets
<1>5. CASE ChangeMark
  <2>1. UNCHANGED <<styleVars, consumerVars>>
    BY <1>5 DEF ChangeMark, AddAnnotation, RemoveAnnotation, Pin, Unpin
  <2>2. ASSUME t.kind = "region" PROVE t.id \in annotations' <=> t.id \in annotations
    <3>1. t = Target("region", t.id) /\ t.id \in annotations
      BY <1>1, <2>2 DEF Targets, Target, Exists
    <3> QED BY <1>5, <3>1 DEF ChangeMark, AddAnnotation, RemoveAnnotation, Pin, Unpin, Alterable
  <2>3. CASE t.kind = "layer"
    BY <1>1, <2>1, <2>3 DEF Appearance, SavedRenders, Dynamic, Composed, styleVars, Targets
  <2> QED BY <1>1, <2>1, <2>2, <2>3 DEF Appearance, Targets, consumerVars
<1> QED BY <1>2, <1>3, <1>4, <1>5 DEF Next

\* What a pin protects stays as it is, for any composition and any commands.
THEOREM ProtectedPins == Spec => PinsProtect
<1>1. IInv /\ IInv' /\ [Next]_vars
        => [\A t \in pins \intersect pins' : Exists(t) /\ Appearance(t)' = Appearance(t)]_vars
  BY PinsProtectStep
<1> QED BY <1>1, Invariance, PTL DEF Spec, PinsProtect

-----------------------------------------------------------------------------
\* No command takes the layer a present consumer resolves to.
LEMMA ResolvesStay ==
  ASSUME TypeOK, ChangeLayer, NEW consumer \in Consumer, Resolves(consumer),
         \A l \in LayerIds : RemoveLayer(l) => ~Orphaned(consumer, l)
  PROVE  Resolves(consumer)'
<1> USE AbsentAssumption DEF TypeOK, Composed, Layer
<1>1. CASE consumer.source = None
  BY <1>1 DEF Resolves
<1>2. ASSUME NEW k \in LayerIds, layers[k] # Absent, consumer.source \in {k, layers[k].source},
             layers'[k] # Absent, layers'[k].source = layers[k].source
      PROVE  Resolves(consumer)'
  BY <1>2 DEF Resolves
<1>3. CASE consumer.source # None
  <2>1. PICK k \in LayerIds : layers[k] # Absent /\ consumer.source \in {k, layers[k].source}
    BY <1>3 DEF Resolves
  <2>2. ASSUME NEW l \in LayerIds, RemoveLayer(l) PROVE Resolves(consumer)'
    <3>1. CASE k # l
      BY <1>2, <2>1, <2>2, <3>1 DEF RemoveLayer
    <3>2. CASE k = l
      <4>1. consumer # Absent /\ ~Orphaned(consumer, l)
        BY <2>2 DEF Consumer
      <4>2. PICK other \in Remaining(l) : layers[other].source = consumer.source
        BY <2>1, <3>2, <4>1 DEF Orphaned, StillDeclared
      <4> QED BY <1>2, <2>2, <4>2 DEF RemoveLayer, Remaining
    <3> QED BY <3>1, <3>2
  <2>3. ASSUME ~ \E l \in LayerIds : RemoveLayer(l)
        PROVE  layers'[k] # Absent /\ layers'[k].source = layers[k].source
    BY <2>1, <2>3 DEF ChangeLayer, AddLayer, SetLayerStyleRef, SetInlineStyle, SetVisibility, SetMapStyle,
         Alterable
  <2> QED BY <1>2, <2>1, <2>2, <2>3
<1> QED BY <1>1, <1>3

\* A step keeps every reference that stands and resolves.
LEMMA ReferencesStep ==
  ASSUME IInv, IInv', [Next]_vars
  PROVE  /\ \A w \in WidgetIds : Absent \notin {widgets[w], widgets'[w]} /\ Resolves(widgets[w])
                                   => Resolves(widgets[w])'
         /\ \A c \in ControlIds : Absent \notin {controls[c], controls'[c]} /\ Resolves(controls[c])
                                   => Resolves(controls[c])'
         /\ \A i \in InteractionIds, c \in ControlIds :
               interactions'[i] = interactions[i] /\ i \in Referencing(c) /\ controls[c] # Absent
                  => controls'[c] # Absent
<1> USE DEF IInv, TypeOK
<1>1. ASSUME NEW w \in WidgetIds, Absent \notin {widgets[w], widgets'[w]}, Resolves(widgets[w])
      PROVE  Resolves(widgets[w])'
  <2>1. CASE ChangeLayer
    <3>1. widgets' = widgets /\ widgets[w] \in Consumer
      BY <1>1, <2>1 DEF ChangeLayer, AddLayer, RemoveLayer, SetLayerStyleRef, SetInlineStyle,
           SetVisibility, SetMapStyle, consumerVars
    <3>2. \A l \in LayerIds : RemoveLayer(l) => ~Orphaned(widgets[w], l)
      BY DEF RemoveLayer
    <3>3. Resolves(widgets[w])' <=> widgets[w].source = None
            \/ \E l \in Composed' : widgets[w].source \in {l, layers'[l].source}
      BY <3>1 DEF Resolves
    <3>4. ASSUME NEW consumer \in Consumer, consumer = widgets[w]
          PROVE  consumer.source = None
                   \/ \E l \in Composed' : consumer.source \in {l, layers'[l].source}
      BY <1>1, <2>1, <3>2, <3>4, ResolvesStay DEF Resolves
    <3> QED BY <3>1, <3>3, <3>4
  <2>2. CASE ~ChangeLayer
    BY <1>1, <2>2 DEF Next, ChangeConsumer, ChangeMark, AddWidget, RemoveWidget, AddControl,
         RemoveControl, BindInteraction, RemoveInteraction, AddAnnotation, RemoveAnnotation, Pin,
         Unpin, Resolves, Composed, vars, styleVars, consumerVars
  <2> QED BY <2>1, <2>2
<1>2. ASSUME NEW c \in ControlIds, Absent \notin {controls[c], controls'[c]}, Resolves(controls[c])
      PROVE  Resolves(controls[c])'
  <2>1. CASE ChangeLayer
    <3>1. controls' = controls /\ controls[c] \in Consumer
      BY <1>2, <2>1 DEF ChangeLayer, AddLayer, RemoveLayer, SetLayerStyleRef, SetInlineStyle,
           SetVisibility, SetMapStyle, consumerVars
    <3>2. \A l \in LayerIds : RemoveLayer(l) => ~Orphaned(controls[c], l)
      BY DEF RemoveLayer
    <3>3. Resolves(controls[c])' <=> controls[c].source = None
            \/ \E l \in Composed' : controls[c].source \in {l, layers'[l].source}
      BY <3>1 DEF Resolves
    <3>4. ASSUME NEW consumer \in Consumer, consumer = controls[c]
          PROVE  consumer.source = None
                   \/ \E l \in Composed' : consumer.source \in {l, layers'[l].source}
      BY <1>2, <2>1, <3>2, <3>4, ResolvesStay DEF Resolves
    <3> QED BY <3>1, <3>3, <3>4
  <2>2. CASE ~ChangeLayer
    BY <1>2, <2>2 DEF Next, ChangeConsumer, ChangeMark, AddWidget, RemoveWidget, AddControl,
         RemoveControl, BindInteraction, RemoveInteraction, AddAnnotation, RemoveAnnotation, Pin,
         Unpin, Resolves, Composed, vars, styleVars, consumerVars
  <2> QED BY <2>1, <2>2
<1>3. ASSUME NEW i \in InteractionIds, NEW c \in ControlIds,
             interactions'[i] = interactions[i], i \in Referencing(c), controls[c] # Absent
      PROVE  controls'[c] # Absent
  <2>1. interactions'[i] # Absent
    BY <1>3 DEF Referencing
  <2>2. ASSUME NEW d \in ControlIds, NEW cascade \in BOOLEAN, RemoveControl(d, cascade)
        PROVE  controls'[c] # Absent
    BY <1>3, <2>1, <2>2 DEF RemoveControl
  <2>3. ASSUME NEW d \in ControlIds, NEW source \in Sources \union LayerIds \union {None},
               AddControl(d, source)
        PROVE  controls'[c] # Absent
    BY <1>3, <2>3 DEF AddControl
  <2>4. ASSUME UNCHANGED controls PROVE controls'[c] # Absent
    BY <1>3, <2>4
  <2>5. \/ UNCHANGED controls
        \/ \E d \in ControlIds, cascade \in BOOLEAN : RemoveControl(d, cascade)
        \/ \E d \in ControlIds, source \in Sources \union LayerIds \union {None} : AddControl(d, source)
    BY DEF Next, ChangeLayer, ChangeConsumer, ChangeMark, AddLayer, RemoveLayer, SetLayerStyleRef,
         SetInlineStyle, SetVisibility, SetMapStyle, AddWidget, RemoveWidget, BindInteraction,
         RemoveInteraction, AddAnnotation, RemoveAnnotation, Pin, Unpin, vars, consumerVars
  <2> QED BY <2>2, <2>3, <2>4, <2>5
<1> QED BY <1>1, <1>2, <1>3

\* No command leaves a widget, a control or an interaction with a reference
\* that no longer resolves.
THEOREM StableReferences == Spec => ReferencesStay
<1>1. IInv /\ IInv' /\ [Next]_vars
        => [/\ \A w \in WidgetIds : Absent \notin {widgets[w], widgets'[w]} /\ Resolves(widgets[w])
                                       => Resolves(widgets[w])'
            /\ \A c \in ControlIds : Absent \notin {controls[c], controls'[c]} /\ Resolves(controls[c])
                                       => Resolves(controls[c])'
            /\ \A i \in InteractionIds, c \in ControlIds :
                  interactions'[i] = interactions[i] /\ i \in Referencing(c) /\ controls[c] # Absent
                     => controls'[c] # Absent]_vars
  BY ReferencesStep
<1> QED BY <1>1, Invariance, PTL DEF Spec, ReferencesStay

(***************************************************************************)
(* The server's tools.  Only the types of the tables are needed: each tool *)
(* agrees with its command in every well-typed composition.                *)
(***************************************************************************)
\* Removing a layer: the render layers, the sources and the captured owners
\* that go are the same ones.
LEMMA RemoveLayerMirrors ==
    ASSUME TypeOK, NEW l \in LayerIds, RemoveLayer(l)
    PROVE  Body' = ToolRemoveLayer(Body, l)
<1>1. \A s \in Sources \union LayerIds \union {None} :
          SourceStillUsed(Body, l, s) <=> StillDeclared(s, l)
  BY DEF SourceStillUsed, StillDeclared, Remaining, Composed, Body
<1>2. layers[l] \in Layer /\ layers[l] # Absent /\ layers[l].source \in Sources
  BY AbsentAssumption DEF RemoveLayer, Alterable, Exists, Target, TypeOK, Layer
<1>3. MapSpecWithoutLayer(Body, l) = StyleWithout(l)
  <2>1. CASE style = None
    BY <2>1 DEF MapSpecWithoutLayer, StyleWithout, Body
  <2>2. CASE style # None
    <3>1. style.sources \subseteq Sources
      BY <2>2 DEF TypeOK, MapStyle
    <3>2. {s \in style.sources : s = layers[l].source => SourceStillUsed(Body, l, s)}
            = {s \in style.sources : s # layers[l].source \/ StillDeclared(s, l)}
      BY <1>1, <3>1
    <3>3. {r \in style.renders : l \notin {r.id, r.owner}}
            = {r \in style.renders : r.id # l /\ r.owner # l}
      OBVIOUS
    <3> QED
      BY <2>2, <3>2, <3>3 DEF MapSpecWithoutLayer, StyleWithout, Body
  <2> QED
    BY <2>1, <2>2
<1>4. ~RemovalBlocked(Body, l)
  <2>1. ASSUME NEW consumer, consumer # Absent, consumer \in Consumer, ~Orphaned(consumer, l)
        PROVE  ~(/\ consumer.source \in {l, Body.layers[l].source}
                 /\ ~SourceStillUsed(Body, l, consumer.source))
    <3>1. consumer.source \in Sources \union LayerIds \union {None}
      BY <2>1 DEF Consumer
    <3>2. Body.layers[l] = layers[l]
      BY DEF Body
    <3> QED
      BY <1>1, <2>1, <3>1, <3>2 DEF Orphaned
  <2>2. \A w \in WidgetIds : widgets[w] = Absent \/ widgets[w] \in Consumer
    BY DEF TypeOK
  <2>3. \A c \in ControlIds : controls[c] = Absent \/ controls[c] \in Consumer
    BY DEF TypeOK
  <2> QED
    BY <2>1, <2>2, <2>3 DEF RemovalBlocked, RemoveLayer, Body
<1>5. Body' = WithoutLayer(Body, l)
  <2>1. WithoutLayer(Body, l)
          = [layers |-> Without(layers, l), styleRefs |-> bodies \ {l},
             mapSpec |-> StyleWithout(l), widgets |-> widgets, controls |-> controls,
             interactions |-> interactions]
    <3>1. Body.layers = layers /\ Body.styleRefs = bodies
      BY DEF Body
    <3>2. WithoutLayer(Body, l) = [Body EXCEPT !.layers = Without(layers, l),
                                     !.styleRefs = bodies \ {l}, !.mapSpec = StyleWithout(l)]
      BY <1>3, <3>1 DEF WithoutLayer
    <3>3. ASSUME NEW x, NEW y, NEW z, NEW next,
                 next = [Body EXCEPT !.layers = x, !.styleRefs = y, !.mapSpec = z]
          PROVE  next = [layers |-> x, styleRefs |-> y, mapSpec |-> z, widgets |-> widgets,
                         controls |-> controls, interactions |-> interactions]
      BY <3>3 DEF Body
    <3> QED
      BY <3>2, <3>3
  <2>2. /\ layers' = Without(layers, l) /\ bodies' = bodies \ {l} /\ style' = StyleWithout(l)
        /\ widgets' = widgets /\ controls' = controls /\ interactions' = interactions
    BY DEF RemoveLayer, Without, consumerVars
  <2> QED
    BY <2>1, <2>2 DEF Body
<1> QED
  BY <1>2, <1>4, <1>5 DEF ToolRemoveLayer, Body

\* The tools that change layers.
LEMMA LayerToolsStep == TypeOK => LayerToolsMirror
<1> SUFFICES ASSUME TypeOK PROVE LayerToolsMirror
  OBVIOUS
<1>1. ASSUME NEW l \in LayerIds, NEW source \in Sources, NEW visible \in BOOLEAN,
             NEW shared \in SharedStyles \union {None}, NEW before \in LayerIds \union {None},
             AddLayer(l, source, visible, shared, before)
      PROVE  Body' = ToolAddLayer(Body, l, [source |-> source, visible |-> visible,
                                            style |-> shared])
  BY <1>1 DEF AddLayer, ToolAddLayer, Body, Composed, consumerVars
<1>2. ASSUME NEW l \in LayerIds, NEW shared \in SharedStyles \union {None},
             SetLayerStyleRef(l, shared)
      PROVE  Body' = ToolSetLayerStyle(Body, l, WithStyleRef(Body, l, shared))
  BY <1>2 DEF SetLayerStyleRef, ToolSetLayerStyle, WithStyleRef, Body, Alterable, Exists, Target,
              consumerVars
<1>3. ASSUME NEW l \in LayerIds, SetInlineStyle(l)
      PROVE  Body' = ToolSetLayerStyle(Body, l, WithStyleBody(Body, l))
  BY <1>3 DEF SetInlineStyle, ToolSetLayerStyle, WithStyleBody, Body, Alterable, Exists, Target,
              consumerVars
<1>4. ASSUME NEW l \in LayerIds, NEW visible \in BOOLEAN, SetVisibility(l, visible)
      PROVE  Body' = ToolSetVisibility(Body, l, visible)
  BY <1>4 DEF SetVisibility, ToolSetVisibility, Body, Alterable, Exists, Target, consumerVars
<1> QED
  BY <1>1, <1>2, <1>3, <1>4, RemoveLayerMirrors DEF LayerToolsMirror

\* Removing a control: with its interactions when the call says so, and only
\* without any when it does not.
LEMMA RemoveControlMirrors ==
    ASSUME TypeOK, NEW c \in ControlIds, NEW cascade \in BOOLEAN, RemoveControl(c, cascade)
    PROVE  Body' = ToolRemoveControl(Body, c, cascade)
<1>1. ReferencedBy(Body, c) = Referencing(c)
  BY DEF ReferencedBy, Referencing, Body
<1>2. \A i \in InteractionIds : i \in Referencing(c) <=> cascade /\ i \in ReferencedBy(Body, c)
  BY <1>1 DEF RemoveControl
<1>3. controls[c] # Absent /\ (Referencing(c) # {} => cascade)
  BY DEF RemoveControl, Alterable, Exists, Target
<1>4. interactions' = [i \in InteractionIds |->
          IF cascade /\ i \in ReferencedBy(Body, c) THEN Absent ELSE interactions[i]]
  BY <1>2 DEF RemoveControl
<1>5. Body' = [Body EXCEPT !.controls = Without(@, c),
                           !.interactions = [i \in InteractionIds |->
                   IF cascade /\ i \in ReferencedBy(Body, c) THEN Absent ELSE @[i]]]
  <2> DEFINE kept == [i \in InteractionIds |->
                IF cascade /\ i \in ReferencedBy(Body, c) THEN Absent ELSE interactions[i]]
  <2>1. [Body EXCEPT !.controls = Without(@, c),
                     !.interactions = [i \in InteractionIds |->
             IF cascade /\ i \in ReferencedBy(Body, c) THEN Absent ELSE @[i]]]
          = [layers |-> layers, styleRefs |-> bodies, mapSpec |-> style, widgets |-> widgets,
             controls |-> Without(controls, c), interactions |-> kept]
    <3>1. Body.controls = controls /\ Body.interactions = interactions
      BY DEF Body
    <3>2. ASSUME NEW x, NEW y, NEW next, next = [Body EXCEPT !.controls = x, !.interactions = y]
          PROVE  next = [layers |-> layers, styleRefs |-> bodies, mapSpec |-> style,
                         widgets |-> widgets, controls |-> x, interactions |-> y]
      BY <3>2 DEF Body
    <3> QED
      BY <3>1, <3>2, ZenonT(60)
  <2>2. /\ layers' = layers /\ bodies' = bodies /\ style' = style /\ widgets' = widgets
        /\ controls' = Without(controls, c) /\ interactions' = kept
    BY <1>4 DEF RemoveControl, Without, styleVars
  <2> QED
    BY <2>1, <2>2 DEF Body
<1> QED
  BY <1>1, <1>3, <1>5 DEF ToolRemoveControl, Body

\* The tools that change widgets, controls and interactions.
LEMMA ConsumerToolsStep == TypeOK => ConsumerToolsMirror
<1> SUFFICES ASSUME TypeOK PROVE ConsumerToolsMirror
  OBVIOUS
<1>1. ASSUME NEW w \in WidgetIds, NEW source \in Sources \union LayerIds \union {None},
             AddWidget(w, source)
      PROVE  Body' = ToolAddWidget(Body, w, source)
  BY <1>1 DEF AddWidget, ToolAddWidget, Body, styleVars
<1>2. ASSUME NEW w \in WidgetIds, RemoveWidget(w)
      PROVE  Body' = ToolRemoveWidget(Body, w)
  BY <1>2 DEF RemoveWidget, ToolRemoveWidget, Without, Body, Alterable, Exists, Target, styleVars
<1>3. ASSUME NEW c \in ControlIds, NEW source \in Sources \union LayerIds \union {None},
             AddControl(c, source)
      PROVE  Body' = ToolAddControl(Body, c, source)
  BY <1>3 DEF AddControl, ToolAddControl, Body, styleVars
<1>4. ASSUME NEW i \in InteractionIds, NEW on \in Refs, NEW do \in Refs,
             BindInteraction(i, on, do)
      PROVE  Body' = ToolBindInteraction(Body, i, on, do)
  BY <1>4 DEF BindInteraction, ToolBindInteraction, Body, styleVars
<1>5. ASSUME NEW i \in InteractionIds, RemoveInteraction(i)
      PROVE  Body' = ToolRemoveInteraction(Body, i)
  BY <1>5 DEF RemoveInteraction, ToolRemoveInteraction, Without, Body, styleVars
<1> QED
  BY <1>1, <1>2, <1>3, <1>4, <1>5, RemoveControlMirrors DEF ConsumerToolsMirror

\* The server's tools and the reducer agree on every command, whatever the
\* composition, its ids and the number of commands before.
THEOREM MirroredTools == Spec => ToolsMirror
<1>1. TypeOK /\ [Next]_vars => [LayerToolsMirror /\ ConsumerToolsMirror]_vars
  BY LayerToolsStep, ConsumerToolsStep
<1> QED
  BY <1>1, TypeCorrect, PTL DEF Spec, ToolsMirror
=============================================================================
