--------------------------- MODULE MapProjection ---------------------------
(***************************************************************************)
(* The projection of a composition onto a map package                      *)
(* (src/map/map-package-projection.ts) and the resolution of a layer's     *)
(* source against a catalog (src/map/source-resolution.ts).                *)
(*                                                                         *)
(* The projection is a pure function, and a long one: a loop over the      *)
(* composition's layers that edits a copy of the saved map style, and, for *)
(* a reader who is not the author, a review that takes out of that copy    *)
(* whatever the reader's own catalog does not approve.  Here the loop is   *)
(* one step a layer and the review is one step; TLC runs them for every    *)
(* input made of the constants.                                            *)
(*                                                                         *)
(* A source is known by where its data comes from: "inline" (GeoJSON in    *)
(* the document), "asset" (a tile or image address anyone may fetch),      *)
(* "network" (an address the author saved) or "catalog" (the address the   *)
(* current catalog gives).  A visual is a render layer of the style: its   *)
(* id (of a composition layer and a part of it, or of neither), the owner  *)
(* its metadata claims, its source, and whether it names a source-layer.   *)
(* Paint, filters, the view and the legend are left out.                   *)
(***************************************************************************)
EXTENDS Integers, FiniteSets, SequencesExt

CONSTANTS
    LayerLists, \* the compositions projected: their layers
    SavedStyles,\* the map styles saved with them, None among them
    Catalogs,   \* the catalogs of those who read them
    StyleMaps,  \* the authoritative styles a caller supplies, None among them
    None        \* no type, style, owner, source, descriptor or saved style

VARIABLES
    input,      \* the arguments of compositionToMapPackage
    at,         \* the layers the loop has passed
    out,        \* its local variables
    reviewed    \* the reader's review is over

projectionVars == <<input, at, out, reviewed>>

(* An input: the composition's layers, the saved style (or None), the      *)
(* catalog, whether the reader is another one, the authoritative styles by *)
(* layer (or None).                                                        *)
Ids(in) == {in.layers[i].id : i \in DOMAIN in.layers}
LayerOf(in, l) == CHOOSE layer \in ToSet(in.layers) : layer.id = l

-----------------------------------------------------------------------------
(* Sources                                                                 *)

OnlyOne(entries) == IF Cardinality(entries) = 1 THEN CHOOSE e \in entries : TRUE ELSE None

Exact(s, catalog) == {e \in catalog : e.id = s}

(* An entry of that id, else the only one of that service.                 *)
Descriptor(s, catalog) ==
    IF Exact(s, catalog) # {} THEN OnlyOne(Exact(s, catalog))
    ELSE OnlyOne({e \in catalog : e.service = s})

Failure(scope) == [failed |-> scope, source |-> None, type |-> None, binding |-> FALSE]
Resolution(source, type, binding) ==
    [failed |-> None, source |-> source, type |-> type, binding |-> binding]

(* The type a layer asks for can be drawn: none, a vector type, or a       *)
(* raster with a source of its own.                                        *)
CanDraw(layer) == layer.type # "symbol" /\ (layer.type = "raster" => layer.override # None)

(* resolveCompositionSource: whatever the layer's own failure, only a      *)
(* failure of its source is one of scope "source".                         *)
ResolveSource(layer, catalog) ==
    LET entry == Descriptor(layer.source, catalog) IN
    CASE ~CanDraw(layer) -> Failure("layer")
      [] CanDraw(layer) /\ layer.override # None ->
            Resolution(layer.override, IF layer.type = None THEN "fill" ELSE layer.type, FALSE)
      [] CanDraw(layer) /\ layer.override = None ->
            CASE entry = None -> Failure("source")
              [] entry # None /\ (entry.geometry = "raster"
                                  \/ (layer.type = None /\ entry.geometry = None)) ->
                    Failure("layer")
              [] OTHER ->
                    IF entry.protocol # "features" THEN Failure("source")
                    ELSE Resolution("catalog",
                             IF layer.type = None THEN entry.geometry ELSE layer.type, TRUE)

IsOpen(source) == source \in {"inline", "asset"}

(* resolveAudienceSource: neither the layer's own source nor the saved one *)
(* lets an address authorise itself.                                       *)
ResolveForReader(layer, saved, catalog) ==
    LET entry == Descriptor(layer.source, catalog)
        own == \/ layer.override = "inline"
               \/ /\ layer.override = "asset"
                  /\ entry = None \/ entry.protocol # "features"
        kept == IF entry = None /\ IsOpen(saved) THEN saved ELSE None
    IN  CASE Cardinality(Exact(layer.source, catalog)) > 1 -> Failure("source")
          [] Cardinality(Exact(layer.source, catalog)) < 2 ->
                CASE own -> ResolveSource(layer, catalog)
                  [] ~own /\ entry = None /\ layer.override # None -> Failure("source")
                  [] OTHER -> ResolveSource([layer EXCEPT !.override = kept], catalog)

-----------------------------------------------------------------------------
(* Visuals                                                                 *)

PartId(l, part) == [of |-> l, part |-> part]

(* resolveVisualLayerOwner: an id of a layer, or of its outline, comes     *)
(* before what the metadata says.                                          *)
Owner(in, v) ==
    IF v.id.of \in Ids(in) THEN v.id.of
    ELSE IF v.owner \in Ids(in) THEN v.owner ELSE None

OwnVisual(layer, part) ==
    [id |-> PartId(layer.id, part), owner |-> layer.id, source |-> layer.source, tiled |-> FALSE]

(* Mutated: at the end, whatever comes after it in the composition.        *)
AppendVisual(in, visuals, v) == Append(visuals, v)

(* insertVisual: before the first visual of the next layer that has one.   *)
InsertVisual(in, visuals, v) ==
    LET own == CHOOSE i \in DOMAIN in.layers : in.layers[i].id = Owner(in, v)
        later == {i \in own + 1 .. Len(in.layers) :
                     \E n \in DOMAIN visuals : Owner(in, visuals[n]) = in.layers[i].id}
        next == CHOOSE i \in later : \A j \in later : i <= j
        first == CHOOSE n \in DOMAIN visuals :
                     /\ Owner(in, visuals[n]) = in.layers[next].id
                     /\ \A m \in 1 .. n - 1 : Owner(in, visuals[m]) # in.layers[next].id
    IN  IF later = {} THEN Append(visuals, v) ELSE InsertAt(visuals, first, v)

(* The style the projection starts from: the saved one or the basemap.     *)
Furniture == [id |-> PartId(None, "background"), owner |-> None, source |-> None, tiled |-> FALSE]
Basemap == [captured |-> None, sources |-> << >>, visuals |-> <<Furniture>>]

(* Whether the loop composes this layer rather than finding it drawn.      *)
Composes(in, layer) ==
    \/ in.saved = None
    \/ in.saved.captured # None /\ layer.id \notin in.saved.captured

StartOut(in) ==
    LET style == IF in.saved = None THEN Basemap ELSE in.saved
    IN  [sources |-> style.sources, visuals |-> style.visuals, bound |-> {}, denied |-> {},
         bindings |-> {}, refs |-> << >>, rendered |-> << >>, unresolved |-> << >>]

SavedIds(in) ==
    IF in.saved = None THEN {} ELSE {in.saved.visuals[n].id : n \in DOMAIN in.saved.visuals}

Reads(sources, s) == IF s \in DOMAIN sources THEN sources[s] ELSE None

-----------------------------------------------------------------------------
(* The loop                                                                *)

Resolved(in, p, layer) ==
    IF in.reader THEN ResolveForReader(layer, Reads(p.sources, layer.source), in.catalog)
    ELSE ResolveSource(layer, in.catalog)

Report(p, name) == [p EXCEPT !.unresolved = Append(@, name)]

(* Mutated: any failure of a layer takes its source away.                  *)
DenyAlways(in, p, layer, scope) ==
    IF in.reader THEN [p EXCEPT !.denied = @ \cup {layer.source}] ELSE p

(* Only a failure of the source takes it away.                             *)
Deny(in, p, layer, scope) ==
    IF in.reader /\ scope # "layer" THEN [p EXCEPT !.denied = @ \cup {layer.source}] ELSE p

(* Another layer bound the source, and to something else.                  *)
Conflicts(in, p, layer, source) ==
    in.reader /\ layer.source \in p.bound /\ p.sources[layer.source] # source

Authoritative(in, layer) == IF in.styles = None THEN "absent" ELSE in.styles[layer.id]

(* The style may not be drawn from a preset: the catalog's own is awaited. *)
MustBeCanonical(in, layer) ==
    LET entry == Descriptor(layer.source, in.catalog) IN
    /\ layer.style # "inline"
    /\ in.styles # None
    /\ Authoritative(in, layer) # "absent" \/ (entry # None /\ entry.service # None)

(* A style for which there is no binding, or one for an overridden source. *)
StyleMissing(in, layer) ==
    /\ layer.style # None
    /\ MustBeCanonical(in, layer)
    /\ layer.override # None \/ Authoritative(in, layer) \notin {"bound", "mapped"}

(* Mutated: a reader's source is replaced only where its layer is drawn    *)
(* anew.                                                                   *)
BindIfComposed(in, p, layer, found) ==
    IF layer.source \in p.bound THEN p
    ELSE [p EXCEPT !.bound = @ \cup {layer.source},
                   !.sources = IF Composes(in, layer)
                               THEN (layer.source :> found.source) @@ @ ELSE @,
                   !.bindings = IF found.binding THEN @ \cup {layer.source} ELSE @]

(* The first layer of a source puts it into the style.                     *)
Bind(in, p, layer, found) ==
    IF layer.source \in p.bound THEN p
    ELSE [p EXCEPT !.bound = @ \cup {layer.source},
                   !.sources = IF Composes(in, layer) \/ in.reader
                               THEN (layer.source :> found.source) @@ @ ELSE @,
                   !.bindings = IF found.binding THEN @ \cup {layer.source} ELSE @]

(* The layer's own visual and its outline, unless the saved style has one. *)
Draw(in, p, layer, found) ==
    LET Added(visuals, part) ==
            IF Composes(in, layer) /\ PartId(layer.id, part) \notin SavedIds(in)
            THEN InsertVisual(in, visuals, OwnVisual(layer, part)) ELSE visuals
        main == Added(p.visuals, "main")
    IN  [p EXCEPT !.visuals = IF found.type = "fill" THEN Added(main, "outline") ELSE main,
                  !.rendered = Append(@, layer.id)]

(* The visuals the composition's own reference binds for the layers of a   *)
(* style: all it has in the saved style.                                   *)
Targets(in, style) ==
    LET styled == {layer \in ToSet(in.layers) : layer.style = style}
        drawn == IF in.saved = None THEN {} ELSE ToSet(in.saved.visuals)
    IN  {PartId(layer.id, "main") : layer \in styled}
        \cup {v.id : v \in {u \in drawn : \E layer \in styled : Owner(in, u) = layer.id}}

(* What the package says of its style: the mapped canonical body, a live   *)
(* reference once, or a body of the layer's own parts.                     *)
AddReference(in, p, layer, found) ==
    LET authority == Authoritative(in, layer)
        own == {PartId(layer.id, "main")}
               \cup (IF authority \in {"bound", "stale"} /\ found.type = "fill"
                     THEN {PartId(layer.id, "outline")} ELSE {})
        live == layer.style = "live" /\ in.styles = None
        inline == layer.style = "inline" /\ authority \notin {"bound", "stale"}
        targets == IF authority = "mapped" \/ live \/ inline
                   THEN Targets(in, layer.style) ELSE own
        emitted == \E n \in DOMAIN p.refs : p.refs[n].live
    IN  IF layer.style = None \/ (live /\ authority # "mapped" /\ emitted) THEN p
        ELSE [p EXCEPT !.refs = Append(@, [style |-> layer.style, live |-> live,
                                           targets |-> targets])]

(* One layer: not resolved, in conflict, without its style, or drawn.      *)
Pass(in, p, layer) ==
    LET found == Resolved(in, p, layer) IN
    CASE found.failed # None -> Deny(in, Report(p, layer.id), layer, found.failed)
      [] found.failed = None ->
            CASE Conflicts(in, p, layer, found.source) ->
                    Deny(in, Report(p, layer.id), layer, "source")
              [] ~Conflicts(in, p, layer, found.source) /\ StyleMissing(in, layer) ->
                    Report(p, layer.id)
              [] OTHER ->
                    AddReference(in, Draw(in, Bind(in, p, layer, found), layer, found),
                                 layer, found)

-----------------------------------------------------------------------------
(* The reader's review                                                     *)

GeoJson(source) == source \in {"inline", "network", "catalog"}

(* A saved vector visual over what is GeoJSON to this reader.              *)
Misfits(p) ==
    {v \in ToSet(p.visuals) : v.source # None /\ v.tiled /\ GeoJson(Reads(p.sources, v.source))}

(* Sources no layer of the composition stands for, and nobody may fetch.   *)
Unapproved(p) == {s \in DOMAIN p.sources : s \notin p.bound /\ ~IsOpen(p.sources[s])}

(* What a refused visual is reported as: its layer when the visual is the  *)
(* layer's own, itself otherwise.                                          *)
ReportedAs(in, v) == IF v.id.of \in Ids(in) THEN v.id.of ELSE v.id

ReportAll(names, unresolved) ==
    FoldLeft(LAMBDA seen, name : IF name \in ToSet(seen) THEN seen ELSE Append(seen, name),
             unresolved, names)

(* First the visuals that cannot be drawn, and the sources nobody approved.*)
Refuse(in, p) ==
    LET unapproved == Unapproved(p)
        refused == Misfits(p) \cup {v \in ToSet(p.visuals) : v.source \in unapproved}
        names == SetToSeq({ReportedAs(in, v) : v \in refused})
        denied == p.denied \cup unapproved
        unresolved == ReportAll(names, p.unresolved)
        failed == ToSet(unresolved) \cap Ids(in)
    IN  [p EXCEPT
            !.denied = denied,
            !.unresolved = unresolved,
            !.sources = [s \in DOMAIN @ \ denied |-> @[s]],
            !.visuals = SelectSeq(@, LAMBDA v :
                            /\ v \notin refused
                            /\ v.source \notin denied
                            /\ Owner(in, v) \notin failed)]

(* A layer stands while a visual of its own source remains.                *)
Stands(in, p, l) ==
    \E v \in ToSet(p.visuals) : Owner(in, v) = l /\ v.source = LayerOf(in, l).source

(* Mutated: they are left out without a word.                              *)
FailQuietly(in, p) ==
    LET fallen == SelectSeq(Reverse(p.rendered), LAMBDA l : ~Stands(in, p, l)) IN
    [p EXCEPT !.visuals = SelectSeq(@, LAMBDA v : Owner(in, v) \notin ToSet(fallen)),
              !.rendered = SelectSeq(@, LAMBDA l : l \notin ToSet(fallen \o p.unresolved))]

(* Then the layers nothing of which remains, with their other visuals.     *)
Fail(in, p) ==
    LET fallen == SelectSeq(Reverse(p.rendered), LAMBDA l : ~Stands(in, p, l))
        unresolved == ReportAll(fallen, p.unresolved)
    IN  [p EXCEPT !.unresolved = unresolved,
                  !.visuals = SelectSeq(@, LAMBDA v : Owner(in, v) \notin ToSet(fallen)),
                  !.rendered = SelectSeq(@, LAMBDA l : l \notin ToSet(unresolved))]

(* Last the sources, bindings and style targets nothing drawn uses.        *)
Prune(in, p) ==
    LET used == {v.source : v \in ToSet(p.visuals)}
        ids == {v.id : v \in ToSet(p.visuals)}
        refs == [n \in DOMAIN p.refs |-> [p.refs[n] EXCEPT !.targets = @ \cap ids]]
    IN  [p EXCEPT !.sources = [s \in DOMAIN @ \ (p.bound \ used) |-> @[s]],
                  !.bindings = @ \cap used,
                  !.refs = SelectSeq(refs, LAMBDA ref : ref.targets # {})]

ReviewFor(in, p) == IF in.reader THEN Prune(in, Fail(in, Refuse(in, p))) ELSE p

-----------------------------------------------------------------------------
ProjectionInit ==
    /\ input \in [layers : LayerLists, saved : SavedStyles, catalog : Catalogs,
                 reader : BOOLEAN, styles : StyleMaps]
    /\ (\A i \in DOMAIN input.layers : input.layers[i].style = None) => input.styles = None
    /\ at = 0
    /\ out = StartOut(input)
    /\ reviewed = FALSE

(* One turn of the loop.                                                   *)
ProjectLayer ==
    /\ at < Len(input.layers)
    /\ at' = at + 1
    /\ out' = Pass(input, out, input.layers[at + 1])
    /\ UNCHANGED <<input, reviewed>>

(* The end of the projection.                                              *)
ReviewForReader ==
    /\ at = Len(input.layers)
    /\ ~reviewed
    /\ reviewed' = TRUE
    /\ out' = ReviewFor(input, out)
    /\ UNCHANGED <<input, at>>

ProjectionNext == ProjectLayer \/ ReviewForReader

ProjectionSpec == ProjectionInit /\ [][ProjectionNext]_projectionVars

(* The projection as one function of its input.                            *)
Projection(in) ==
    ReviewFor(in, FoldLeft(LAMBDA p, layer : Pass(in, p, layer), StartOut(in), in.layers))

-----------------------------------------------------------------------------
(* The loop stays within the composition and reports only its layers or a  *)
(* visual of the style.                                                    *)
ProjectionTypeOK ==
    /\ at \in 0 .. Len(input.layers)
    /\ reviewed \in BOOLEAN
    /\ ToSet(out.rendered) \subseteq Ids(input)
    /\ out.bindings \subseteq out.bound

(* A layer the composition holds is either drawn or reported, never both   *)
(* and never twice: the caller lists what is missing from the map by what  *)
(* is reported (compositionToMapPackage, "omitted from the style").        *)
EveryLayerAccountedFor ==
    reviewed => \A l \in Ids(input) :
        /\ l \in ToSet(out.rendered) <=> l \notin ToSet(out.unresolved)
        /\ Cardinality({n \in DOMAIN out.unresolved : out.unresolved[n] = l}) <= 1

(* Another reader's map reads only what that reader's catalog gives, what  *)
(* is in the document, or what anyone may fetch; each layer listed as      *)
(* drawn has a visual of its own source, and no style names a visual that  *)
(* is gone (the "current-reader" authority of the projection).             *)
ReaderSeesOnlyApproved ==
    reviewed /\ input.reader =>
        /\ \A v \in ToSet(out.visuals) : v.source # None =>
              Reads(out.sources, v.source) \in {"catalog", "inline", "asset"}
        /\ \A s \in DOMAIN out.sources : out.sources[s] # "network"
        /\ \A s \in DOMAIN out.sources : out.sources[s] = "catalog" =>
              Cardinality(Exact(s, input.catalog)) <= 1
        /\ \A l \in ToSet(out.rendered) : \E v \in ToSet(out.visuals) :
              Owner(input, v) = l /\ v.source = LayerOf(input, l).source
        /\ \A n \in DOMAIN out.refs :
              out.refs[n].targets \subseteq {v.id : v \in ToSet(out.visuals)}

(* One layer that cannot be drawn does not take its siblings with it: what *)
(* would be drawn without it is drawn with it.  The same holds for one     *)
(* that has not got its style, unless it is also in conflict about its     *)
(* source ("one unrenderable layer must not take the rest of the map       *)
(* down", resolveCompositionSource).                                       *)
FailsAlone(layer) ==
    LET found == Resolved(input, StartOut(input), layer) IN
    \/ found.failed = "layer"
    \/ found.failed = None /\ StyleMissing(input, layer) /\ layer.source \notin out.denied

SiblingsSurvive ==
    reviewed => \A layer \in ToSet(input.layers) :
        LET rest == [input EXCEPT !.layers = SelectSeq(@, LAMBDA k : k # layer)]
        IN  FailsAlone(layer) => ToSet(Projection(rest).rendered) \subseteq ToSet(out.rendered)

(* The visuals of a layer are drawn below those of the layers after it,    *)
(* where the saved style has them in that order (insertVisual).            *)
DrawnInOrder ==
    LET Ordered(visuals) ==
            \A m, n \in DOMAIN visuals : \A i, j \in DOMAIN input.layers :
                /\ Owner(input, visuals[m]) = input.layers[i].id
                /\ Owner(input, visuals[n]) = input.layers[j].id
                /\ m < n
                => i <= j
    IN  Ordered(StartOut(input).visuals) => Ordered(out.visuals)

=============================================================================
