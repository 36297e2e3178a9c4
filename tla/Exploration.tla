----------------------------- MODULE Exploration -----------------------------
(* Composed controls and their effects: <honua-studio-canvas> makes one      *)
(* StudioInteractionRuntime per composition, <honua-studio-control-bar>      *)
(* publishes a control's clause through it, and the runtime turns clauses    *)
(* and bindings into what the map and the widget deck are told to show.      *)
EXTENDS Integers, FiniteSets, SequencesExt

CONSTANTS
  None,
  Controls, Layers, Values,
  MaxEdits,       \* bound: document edits and changes of composition
  MaxGestures,    \* bound: control gestures
  MaxUpsets       \* bound: resets, disconnections

VARIABLES
  composition,    \* the canvas's #composition, a number, or None
  doc,            \* that composition's document
  connected,      \* the canvas is connected
  runtimes,       \* every StudioInteractionRuntime made
  current,        \* the canvas's #interactions: an index of runtimes, or None
  generation,     \* #interactionGeneration
  pending,        \* #interactionsPending
  imports,        \* #ensureInteractionRuntime calls that wait for their import
  bar,            \* the runtime <honua-studio-control-bar> was given, or None
  map,            \* the appearance CompositionMapView was given last
  deck,           \* the source filters <honua-studio-widget-deck> was given last
  used            \* the bounds used so far

explorationVars == <<composition, doc, connected, runtimes, current, generation, pending,
                     imports, bar, map, deck, used>>

\* A document's controls name the layer they read; a binding sends a control's clause to a layer.
Documents ==
  [controls : UNION {[present -> Layers] : present \in SUBSET Controls},
   layers : SUBSET Layers,
   bindings : {{}, Controls \X Layers} \cup {{b} : b \in Controls \X Layers}]

EmptyDocument == [controls |-> <<>>, layers |-> {}, bindings |-> {}]

NoClauses == [c \in Controls |-> None]
NoVerbs == [l \in Layers |-> None]
NoAppearance == [filters |-> {}, sources |-> {}]

Spend(kind, bound) ==
  /\ used[kind] < bound
  /\ used' = [used EXCEPT ![kind] = @ + 1]

(***************************************************************************)
(* StudioInteractionRuntime                                                *)
(***************************************************************************)
\* #documentIdentity: what a compile depends on; a control's source is not part of it.
Identity(d) == <<d.bindings, DOMAIN d.controls, d.layers>>

\* #recomputeAppearance: a control's own clause filters the layer it reads, a verb's the layer
\* its binding names; a source with a layer in the document filters widgets too.
Computed(r, d) ==
  LET reading == {c \in DOMAIN d.controls : r.clauses[c] # None /\ d.controls[c] \in d.layers}
      held == {<<d.controls[c], r.clauses[c]>> : c \in reading}
      verbs == {<<l, r.verbs[l]>> : l \in {x \in Layers : r.verbs[x] # None}}
  IN [filters |-> held \cup verbs, sources |-> held]

\* onAppearanceChange: told only what differs from the last.
Recomputed(r, d) == [r EXCEPT !.appearance = Computed(r, d)]

\* #recompile: the verbs' filters are dropped, the clauses stay; compileHonuaInteractions binds the
\* controls from here on, so a notification still due reaches the new block or is lost with the old.
Recompiled(r, d, stillDue) ==
  [r EXCEPT !.key = Identity(d), !.bound = d.bindings, !.verbs = NoVerbs,
            !.compilerDue = IF stillDue THEN @ ELSE {}]

\* Mutated: the appearance follows only what is compiled again.
RecomputedIfRecompiled(r, d, stillDue) ==
  IF Identity(d) # r.key THEN Recomputed(Recompiled(r, d, stillDue), d) ELSE r

\* #onCompositionChanged: "Layers can appear after a control does; the appearance has to follow."
OnCompositionChanged(r, d, stillDue) ==
  Recomputed(IF Identity(d) # r.key THEN Recompiled(r, d, stillDue) ELSE r, d)

NewRuntime(of, d) ==
  [of |-> of, disposed |-> FALSE, clauses |-> NoClauses, verbs |-> NoVerbs, bound |-> d.bindings,
   key |-> Identity(d), appearance |-> NoAppearance, appearanceDue |-> FALSE,
   compilerDue |-> {}]

Live(r) == r \in DOMAIN runtimes /\ ~runtimes[r].disposed

\* A new appearance of the canvas's runtime goes to the map, the control bar and the deck.
Told(r, after) ==
  IF after.appearance = runtimes[r].appearance
  THEN UNCHANGED <<map, bar, deck>>
  ELSE /\ map' = after.appearance
       /\ bar' = current
       /\ deck' = after.appearance.sources

\* publishControlChange: one clause under the control's id; the exploration context notifies the
\* other views later, once for all the writes before.
Published(r, c, clause) ==
  IF r.disposed \/ r.clauses[c] = clause THEN r
  ELSE [r EXCEPT !.clauses[c] = clause, !.appearanceDue = TRUE, !.compilerDue = @ \cup {c}]

\* The control bar's #onChange: it needs its runtime and the control still in its composition.
OnChange(c, clause) ==
  /\ composition # None /\ c \in DOMAIN doc.controls
  /\ bar # None
  /\ Spend("gestures", MaxGestures)
  /\ runtimes' = [runtimes EXCEPT ![bar] = Published(@, c, clause)]
  /\ UNCHANGED <<composition, doc, connected, current, generation, pending, imports, bar, map, deck>>

\* resetTemporaryFilters: every control of the document that holds a filter clause is cleared.
ResetTemporaryFilters ==
  /\ current # None
  /\ \E c \in DOMAIN doc.controls : runtimes[current].clauses[c] # None
  /\ Spend("gestures", MaxGestures)
  /\ runtimes' = [runtimes EXCEPT ![current] =
       LET held == {c \in DOMAIN doc.controls : @.clauses[c] # None} IN
       [@ EXCEPT !.clauses = [c \in Controls |-> IF c \in held THEN None ELSE @[c]],
                 !.appearanceDue = TRUE, !.compilerDue = @ \cup held]]
  /\ UNCHANGED <<composition, doc, connected, current, generation, pending, imports, bar, map, deck>>

\* The appearance view's notification.
NotifyAppearance(r) ==
  /\ Live(r) /\ runtimes[r].appearanceDue
  /\ LET after == Recomputed([runtimes[r] EXCEPT !.appearanceDue = FALSE], doc) IN
     /\ runtimes' = [runtimes EXCEPT ![r] = after]
     /\ Told(r, after)
  /\ UNCHANGED <<composition, doc, connected, current, generation, pending, imports, used>>

\* The compiled block's notification: each binding of a control that changed runs setFilter, and
\* #setVerbFilter recomputes the appearance.
NotifyCompiler(r) ==
  /\ Live(r) /\ runtimes[r].compilerDue # {}
  /\ LET was == runtimes[r]
         fired(l) == {c \in was.compilerDue : <<c, l>> \in was.bound /\ l \in doc.layers}
         written == {l \in Layers : fired(l) # {}}
     IN \E verbs \in [Layers -> Values \cup {None}] :
          /\ \A l \in Layers : IF l \in written
                               THEN \E c \in fired(l) : verbs[l] = was.clauses[c]
                               ELSE verbs[l] = was.verbs[l]
          /\ LET heard == [was EXCEPT !.verbs = verbs, !.compilerDue = {}]
                 after == IF written = {} THEN heard ELSE Recomputed(heard, doc)
             IN /\ runtimes' = [runtimes EXCEPT ![r] = after]
                /\ Told(r, after)
  /\ UNCHANGED <<composition, doc, connected, current, generation, pending, imports, used>>

(***************************************************************************)
(* <honua-studio-canvas>                                                   *)
(***************************************************************************)
NeedsRuntime(d) == DOMAIN d.controls # {} \/ d.bindings # {}

\* #ensureInteractionRuntime to its import; `shown` and `runtime` are its composition and runtime.
Ensure(shown, runtime, d, waiting, of) ==
  IF shown # None /\ runtime = None /\ ~waiting /\ NeedsRuntime(d)
  THEN /\ pending' = TRUE
       /\ imports' = imports \cup {[of |-> shown, generation |-> of]}
  ELSE pending' = waiting /\ UNCHANGED imports

Disposed == [r \in DOMAIN runtimes |->
              IF r = current THEN [runtimes[r] EXCEPT !.disposed = TRUE] ELSE runtimes[r]]

\* #teardownInteractions, and what the deck is synced to after it.
TearDown ==
  /\ generation' = generation + 1
  /\ runtimes' = Disposed
  /\ current' = None
  /\ deck' = {}

\* The composition's setter: the map view goes with its appearance, render() syncs the bar.
SetComposition ==
  /\ Spend("edits", MaxEdits)
  /\ \E next \in {None, used'["edits"]}, d \in Documents :
       /\ next # composition
       /\ IF next = None THEN d = EmptyDocument ELSE d.layers = Layers
       /\ composition' = next
       /\ doc' = d
       /\ TearDown
       /\ IF connected THEN Ensure(next, None, d, FALSE, generation') ELSE
            pending' = FALSE /\ UNCHANGED imports
  /\ bar' = None
  /\ map' = NoAppearance
  /\ UNCHANGED connected

\* A command changes the document: the canvas's listener, then the runtime's own.
EditDocument ==
  /\ composition # None
  /\ Spend("edits", MaxEdits)
  /\ \E d \in Documents, stillDue \in BOOLEAN :
       /\ d # doc
       /\ doc' = d
       /\ IF connected THEN Ensure(composition, current, d, pending, generation)
          ELSE UNCHANGED <<pending, imports>>
       /\ IF current = None THEN UNCHANGED <<runtimes, map, bar, deck>>
          ELSE LET after == OnCompositionChanged(runtimes[current], d, stillDue) IN
               /\ runtimes' = [runtimes EXCEPT ![current] = after]
               /\ Told(current, after)
  /\ UNCHANGED <<composition, connected, current, generation>>

AnyGeneration(import) == composition = import.of /\ connected  \* Mutated: its generation may be over
StillWanted(import) == composition = import.of /\ connected /\ generation = import.generation

\* The import returns: its runtime is installed where it is still wanted.
ImportReturns(import) ==
  /\ import \in imports
  /\ imports' = imports \ {import}
  /\ pending' = IF generation = import.generation THEN FALSE ELSE pending
  /\ IF StillWanted(import)
     THEN /\ runtimes' = Append(runtimes, NewRuntime(composition, doc))
          /\ current' = Len(runtimes) + 1
          /\ bar' = current'
          /\ map' = NoAppearance
          /\ deck' = {}
     ELSE UNCHANGED <<runtimes, current, bar, map, deck>>
  /\ UNCHANGED <<composition, doc, connected, generation, used>>

\* resetExploration: an authorised baseline replaced the draft.
ResetExploration ==
  /\ Spend("upsets", MaxUpsets)
  /\ TearDown
  /\ bar' = None
  /\ map' = NoAppearance
  /\ IF connected THEN Ensure(composition, None, doc, FALSE, generation')
     ELSE pending' = FALSE /\ UNCHANGED imports
  /\ UNCHANGED <<composition, doc, connected>>

OnDisconnect ==
  /\ connected
  /\ Spend("upsets", MaxUpsets)
  /\ connected' = FALSE
  /\ TearDown
  /\ pending' = FALSE
  /\ map' = NoAppearance
  /\ UNCHANGED <<composition, doc, imports, bar>>

\* onConnect and render(), which builds the shell anew.
OnConnect ==
  /\ ~connected
  /\ connected' = TRUE
  /\ Ensure(composition, current, doc, pending, generation)
  /\ bar' = current
  /\ UNCHANGED <<composition, doc, runtimes, current, generation, map, deck, used>>

(***************************************************************************)
ExplorationInit ==
  /\ composition = None /\ doc = EmptyDocument
  /\ connected = TRUE
  /\ runtimes = <<>> /\ current = None
  /\ generation = 0 /\ pending = FALSE /\ imports = {}
  /\ bar = None /\ map = NoAppearance /\ deck = {}
  /\ used = [edits |-> 0, gestures |-> 0, upsets |-> 0]

ExplorationNext ==
  \/ SetComposition \/ EditDocument \/ ResetExploration \/ OnDisconnect \/ OnConnect
  \/ \E import \in imports : ImportReturns(import)
  \/ \E c \in Controls, clause \in Values \cup {None} : OnChange(c, clause)
  \/ ResetTemporaryFilters
  \/ \E r \in DOMAIN runtimes : NotifyAppearance(r) \/ NotifyCompiler(r)

ExplorationSpec == ExplorationInit /\ [][ExplorationNext]_explorationVars

(***************************************************************************)
(* Properties                                                              *)
(***************************************************************************)
\* Types of the canvas's and the runtimes' state.
ExplorationTypeOK ==
  /\ doc \in Documents
  /\ current \in DOMAIN runtimes \cup {None} /\ bar \in DOMAIN runtimes \cup {None}
  /\ \A r \in DOMAIN runtimes :
       /\ runtimes[r].clauses \in [Controls -> Values \cup {None}]
       /\ runtimes[r].verbs \in [Layers -> Values \cup {None}]
       /\ runtimes[r].compilerDue \subseteq Controls

\* When no notification is due, the map and the deck show the appearance that the clauses, the
\* verbs and the document as they now are give: through gestures, commands that retarget a control
\* or remove its layer, recompiles, and changes of composition.
AppearanceFollows ==
  current # None /\ ~runtimes[current].appearanceDue =>
    /\ map = Computed(runtimes[current], doc)
    /\ deck = map.sources

\* However teardowns and imports overlap, every runtime but the canvas's one is disposed, the
\* canvas's is of the composition it shows, and a canvas that needs a runtime has it or waits for
\* exactly one import that will give it.
OneRuntime ==
  /\ \A r \in DOMAIN runtimes : r # current => runtimes[r].disposed
  /\ current # None => runtimes[current].of = composition /\ bar = current
  /\ LET awaited == {i \in imports : StillWanted(i)} IN
     connected /\ composition # None /\ NeedsRuntime(doc) /\ current = None =>
       Cardinality(awaited) = 1 /\ pending

=============================================================================
