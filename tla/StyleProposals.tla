---------------------------- MODULE StyleProposals ----------------------------
(***************************************************************************)
(* Style changes shown before they are made: styles/layer-style-            *)
(* inspector.ts (paint set by hand), styles/style-suggestion.ts (asked of   *)
(* the server) and styles/shared-style-preview.ts (a shared style rendered  *)
(* over one of its consumers).                                              *)
(*                                                                         *)
(* Each remembers the composition it was made over, and everything it       *)
(* awaits may end after the user went on.  A composition's canonical text   *)
(* is its revision here, and the layers it has.                             *)
(***************************************************************************)
EXTENDS Naturals, Sequences, FiniteSets

CONSTANTS
    Layers,      \* layers a composition may have
    None,
    MaxProposals \* what the user, other writers and failures may do: a bound

VARIABLES
    map,        \* CompositionController: its layers, its revision, its selection
    inspector,  \* LayerStyleInspector: #layerId, #pending
    applying,   \* commands of the inspector the host has not answered
    suggester,  \* LayerStyleSuggestion: #layerId, #generation, #pending; the last dismissal
    suggested,  \* requests for a suggestion under way
    shared,     \* createSharedStylePreview: epoch, disposed, authority, the map's document
    renders,    \* its queue: the operations not finished, the first one running
    proposals   \* how much of MaxProposals is spent

proposalVars == <<map, inspector, applying, suggester, suggested, shared, renders, proposals>>

Propose == proposals < MaxProposals /\ proposals' = proposals + 1

-----------------------------------------------------------------------------
(* The composition *)

\* Another edit of the composition, which may remove a layer.
EditMap ==
    /\ Propose
    /\ \E gone \in {{}} \union {{l} : l \in map.layers} :
          map' = [map EXCEPT !.layers = @ \ gone, !.revision = proposals']
    /\ UNCHANGED <<inspector, applying, suggester, suggested, shared, renders>>

Select ==
    /\ Propose
    /\ \E l \in Layers \ {map.selection} : map' = [map EXCEPT !.selection = l]
    /\ UNCHANGED <<inspector, applying, suggester, suggested, shared, renders>>

-----------------------------------------------------------------------------
(* LayerStyleInspector *)

\* The layer is on the map, is not styled by a shared style, and the style asked for can be built.
Previewable == inspector.layer \in map.layers

\* preview
Preview ==
    /\ Previewable
    /\ Propose
    /\ inspector' = [inspector EXCEPT !.pending = [layer |-> inspector.layer,
                                                   revision |-> map.revision, n |-> proposals']]
    /\ UNCHANGED <<map, applying, suggester, suggested, shared, renders>>

\* cancel
CancelPreview ==
    /\ inspector.pending # None
    /\ Propose
    /\ inspector' = [inspector EXCEPT !.pending = None]
    /\ UNCHANGED <<map, applying, suggester, suggested, shared, renders>>

Retarget ==
    /\ Propose
    /\ \E l \in Layers \ {inspector.layer} : inspector' = [layer |-> l, pending |-> None]
    /\ UNCHANGED <<map, applying, suggester, suggested, shared, renders>>

\* Mutated: the composition previewed is not compared with the one there is.
AppliesOver(pending) == pending.layer = inspector.layer
Applies(pending) == pending.layer = inspector.layer /\ pending.revision = map.revision

\* apply up to the host's answer.
ApplyPreview ==
    /\ inspector.pending # None /\ Applies(inspector.pending)
    /\ Propose
    /\ applying' = applying \union {[pending |-> inspector.pending, n |-> proposals']}
    /\ UNCHANGED <<map, inspector, suggester, suggested, shared, renders>>

\* The host applied the command, to the composition it then found unchanged.
PreviewApplied ==
    /\ \E a \in applying :
          /\ a.pending.layer \in map.layers
          /\ applying' = applying \ {a}
          /\ map' = [map EXCEPT !.revision = MaxProposals + a.n]
    /\ inspector' = [inspector EXCEPT !.pending = None]
    /\ UNCHANGED <<suggester, suggested, shared, renders, proposals>>

PreviewRefused ==
    /\ \E a \in applying : applying' = applying \ {a}
    /\ UNCHANGED <<map, inspector, suggester, suggested, shared, renders, proposals>>

-----------------------------------------------------------------------------
(* LayerStyleSuggestion *)

\* request up to the server's answer; it aborts the request before it.
Suggest ==
    /\ suggester.layer \in map.layers
    /\ Propose
    /\ suggester' = [suggester EXCEPT !.generation = @ + 1]
    /\ suggested' = suggested \union
          {[generation |-> suggester.generation + 1, layer |-> suggester.layer,
            revision |-> map.revision, selection |-> map.selection, step |-> "asked"]}
    /\ UNCHANGED <<map, inspector, applying, shared, renders>>

\* Mutated: a request that was dismissed or replaced is not told from the newest.
StaleButForMap(r) ==
    \/ r.layer # suggester.layer
    \/ r.layer \notin map.layers
    \/ r.selection # map.selection \/ r.revision # map.revision

\* #stale
Stale(r) ==
    \/ r.generation # suggester.generation
    \/ r.layer # suggester.layer
    \/ r.layer \notin map.layers
    \/ r.selection # map.selection \/ r.revision # map.revision

\* The answer's head is here, its body is awaited.
SuggestionAnswered ==
    /\ \E r \in suggested :
          /\ r.step = "asked"
          /\ suggested' = (suggested \ {r}) \union (IF Stale(r) THEN {}
                                                    ELSE {[r EXCEPT !.step = "body"]})
    /\ UNCHANGED <<map, inspector, applying, suggester, shared, renders, proposals>>

\* The body is here: the suggestion is shown if its binding and its style are as expected.
SuggestionRead ==
    /\ \E r \in suggested :
          /\ r.step = "body"
          /\ suggested' = suggested \ {r}
          /\ suggester' = IF Stale(r) THEN suggester
                          ELSE [suggester EXCEPT !.pending =
                                   [layer |-> r.layer, revision |-> r.revision,
                                    selection |-> r.selection, generation |-> r.generation]]
    /\ UNCHANGED <<map, inspector, applying, shared, renders, proposals>>

\* It failed, was not authorized, or was not bound to this layer and draft.
SuggestionFails ==
    /\ \E r \in suggested : suggested' = suggested \ {r}
    /\ UNCHANGED <<map, inspector, applying, suggester, shared, renders, proposals>>

\* discard and retarget: what is shown goes, and so does what is under way.
Dismiss(layer) ==
    suggester' = [layer |-> layer, generation |-> suggester.generation + 1, pending |-> None,
                  dismissed |-> suggester.generation + 1]

Discard ==
    /\ Propose
    /\ Dismiss(suggester.layer)
    /\ UNCHANGED <<map, inspector, applying, suggested, shared, renders>>

RetargetSuggestion ==
    /\ Propose
    /\ \E l \in Layers \ {suggester.layer} : Dismiss(l)
    /\ UNCHANGED <<map, inspector, applying, suggested, shared, renders>>

\* apply
ApplySuggestion ==
    /\ suggester.pending # None
    /\ suggester.pending.selection = map.selection /\ suggester.pending.revision = map.revision
    /\ suggester.pending.layer = suggester.layer
    /\ Propose
    /\ map' = [map EXCEPT !.revision = proposals']
    /\ suggester' = [suggester EXCEPT !.pending = None]
    /\ UNCHANGED <<inspector, applying, suggested, shared, renders>>

-----------------------------------------------------------------------------
(* The preview of a shared style *)

\* Mutated: the revision of the operation is not asked for.
CurrentUnlessGone(revision) == ~shared.disposed /\ shared.authority = 0
Current(revision) == ~shared.disposed /\ revision = shared.epoch /\ shared.authority = 0

\* preview: a queue of operations, the newest of which is the one wanted.
Render ==
    /\ Propose
    /\ shared' = [shared EXCEPT !.epoch = @ + 1]
    /\ renders' = Append(renders, [revision |-> shared.epoch + 1, step |-> "queued"])
    /\ UNCHANGED <<map, inspector, applying, suggester, suggested>>

First(step) == renders # <<>> /\ Head(renders).step = step

\* The operation's turn: project is asked of the style provider.
Project ==
    /\ First("queued")
    /\ renders' = IF Current(Head(renders).revision) THEN [renders EXCEPT ![1].step = "projecting"]
                  ELSE Tail(renders)
    /\ UNCHANGED <<map, inspector, applying, suggester, suggested, shared, proposals>>

\* Its style is composed: the map takes it, or the first map is made.
Projected ==
    /\ First("projecting")
    /\ LET revision == Head(renders).revision
       IN  IF ~Current(revision) THEN renders' = Tail(renders) /\ UNCHANGED shared
           ELSE IF shared.shown = 0
           THEN renders' = [renders EXCEPT ![1].step = "creating"] /\ UNCHANGED shared
           ELSE renders' = Tail(renders) /\ shared' = [shared EXCEPT !.shown = revision]
    /\ UNCHANGED <<map, inspector, applying, suggester, suggested, proposals>>

\* The map is there; one that nobody wants any more is removed.
Created ==
    /\ First("creating")
    /\ renders' = Tail(renders)
    /\ shared' = IF Current(Head(renders).revision)
                 THEN [shared EXCEPT !.shown = Head(renders).revision] ELSE shared
    /\ UNCHANGED <<map, inspector, applying, suggester, suggested, proposals>>

RenderFails ==
    /\ First("projecting") \/ First("creating")
    /\ renders' = Tail(renders)
    /\ UNCHANGED <<map, inspector, applying, suggester, suggested, shared, proposals>>

\* Its host changes principal, environment or workspace.
AuthorityChanges ==
    /\ shared.authority = 0
    /\ Propose
    /\ shared' = [shared EXCEPT !.authority = 1]
    /\ UNCHANGED <<map, inspector, applying, suggester, suggested, renders>>

Dispose ==
    /\ ~shared.disposed
    /\ Propose
    /\ shared' = [shared EXCEPT !.disposed = TRUE, !.epoch = @ + 1, !.shown = 0]
    /\ UNCHANGED <<map, inspector, applying, suggester, suggested, renders>>

-----------------------------------------------------------------------------

ProposalInit ==
    /\ \E l \in Layers :
          /\ map = [layers |-> Layers, revision |-> 0, selection |-> l]
          /\ inspector = [layer |-> l, pending |-> None]
          /\ suggester = [layer |-> l, generation |-> 0, pending |-> None, dismissed |-> 0]
    /\ applying = {} /\ suggested = {}
    /\ shared = [epoch |-> 0, disposed |-> FALSE, authority |-> 0, shown |-> 0]
    /\ renders = <<>>
    /\ proposals = 0

ProposalNext ==
    \/ EditMap \/ Select
    \/ Preview \/ CancelPreview \/ Retarget \/ ApplyPreview \/ PreviewApplied \/ PreviewRefused
    \/ Suggest \/ SuggestionAnswered \/ SuggestionRead \/ SuggestionFails
    \/ Discard \/ RetargetSuggestion \/ ApplySuggestion
    \/ Render \/ Project \/ Projected \/ Created \/ RenderFails \/ AuthorityChanges \/ Dispose

ProposalSpec == ProposalInit /\ [][ProposalNext]_proposalVars

-----------------------------------------------------------------------------
(* Properties *)

\* Every variable has a value of its type.
ProposalTypeOK ==
    /\ map.layers \subseteq Layers /\ map.selection \in Layers /\ map.revision \in Nat
    /\ inspector.layer \in Layers /\ suggester.layer \in Layers
    /\ \A r \in suggested : r.step \in {"asked", "body"} /\ r.layer \in Layers
    /\ shared.disposed \in BOOLEAN /\ shared.shown \in 0..MaxProposals
    /\ proposals \in 0..MaxProposals

\* A suggestion that was discarded, or asked for another layer, does not come back: what is shown
\* was asked for after the last discard or change of layer, whatever was under way then.
DismissedStaysAway ==
    suggester.pending # None =>
       /\ suggester.pending.generation > suggester.dismissed
       /\ suggester.pending.layer = suggester.layer

\* The shared-style preview only ever renders the newest document asked for, for the authority it
\* was made for, and nothing once it is disposed, wherever its projections were then.
RendersTheNewest ==
    [][shared'.shown \notin {shared.shown, 0} =>
          /\ shared'.shown = shared.epoch
          /\ ~shared.disposed /\ shared.authority = 0]_proposalVars

\* "a successful apply clears that preview": the one it applied, and no other.
\* This does not hold: it clears whichever is shown when it answers.
ClearsItsPreview ==
    [][\A a \in applying \ applying' :
          inspector.pending # inspector'.pending => inspector.pending = a.pending]_proposalVars
===============================================================================
