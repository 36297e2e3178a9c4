# Verification of Honua Studio

TLA+ modules, TLC runs and TLAPS proofs about the state machines of Honua Studio
(`src/`): the workspace that edits one authorized server draft, the history and
synchronisation of a composition, the components around them that talk to a server while
the human keeps working, the live and published maps, and the loopback server and
evaluation harness the repository tests itself with.

Studio is single-threaded TypeScript in a browser.  What makes it hard is not threads
but **awaits**: between two lines of one handler, another click, another reply, a
sign-out, another tab or another writer of the same draft may come in.  Every model
below therefore splits a handler at its awaits, and at nothing else: the code between
two awaits is one action.

## 1. Inventory

The product's own code is about 36 600 lines of TypeScript under `src/src`, beside the
loopback server `src/mock-server.mjs`.

| Component (files) | State it keeps | Operations | What is hard | What makes it correct |
|---|---|---|---|---|
| Workspace draft session (`app/workspace-draft-session.ts`, `lifecycle/workspace-draft.ts`, `app/staleness-epoch.ts`) | active binding and its generation, conflict flag, promise queue, `historyBusy` | observe, attach, create, refresh, prepareTurn, enqueue, markConflict | a task waits for the server while the principal, the form, the active draft or the draft itself changes | nothing of a former principal becomes visible; what is on screen was accepted by the server at the generation held; unknown outcomes never look like success |
| Composition editor (`app/composition-editor.ts`) | none of its own (draft, history) | dispatch, applyHistory, style edits | commands and history moves computed before or after queueing | one step of undo is one step; no content of one draft reaches another |
| Workspace authority (`app/workspace-authority.ts`, `app/studio-workspace.ts`, `app/runtime-clients.ts`) | authority epoch, AuthSession, clients | replaceAuth, revoke | replies that outlive the principal | isolation by epoch |
| Composition history (`composition/history.ts`, `controller.ts`, `history-command.ts`) | undo and redo stacks | replaceState, resetBaseline, undo, redo | identical snapshots, the revision bound | undo and redo are exact; the current revision is never dropped |
| Draft sync (`composition/history.ts`, `lifecycle/composition-draft-store.ts`) | held draft, pending state, conflict, shared flush | apply, flush loop, reload, rebase, reconcile | edits arriving while a conditional write is in flight, conflicts, retries | no other session's revision is overwritten; the last intent is saved or reported |
| Composition model and reducer (`composition/{model,commands,reducer}.ts`) | pure functions of the composition | validate and apply a closed set of commands | cross references (sources, controls, interactions, inline styles), pins | references stay whole, pins protect |
| Server processes (`gp/process-workspace.ts`, `elements/studio-processes-element.ts`) | page state, retained command in `localStorage` | edit, save (prepare), attach, run | lost replies, two tabs, replaced clients | no command runs twice unseen; what runs is what is shown |
| Publication (`app/workspace-publication.ts`) | reviews and their pinned submission | save version, review, publish, reopen | retry of an irreversible command; two requests that make one version | one command and one publication for one review; a version has the view it was asked for |
| Lifecycle panel (`elements/studio-lifecycle-panel-element.ts`) | item, draft, versions, dialog | load, validate, save, reopen, compare, publish, roll back, confirm | several awaits without a token while the item changes | an item publishes versions of its own; one confirmation at a time |
| Recipes (`app/recipe-controller.ts`, `recipes/*`, `app/recipe-source-*.ts`) | open picker, discovered sources, submissions | open, select, submit, retry, attach, close | the picker, the map or the catalog changes while the draft is created | one draft per submission, attached only over the map it was asked on |
| Host session (`auth/*`) | session state, lease, expiry timer | fetch, renew, expire, dispose | renewal beside requests in flight | reads are repeated, writes never; a replaced lease ends nothing |
| Source catalog, client, home and content views (`app/source-catalog.ts`, `client/studio-client.ts`, `pages/*`, `elements/studio-content-browser-element.ts`) | catalog, lists, filters | list, page, filter, search, load more | pages and filters answer out of order, rows move between pages | a listing without an error is whole |
| Orchestrator and tool bridge (`mcp/*`), MCP client (`mcp/client.ts`) | MCP session, composition envelope, shared handshake | execute a command, replay deferred controls, call a tool | server answer after the session changed, a handshake shared by several calls | server and local projections agree |
| Assistant chat, activity log (`chat/*`, `elements/studio-chat-element.ts`) | messages, turns, tool calls, log | send, stream, cancel, attach, detach, replay, import | two turns in one transcript, late events of a detached session | every turn has one message and one account; what is detached is silent |
| Local processes, imports (`gp/custom-process-workspace.ts`, `gp/artifact-import.ts`) | run commands and upload intents in `localStorage` | edit, save, attach, run, import, resume | reloads, tabs, lost answers | no upload or run repeated unseen |
| Geoprocessing jobs (`gp/job-client.ts`, `gp/gp-authoring-session.ts`, `elements/studio-gp-panel-element.ts`) | authored body, loaded draft, job | add, check, confirm, execute, poll, cancel | another writer of the package, answers about another draft | the session's body is the server's at its generation |
| Map view, canvas (`map/*`, `elements/studio-canvas-element.ts`) | update queue, generations, bound styles, camera, reads | build, update, restyle, filter, move, capture, publish, reload | a newer update overtakes an older one; a map is made while its inputs change; callbacks re-enter a reload | at rest the map is the canvas's and shows the composition; a reader sees their own |
| Style editing (`styles/*`, `app/style-editor-host.ts`) | frame buffer, working style, previews, suggestions | open, edit, flush, save, discard, suggest, preview | two message queues with a sandboxed frame; sessions change between two reads | what is saved is what is shown, to the draft it was opened over |
| Widgets, controls, interactions (`widgets/*`, `controls/*`, `interactions/*`) | rows, clauses, verbs, cards | read, select, filter, toggle, step | replies out of order, commands refused half way | data belongs to the session; cards show the composition |
| Fixture server (`mock-server.mjs`, `scripts/lib/mock-composition.mjs`) | drafts, items, versions, proposals, jobs | REST routes and tools | bodies that arrive after their headers; a second implementation of the commands | numbers, pointers and decisions agree; the tools mirror the reducer |
| Evaluation harness (`evals/*`) | turns, calls, log, score | create, play, verify, score, delete | calls rejected by a timer, answers of a live session | a pass is earned by what the draft and the turns hold |
| Theme and design inventory | - | - | - | presentation only |

How they interact: the app element builds one `StudioWorkspace`; it owns the authority,
the draft session, the editor, the recipe and publication controllers and the composition
controller, all sharing the `CompositionHistory`.  Widgets, chat, controls and history
buttons call `CompositionEditor`; the editor enqueues tasks on the draft session; a task
sends a conditional request through the binding's lifecycle client and puts the reply
into the history, whose subscribers redraw.  Publication and recipes use the same queue.
The canvas projects the composition onto a map and hands it to one map view at a time; the
interaction runtime, the control bar and the widget deck hang on the same canvas.
A change of principal advances the authority epoch, which every task captured when it was
queued and compares before it acts.

`PROJECT.json` lists every component with its status and, under `hazards`, each place
where the code is exposed to what a test would hardly reach.

## 2. Modules

| Module | Kind | Models |
|---|---|---|
| `WorkspaceDraft`, `WorkspaceDraftProofs` | core, proofs | the draft session with its queue, the editor's writes, the history stacks, the authority |
| `DraftSync`, `DraftSyncProofs` | core, proofs | `CompositionHistory` wired to a `DraftSync`, over a store with generations |
| `ReconciledDrafts` | abstract specification | what `DraftSync` promises of the drafts on the server |
| `ProcessRuns`, `ProcessRunsProofs` | component, proofs | the Processes surface, its client and `localStorage`, several tabs |
| `CompositionReducer`, `CompositionReducerProofs` | algorithm, proofs (of the tools as well) | every command on a composition that has a reference, a pin or a style rule |
| `FixtureTools` | algorithm | the server's tools, a second implementation of the commands |
| `Orchestrator`, `OrchestratorProofs` | core, proofs | `ToolCallOrchestrator` under `LiveCompositionController`: commands while no workspace draft is attached |
| `HostSession` | component | the session, its leases and requests, the catalog |
| `Browsing` | component | the lists of the client, the home view and the content browser |
| `Publication`, `LifecyclePanel` | components | versions and human-gated publication over the draft queue; the panel of one item |
| `Recipes` | component | the picker, submissions, attachment |
| `LocalRuns`, `ArtifactImports`, `Geoprocessing` | components | local projects and runs; uploads of several tabs; packages and jobs |
| `Chat`, `ActivityLog` | components | turns in flight; the replayable log |
| `MapView`, `MapCamera`, `MapProjection`, `PublishedView` | components | the live map; where it looks; the package it draws; the published view |
| `MapStyling`, `StyleProposals`, `StyleReads` | components | the style editor and its frame; previews and suggestions; reads under a session |
| `WidgetRows`, `DeckGestures`, `ControlReading`, `Exploration` | components | rows; cards that write; what a control reads; clauses and their effects |
| `FixtureServer`, `EvalRun`, `McpSession` | components | the loopback server and its jobs; a case of the harness; the MCP client |
| `MCWorkspaceDraft`, `MCDraftSync`, `MCOrchestrator` | instances | model values and budgets of the runs of one component |
| `MCWorkspaceSurfaces`, `RemoteWorkProofs`, `SurfacesProofs` | instance, proofs | ten components in one run (section 2.6); the proofs about those that submit work, and about the others and the instance |
| `MCServices`, `ServicesProofs` | instance, proofs | six components in one run (section 2.6) |
| `MCMapSurfaces` | instance | the components around the map in one run (section 2.6) |
| `Nothing` | constant | what stands for "no value" in the modules that are used together |

Conventions, the same in all of them:

* **One action per stretch of code between two awaits.**  A handler with two awaits is
  three actions (`StartEdit`, `SendStyle`, `FinishEdit`), and an early return before the
  first await is an action of its own (`RefuseEdit`) or the negation of a guard.
* **The network** (`LoseRequest`, `LoseReply`, `LateWrite` or `LateRequest`) is the same
  everywhere: a request is handled and answered, is lost, is handled and its reply lost,
  or is given up on and handled later.
* **The server** (honua-server, not part of this repository) is modelled from how the
  clients use it: a draft has a generation, a conditional write is accepted at the current
  generation only.  Its definitions are marked external in the map.
* **Budgets** bound a run: `Budget` says how often each operation may happen in one
  behaviour (`Spend`), or constants named `Max...` how many calls, changes or disturbances
  there are; these are the only guards that are not in the code.  The proofs hold for every
  budget.
* A property a run checks may be the conjunction of several named facts.  Each fact is
  stated and explained in its module, where a definition that says "Mutated:" stands beside
  the code's own with a bug that breaks it (`PreparedUnchecked`, `ListingAppliedAnyway`, ...).
  No specification uses them; `PROJECT.json` lists one for each property of a run.

### 2.1 WorkspaceDraft

State, and where it lives in the code:

| Variable | Code |
|---|---|
| `epoch` | `WorkspaceAuthority.epoch` (`StalenessEpoch`) |
| `auth` | the `AuthSession` object of the lifecycle clients |
| `bindings`, `active` | every `WorkspaceDraftBinding` built, and `WorkspaceDraftSession.#binding` |
| `conflict`, `historyBusy` | the fields of that name |
| `history` | `CompositionHistory.#undoStack`, `#redoStack` |
| `queue`, `stage` | `WorkspaceDraftSession.#queue` (a promise chain) and what its head awaits |
| `callers`, `turn` | refresh, prepareTurn and create, which await the queue from outside |
| `dirty` | the unsaved form or style check the session asks before it adopts a draft |
| `request`, `reply`, `server`, `late` | the wire and the server |

`Call` holds what the human or the host starts, `RunQueue` what the head of the queue does,
`Resume` what the callers outside the queue do, `Respond` and `Network` the server.  A
command is one of `addLayer`, `removeLayer`, `setMapStyle`; a composition is the set of
what the properties tell apart.  A draft the server holds at the start contains a mark of
its own (its id), so content that reached a wrong draft can be recognised.

Abstractions: pins, annotations and selection are local and left out; `addPublishedLayer`'s
catalog check and `#initializeDraftStyle` are left out; the style write, a read followed by
a conditional write, is one conditional step of the server; the style editor's flush before
a save is not here; with no draft attached the editor works through the orchestrator (2.5).

### 2.2 DraftSync and ReconciledDrafts

`chain` is the promise chain of fired syncs, `loop` names what `#flushLoop` awaits
(`tick` is the loop between two rounds), `draft`, `pending`, `needsReconciliation` and
`automaticRebase` are the fields.  A state is `[edit, others]`: what this session made of
the composition, and what it holds of other sessions' additions.  `strategy` is fixed at
the start: with or without a `rebase` option.  The merge of a host's rebase or resolve is
modelled as the union of the additions, the strategy the tests use.

Abstractions: `reconcile` is called through the history; another direct caller of
`DraftSync.apply` (`DirectApply`) waits for the adoption of a reconciliation; the `finally`
that clears the shared flush and the continuation that follows it are one step.

`ReconciledDrafts` is the promise: each draft grows by whole revisions, other sessions add
to it at any time, and **a host that chose to refuse stale writes never has a revision of
its own drop what another session added**.  `DraftSync` implements it (`Implements`, checked
by TLC and proved), with `strategy` and `store` mapped to themselves.

### 2.3 ProcessRuns

Per tab: `client` (principal and `#clientGeneration`), `page` (`#graphText`, `#graph`,
`#dirty`, `#advancedPending`, `#prepared`), `shown` (the receipt of `#run`), `attempted`,
the running `action` with its `reply`, and `attach` (`attachWorkspaceTask`).  `storage` is
the part of `localStorage` under `#commandStorageKey`, shared by the tabs; `recorded`
remembers which commands ever had their receipt stored.  `Reload` empties a tab and keeps
`storage`.

Abstractions: the registry, status and cancel buttons and the validation of graphs are left
out; the four requests of a save are one; the tabs start with the same principal; the
source picker's edits are `Edit`.  Package versions are immutable, so a package is its
graph.

### 2.4 CompositionReducer

A composition as functions from ids: `layers`, `widgets`, `controls`, `interactions`,
`annotations`, `pins`, the inline style `bodies` and the saved map `style` (the layers it
captured, its sources and its render layers with their owners).  Each command of the
reducer is one action with the reducer's refusals as guards.  `SetMapStyle` takes what the
canvas can offer: a snapshot of what is drawn (`SnapshotRenders`), of which the editor
keeps a part and to which it adds render layers.  One without an owner is bound to the layer
whose source it reads; one that comes with an owner (`preset`) keeps it unchecked, as
`bindNewRenderLayerOwners` does.

Abstractions: drawing order, titles, the view, feature targets, diffs and undo are left
out; a render layer the editor adds never has a layer's id (`ExtrasAssumption`) and always
reads a source (a background does not); inline style ids are made by the reducer only.

### 2.5 Orchestrator

`live` is the session attached, named by the `#draftSetupGeneration` it was attached under;
`setup` is the session whose creation everybody shares (`#draftSetup`) and `creates` the
creations that have not settled, those of former sessions too.  `queue` is `#serverQueue`,
`stage` what its head awaits and `action` what the head captured before its first await.
A control that waited for its layer goes to the front of the queue when the layer arrives:
`#flushDeferredControls` runs within its layer's turn.  `agent` and `told` stand for the
agent session of the same draft and the result of a tool it ran.  `store` is the server.

A composition is its layers, its controls (each bound to a layer) and its annotations;
annotations have no server tool.  The controls block of a draft is `Unset` until a control
is written, and projecting such a draft leaves the controls on screen alone.

Two history variables are read by properties only: `crossed` says that an answer was
adopted in another session than the one that asked, `tries` counts how often a call was
sent or applied.  Of the move a history action captured, `action` keeps the undo stack it
was captured over (`before`): `undo = action.before` is the code's comparison of the target
with what the stack still offers, where the identity of a revision object matters.

Abstractions: the identity of a revision is its value; the argument shapes of the tool
vocabularies, widgets, interactions, the view and styles are left out; the agent session
starts with its session or not at all (setting its tools or certification anew is left
out), and its own conflict policy belongs to the SDK.

### 2.6 The components around the core

Each has its variables commented with the field they stand for and one action per stretch
between awaits, named after the method.  What follows is what the names do not say.

* **HostSession**: a lease is an adapter of a principal; `past` and `refused` are what time
  and the host do to it, and the timer of one of `LongLeases` fires before it lapses, as a
  timer waits at most 2147483647 ms.  A request is sent, answered, refused with 401 and perhaps
  sent again after the host replaced the lease.  `carriedOut` counts what the server did.
  `SourceCatalog` lists with whatever session it has, and forgets what it listed when a session
  is replaced only if there was an authority: an adapter, a session object, or a bound draft,
  whose binding is `WorkspaceDraft`'s and an input of `ReplaceSession` here.  *Left out*: the
  OIDC flow (its session contributes the state it reports), the token refresh of the library.
* **Browsing**: the client's walk asks page after page at offsets while rows are published
  and withdrawn; home loads two lists under one flag; the browser's lists are the pages they
  are made of, with the number of the request and the filter each page was asked under.
* **LifecyclePanel**, **Publication**: the server's drafts, versions, pointers, publish
  requests and proposals are the fixture server's.  The panel's operations are `tasks` that
  carry what they captured; Publication's are `calls` that wait for the turn to be prepared,
  then for the queue.  A version has the view that was written before it was saved; a map
  without a camera has none to write (`KeepView`), and the version is saved as the draft is.
* **Recipes**: a source is told apart by its locator, which its publisher may move; a listing
  remembers the locators it was answered with.  A submission carries the map it was made
  over, and its create command is counted by the server.
* **LocalRuns**: one tab; a text stands for the file and for the digest of the project.
  **ArtifactImports**: several tabs, one reference per owner, environment and workspace.
* **Geoprocessing**: the agent's session and another writer of the same package beside the
  panel; a package is the set of its members, with a generation and what was validated.
* **Chat**: a message is which turns wrote it and the status of its one tool call; agents and
  hosts send what they like, when they like, until they are detached.  **ActivityLog**: an
  entry is its number and which append made it.
* **MapView**: what a map draws is a record of the composition's version, the preview and per
  layer the revision and the reader of its stylesheet.  A view's `queue` of updates is the
  number issued and the number done.  **MapCamera**: a view states some of a box, a centre
  and a zoom; an ease may be interrupted anywhere between.  The two share the code of one
  class and are split by what they look at.
* **MapProjection**: the loop over the layers is one step a layer, the audience's review one
  step, for every combination of layers, saved style and catalog of the instance.
* **PublishedView**: a reload runs without an await until its map starts, but every call it
  makes into the host may reload or dispose the view: `stack` holds the reloads under way
  with the call each is in.
* **MapStyling**: host and frame share nothing but two message queues.  **StyleProposals**:
  three small state machines that show a style before it is made.  **StyleReads**: the reads
  of a style and of its layer with the digests between them.
* **WidgetRows**, **DeckGestures**, **ControlReading**, **Exploration**: the rows by session;
  the commands of a gesture by route; what a source reference means as layers come and go;
  one runtime per composition, with what it told the map and the deck.
* **FixtureServer**: a route finds its draft when it is called and goes on when the body has
  arrived; a tool runs at once; its jobs, at the end of the module, are a count of polls.
  **FixtureTools**: a tool takes a body to the next one or refuses; pins and annotations do
  not exist there.
* **EvalRun**: a case from its draft to its deletion; the runner consumes a stream of events
  from the scripted or the live driver; the score reads what the draft and the log hold.
* **McpSession**: the handshake callers share, the header each request carries, and a server
  that forgets its sessions.

Beyond what the headers say, these are left out: in MapStyling the colours of a paint; in
MapProjection paint, filters, durable bindings, the view, the legend and the spellings of
geometry types; in WidgetRows a deck that is removed and attached again; in DeckGestures the
pinned layers' disabled inputs; in PublishedView the re-entrance from inside `clear()`, and
two transports with one identity; in StyleReads a session change anywhere but at a wait for
the network or a digest; in EvalRun the semantic checks of single tasks; in LocalRuns the
second tab.

**Instances of several components.**  `MCWorkspaceSurfaces` and `MCMapSurfaces` instantiate
components that share no state in the code; `MCServices` extends its six, so that their
assumptions are evaluated by its run and their theorems hold of it (`ServicesProofs`).
`MCWorkspaceSurfaces` leaves its constants to the configuration and states what the proofs
assume of them beside each instance, so TLC evaluates those assumptions too; its theorems
(`RemoteWorkProofs`, `SurfacesProofs`) hold for every value.  Their initial states choose which
component the behaviour is of (`component`), and every step is one of that component
(`Only(name)`), the others keep an initial state.  The set of behaviours is thus exactly the
union of the components' own; an invariant of the run is the conjunction of what each
component promises, and a counterexample is a behaviour of one component.

## 3. What the runs check

| Run | Bounds | Properties |
|---|---|---|
| `draft_edits` | 2 drafts (one of them created in the run), 1 layer, 1 style; one of each: edit, attach, refresh, create, form, sign-out or session replacement, other writer's edit, lost message | `OnlyCurrentAuthority`, `ObservedOrInConflict`, `OneLineage`, `UnsavedFormKeepsDraft` |
| `draft_history` | 1 draft, 1 layer, 1 style; one attach, 2 edits, 2 undos or redos, a turn, a sign-out or session replacement, another writer, a lost message, a withdrawn edit | `HistoryIsExact`, `TurnSeesOwnWrites`, `EveryoneReturns` |
| `draft_sync` | 2 edits, 1 addition, `maxRevisions` 2; three edits, undos or redos, a direct apply, a reconciliation, a write of another session, a lost message; both strategies | `HoldsServedDraft`, `Implements`, `LatestIntentSaved`, `EverySyncSettles` |
| `orchestrator` | 2 layers, a control, an annotation; two calls, an undo or redo, two changes of session, and an annotation, agent tool, other client's write or lost message | `ScreenIsDraft`, `OnceEach`, `CallsSettle` |
| `workspace_surfaces` | HostSession: 3 leases of 2 principals, one of them longer than a timer waits, a request, 3 events. Browsing: 4 layers on pages of 2, 4 reads. LifecyclePanel: 2 items, 3 drafts, 5 versions, 4 acts. Publication: 3 calls, 2 items, 2 inputs, 2 versions, one disturbance. Recipes: 2 sources moved once, 2 submissions, 6 moves. LocalRuns: 2 texts, 3 commands, 6 upsets. ArtifactImports: 2 tabs, 2 workspaces, 2 artifacts, 3 uploads, 4 disturbances. Geoprocessing: 2 packages, 2 members, 4 acts. Chat: 2 turns and a hosted message, one event of each, 2 switches. ActivityLog: 3 entries, 3 imports | `ScreensAgree`, `WritesOnce`, `HeldAsServed`, `SubmittedOnce`, `RemoteWorkIsRetained`, `RecordsFollowTurns`, `OnlyOverTheOriginalMap`, `LateStaysOut` |
| `map_surfaces` | CompositionReducer and FixtureTools: 2 layers, 2 sources (one spelled like a layer), one of each other part, every sequence of 3 commands. MapStyling: 2 drafts, 4 steps of the user or the world. StyleProposals: 2 layers, 4. MapView: 2 styled layers, 2 maps, 2 changes. MapCamera: 4 views, 3 bookmarks, 2 gestures, a change, an upset. MapProjection: all 2-layer inputs of the instance. PublishedView: 2 reloads, 2 reads, 2 readers. WidgetRows: 2 sources, 2 changes. Exploration: a control over 2 layers, 2 edits, 2 gestures, an upset. DeckGestures: 2 gestures, 2 changes, 3 routes. ControlReading: 4 readings | `StylesWhole`, `MapShowsComposition`, `CameraFollows`, `ReadersSeeTheirOwn`, `SiblingsSurvive`, `CardsShowComposition`, `DismissedStaysAway`, `PinsProtect`, `ReferencesStay`, `ToolsMirror`, `ChangesAreAsShown` |
| `services` | ProcessRuns: 2 tabs, 2 principals, 2 graphs, one save, four runs, two disturbances. FixtureServer: 4 drafts, 3 calls, 2 actors. Its jobs: 2 outputs, 2 submissions, 5 requests. EvalRun: 4 tasks of up to 3 turns, 2 calls, 2 troubles. StyleReads: 2 sessions, a read, 4 events. McpSession: 3 calls, 3 sessions, 3 failures | `ShownIsOwn`, `OneUnrecordedRun`, `HarnessAgrees`, `NothingIsSkipped`, `OneSessionEach`, `ActionsEnd`, `WhatEndedStaysEnded` |

What they say, in words (the facts a property joins are in parentheses):

* **OnlyCurrentAuthority** (`TypeOK`, `AuthorityIsolated`, `ActiveBindingUsesCurrentAuth`):
  whatever reads, edits and undos of a former principal settle after a sign-out, nothing of
  it becomes visible, and the active binding sends with the current session even when the
  session was replaced during its own prospective read.
* **ObservedOrInConflict** (`CompositionIsObserved`, `UnknownOutcomeIsConflict`): between two
  tasks the screen shows exactly what the server accepted at the generation the next write
  will be checked against, or the outcome it does not know is flagged.  **TurnSeesOwnWrites**:
  so a turn is never captured on top of one.
* **OneLineage** (`NoLostUpdate`, `NoForeignContent`): every revision of a draft is one
  command away from the one before it, and none has another draft's content.  The latter
  holds in `draft_edits`, where nothing is undone, and fails with undo (section 5).
* **UnsavedFormKeepsDraft**: only a change of principal replaces the draft under a form.
* **HistoryIsExact** (`UndisturbedHistoryIsExact`, and the two invariants above with undo and
  redo): an undo whose target nobody changed moves the stacks by one revision.
* **EveryoneReturns** (`QueueDrains`, `CallersReturn`, `HistoryRecovers`): no failure leaves
  the queue, a caller or the undo buttons blocked.
* **HoldsServedDraft** (`TypeOK` with the bound of the undo stack, which three edits reach,
  `DraftWasServed`), **Implements**, **LatestIntentSaved**,
  **EverySyncSettles** (`FlushReturns`, `ReconcileEnds`, `LoopHasResult`): the client's copy is
  a revision the server accepted; the sync is an implementation of 2.2's promise; a loop that
  resolves with nothing left has saved the last state it was asked to; every caller that
  shares the loop gets an answer.
* **ScreenIsDraft**, **OnceEach** (`TypeOK`, `OneCreation`, `TriedOnce`), **CallsSettle**: with a
  session, the screen is its draft at the generation the next call will name, unless an
  answer crossed a change of session (section 5); one creation per session; no conflict, no
  waiting control and no detaching makes a call happen twice; no call is left hanging.
* **ScreensAgree** (`CatalogIsOwn`, `HomeIsWaiting`, `OneConfirmation`,
  `MetadataIsOfSelection`): the catalog on the map is of the present principal or of a
  standalone sign-in (section 5), never of another host principal; a home list that says
  "Loading" waits for a call; one confirmation is out at a time; a recipe's form shows the
  selected source's fields.
* **WritesOnce**: a write is carried out once however leases are renewed around it.
* **HeldAsServed** (`ListingIsWhole`, `SessionBodyIsServers`, `PublishedIsOwn`,
  `VersionHasView`): a listing without an error has every layer that stayed through it; an
  authoring session's body is the server's at its generation; what is published under an item
  is a version of it; a saved version has the view it was asked for, if the map had a camera.
* **SubmittedOnce** (`OneSubmission`, `OneDraftPerSubmission`), **OnlyOverTheOriginalMap**,
  **RemoteWorkIsRetained** (`UnrecordedRunIsRetained`, `OpenUploadIsRetained`): irreversible
  commands have one identity through retries; a created draft opens only over the map it was
  asked on; what the server may still be doing can be found again after reloads.
* **RecordsFollowTurns**: the transcript, the history and the log account for every turn once,
  in order.  **LateStaysOut** (`OnlyOwnLeaseEnds`, `ListingsShownAreOwn`, `AttachKeepsText`,
  `DetachedIsSilent`, `NumbersNeverCollide`): what is late changes only its own; a lease is
  ended by its own end or timer, and a listing is put on the map only for the principal present.
* **StylesWhole** (`InlineStylesWhole`, `MapStyleWhole`): no inline style outlives its layer,
  also when a layer comes back under its old id; what the saved style draws is of a composed
  layer, from its source, which the style has, but for render layers that came with an owner.  **PinsProtect**: no command changes or
  removes a pinned target.  **ReferencesStay**: no command takes away what a widget, a control
  or an interaction refers to, unless it was asked to.  **ToolsMirror**: what the server's tool
  makes of the body is what the reducer makes of the composition.
* **MapShowsComposition** (`MapShowsComposition`, `NoOrphanMap`, `OneReadersStyles`,
  `AppearanceFollows`, `OneRuntime`): when the updates have run, the one map that exists is
  the canvas's and draws the newest composition and preview with one reader's styles; the
  appearance told last is what clauses, verbs and the document give.
* **CameraFollows** (`CaptureIsWhole`): the map looks where the composed view put it unless
  somebody moved it since, and no save captures a moment of an animation.
* **ReadersSeeTheirOwn** (`OnlyTheNewestRemains`, `SettledIsOfTheNewest`, `HostKnowsStatus`,
  `RowsOfReader`, `RowsOfSession`, `ReaderSeesOnlyApproved`), **SiblingsSurvive**
  (`EveryLayerAccountedFor`, `DrawnInOrder`): reloads that overlap or nest leave the newest
  alone; rows belong to the session; a reader's map reads only what their catalog approves;
  a layer that cannot be drawn is reported and takes no other with it.
* **CardsShowComposition** (`DraftGesturesAreWhole`, `BarFollowsDeck`, `ReadsRecover`,
  `TargetsShareSource`): inputs return to what the composition says, a draft takes a gesture
  whole, the control bar's options follow the deck's rows, a failed read can be made again.
* **DismissedStaysAway**, **ChangesAreAsShown** (`WritesWhatIsShown`, `WritesToItsDraft`,
  `RendersTheNewest`, `MeaningStays`): a discarded suggestion does not return; a save writes
  what the editor showed to the draft it was opened over; the shared preview renders the
  newest document; a control that stays keeps its source.
* **OneUnrecordedRun**: of one principal's runs of one package at most one has no stored
  receipt, however often Run is pressed, in however many tabs, across reloads and lost
  replies.  **ShownIsOwn** (`PreparedIsShown`, `ReceiptIsOwn`): what can be run is what both
  editors show, and receipts stay with their principal.  **ActionsEnd**: the panel never stays
  busy.
* **HarnessAgrees** (`VersionsNumbered`, `PointersOwn`, `OneDraftPerCommand`, `OneAwaiting`,
  `CatalogHoldsResults`, `LivePassIsStored`, `ResultsFollowTheirCalls`, `ReplyIsOfInstruction`,
  `NothingOutlivesTheRun`), **WhatEndedStaysEnded** (`DecisionStands`, `EndStands`,
  `EndsWithItsSession`): the server's numbers, pointers and commands agree; an evaluation's
  results and replies are its turn's own and a live pass is of a stored draft; decisions and
  ended jobs stand.
* **NothingIsSkipped** (`WalkIsWhole`, `CasePassIsEarned`): a paged walk sees every row that
  stays once, and a case passes only if every turn it lists was scored.
* **OneSessionEach** (`BindingIsOneSessions`, `ExpiryIsSurvived`, `CallsShareOneSession`): the
  parts of a bound style, and the calls of one client, are of one session.

The invariant of a run that names the types of its components (`OnlyCurrentAuthority`,
`HoldsServedDraft`, `OnceEach`, `ScreensAgree`, `MapShowsComposition`, `HarnessAgrees`) is its
type invariant as well.

Why the bounds are enough. The hazards need two concurrent things and one thing between
them: a task in flight, another call, and a disturbance (a sign-out, another writer, a lost
message). The budgets give every pair of operations and one disturbance of each kind, in
every order. `OneUnrecordedRun` needs two tabs, a run in each, a lost reply, and a further
run after it, hence four runs; an upload that is forgotten needs two workspaces and a third
upload; two retries of one submission need three calls. Three commands reach a shared
source, a saved style, a pin and the removal of what they name or its return; that longer
sequences of commands keep the same facts is proved (section 4). An undo stack of two
revisions is full after one edit and trimmed by the next. Every bound is reached far
enough that the facts can fail: each has a mutation of the code's own definitions that
breaks it within these bounds.

Deadlock is not checked: a behaviour ends when its budget is spent and every promise
settled; that nothing stops before that is what the liveness properties are for.

Fairness.  `RunQueue`, `Resume`, `Run` and `Continue` are what an event loop runs as soon
as the awaited promise settles, so they are weakly fair; so is the server or the network's
answer to a request (`Respond`, `ServerHandles`), as a `fetch` settles with a response or
an error.  Clicks, other writers, sign-outs and lost messages are not fair: nothing waits
for them.  The components of 2.6 are checked for safety only.

## 4. What is proved

For every value of the constants (any drafts, layers, tabs, principals, leases, edits, ids
and budgets), TLAPS checks:

| Theorem | Statement | Run |
|---|---|---|
| `WorkspaceDraftProofs!CurrentAuthority` (from `TypeCorrect`, `AuthorityIsolation`, `CurrentSession`), `UnsavedForm` | `OnlyCurrentAuthority`, `UnsavedFormKeepsDraft` | `draft_edits` |
| `WorkspaceDraftProofs!Observed`, `ObservedWithoutUndo` | `ObservedOrInConflict`, of the behaviours named below | `draft_edits` |
| `WorkspaceDraftProofs!Lineage` | `OneLineage`, without undo | `draft_edits` |
| `WorkspaceDraftProofs!ExactHistory`, `TurnsSeeOwnWrites` | `HistoryIsExact`, `TurnSeesOwnWrites`, of the behaviours named below | `draft_history` |
| `WorkspaceDraftProofs!OwnContent` | `NoForeignContent`, of the behaviours named below | (`cross_draft_undo` violates it without the hypothesis) |
| `DraftSyncProofs!HeldDraft` (from `TypeCorrect`, `ServedDraft`), `Refinement`, `LatestIntent`, `LoopResult` | `HoldsServedDraft` (with the bound of the undo stack), `Implements`, `LatestIntentSaved`, the safety part of `EverySyncSettles` | `draft_sync` |
| `OrchestratorProofs!MadeOnce` (from `Invariance`), `ScreenIsTheDraft` | `OnceEach` (with the types), `ScreenIsDraft` | `orchestrator` |
| `SurfacesProofs!WriteOnce`, `OwnCatalog`, `OwnLeaseEnds`, `TypeCorrect` | `WritesOnce`, `CatalogIsOwn` with `ListingsShownAreOwn`, `OnlyOwnLeaseEnds`, `TypeOK` | `workspace_surfaces` |
| `SurfacesProofs!SubmitsOnce`, `OpensOverTheOriginal` (from `RemoteWorkProofs!ReviewsSubmitOnce`, `RecipesKeepTheirOwn`) | `SubmittedOnce`, `OnlyOverTheOriginalMap`, with `VersionHasView` and `MetadataIsOfSelection` | `workspace_surfaces` |
| `SurfacesProofs!WorkIsRetained` (from `RemoteWorkProofs!RunsAreRetained`, `UploadsAreRetained`) | `RemoteWorkIsRetained` | `workspace_surfaces` |
| `SurfacesProofs!TurnsAreRecorded` (from `TurnsAreTold`) | `RecordsFollowTurns` | `workspace_surfaces` |
| `SurfacesProofs!LateChangesItsOwn` (from `OwnLeaseEnds`, `OwnCatalog`, `RunsAreRetained`, `TurnsAreTold`, `ImportsCollideWithNothing`) | `LateStaysOut` | `workspace_surfaces` |
| `SurfacesProofs!SurfacesAreTheirOwn` | a behaviour of the instance is one of each component's specification | `workspace_surfaces` |
| `ProcessRunsProofs!OwnShown` (from `ShownGraph`, `OwnReceipts`), `OneRun`, `TypeCorrect` | `ShownIsOwn`, `OneUnrecordedRun`, `TypeOK` | `services` |
| `CompositionReducerProofs!WholeStyles`, `ProtectedPins`, `StableReferences`, `TypeCorrect` | `StylesWhole`, `PinsProtect`, `ReferencesStay`, `TypeOK` | `map_surfaces` |
| `CompositionReducerProofs!MirroredTools` | `ToolsMirror` | `map_surfaces` |
| `ServicesProofs!HarnessAgreement` (from `StoreAgrees`, `ResultsOnce`, `RunsAreKept`) | `HarnessAgrees` | `services` |
| `ServicesProofs!OneSession` (from `OneReadingSession`, `OneMcpSession`) | `OneSessionEach` | `services` |
| `ServicesProofs!EndsAreFinal` | `WhatEndedStaysEnded` | `services` |
| `ServicesProofs!RunsAreOwn` | `OneUnrecordedRun`, `ShownIsOwn` of the instance | `services` |

Each rests on an inductive invariant (`Invariance` in the module), because the property
alone does not survive a step:

* *WorkspaceDraft*.  That the active binding is of the current authority survives
  `FinishAttach` only because a task carries the epoch it was queued under and a binding
  that of its own request; `QueueInv` says which binding, epoch and session every task and
  every caller may carry, and what the head's request is about.
* *DraftLineage*.  That the screen shows the revision the next write names survives
  `FinishEdit` only if the answer is of the active binding's draft, names the newest revision
  this session wrote there, and everything else this session may have written since is being
  waited for or flagged.  `Observation` says so from the binding to the wire: `RequestIsHeads`,
  `ReplyIsServers`, `OutcomeKnown` (a write given up on raised the conflict then; when it
  lands later, it counts as another writer's), `SentByActive`, `ScreenObserved`.  For the content,
  `EverythingIsOwn` follows a draft's mark through both stacks, the captured targets and the
  requests; for the lineage, `WritesContinue` says that every write still to land carries the
  content its generation has and one command.
* *DraftSync*.  Without a rebase strategy a write is harmless because every local state
  holds the additions of the draft it was computed from: `Agreement` says so of both
  stacks, the chain, the pending state and the request, stage by stage; `ServerInv` that
  every write, even a late one, names a revision the server accepted; `StacksFit` that undo
  and redo together respect `maxRevisions`, without which a redo could exceed it.
  `IntentKept` says where the state last handed to `apply` is at each stage of a loop:
  pending, being sent, or in the draft the loop holds.
* *Orchestrator*.  That a session makes one creation is `SessionsInOrder` (nothing belongs to
  a session still to come) and `OneInFlight`.  That a call is tried once is `CallsNumbered`
  (a call is queued or deferred once, under its own number) and `WaitingUntried` (only the
  head can have been sent); for a layer whose arrival moves the waiting controls to the front
  of the queue, and for detaching, it needs what the code's filter and its loop over the
  deferred controls return.  The types themselves need `CaptureHolds`: an undo is carried out
  after two awaits, and that there is still something to undo follows from the stack it was
  captured over.  `ScreenIsTheDraft` adds `RequestOfSession`: the request of the attached
  session is about its draft, so an answer that is not `crossed` is of the draft on screen.
* *HostSession*.  A write is repeated only after a refusal, so `CarriedOutOnce` says in which
  stages a request that may still be sent has not been carried out; `LeasesAreKnown` says
  that a request counted under the current renewals holds the current lease, which is what
  keeps a late 401 from ending the lease that replaced the refused one; `ListingsAreOwn` that
  a listing of the current epoch is of the current principal.  Where the catalog is kept over
  a change of session there was no adapter, so what it may hold is a standalone sign-in's.  A
  timer is armed for the lease held (`SessionFollowsHost`), which is past or one of
  `LongLeases`: the theorem says no more of those, because the code does not.
* *Publication*.  `QueueRuns`: the queue runs its calls one at a time, in the order in which
  they were asked, so the draft a running call is about has no other writer in the page.
  `CallKnows` says at each step what a call knows of drafts and versions: that the draft still
  has the view it wrote, if it wrote one, unless another writer moved it.  Every publication under way and every
  request at the server is `Pinned` to the input its review was confirmed with first, which no
  later confirmation changes, so a retry finds its own request by command and version.
* *Recipes*.  `EntriesInv`: the stage of a submission says whether its draft may exist, no
  command is carried out twice (`CreatedOnce`), and the draft a submission knows is the one its
  command made.  `PickerInv`: an answer that still counts is
  of the panel's own sequence, and so about the source selected.
* *LocalRuns*.  `ActionKnows`: the action under way knows the command retained for its text, and
  a retained command marked accepted is in the history; so an entry is replaced or cleared only
  when its run, if there was one, is recorded.
* *ArtifactImports*.  `RequestKnows`: what a request captured of its workspace stays true of its
  upload whoever moves it meanwhile; `OwnUploads`: two requests under way are about different
  uploads; an upload about to be sent is the one its workspace's slot retains.
* *Chat*.  `TurnsSound`: a turn's log has its end exactly when something settled it, and one word
  more for one that threw.  `MessagesAgree` and `HistoryAgrees` follow each event through the
  reducer to the one message of its id (ids are new: `IdsAreFree`).  A detached turn is one of
  an agent, and agents write to the message in hand, which detaching takes away.
* *ActivityLog*.  `Numbered`: every number in the log, in an export and in what is merged from
  two exports is at most the number of entries ever appended, and the next follows the log's.
* *ProcessRuns*.  `RequestsKnown` and `RunsKnown`: a command some request carries, that may
  still land or that was run is either still retained unresolved under its key or had its
  receipt stored.  As a key holds one command, two unrecorded runs are the same.
* *CompositionReducer*.  The styles are inductive with the types, render layers that came with
  an owner excepted: nothing in the code keeps their owner or their source.  A pin protects its
  target because it also keeps it in existence (`PinsExist`).
* *FixtureTools*.  Command by command: the tool's guard and the reducer's agree on a
  composition without pins on the target, and the bodies they leave are equal; the types and
  whole styles of the reducer's invariant give what the removal of a source needs.
* *FixtureServer*.  A route goes on with what it found when it was called, so `RequestOK` says
  what of that is still so when the body arrives: items, versions and proposals are only
  added, which is why a captured version is still of its item (`ProposalsOK`), and `OneAwaiting`
  that the table of awaiting keys names the awaiting proposals, each under its own key.
* *The fixture's jobs*.  `Registered`: of a job the catalog has the outputs the job noted, each once,
  and a job that noted any is successful, whatever polls and cancels follow.
* *EvalRun*.  A live pass is of a stored draft because `ReadInv` keeps the last reading of the
  server the draft's until the score is taken, although a call rejected by its timer may still
  land; a reply is of its instruction because `PlaysInv` counts the conversation's plays along
  with the instructions; `HistoryInv` and `SessionInv` say what the turn, its session and its
  messages know of one another.
* *StyleReads*.  `OwnAnswers`: what a read holds was answered to its own session, stage by
  stage, and `Refused` that an expired token was offered twice.  *McpSession*: `OneHandshake`
  and `CallsHaveHeaders`, a call waits for the handshake it joined and carries what that gave.
* *The instance.*  `EachIsItself`: a step of `MCServices` is a step of the chosen component or
  leaves all its variables as they are, so a behaviour of the instance is one of each
  component's own specification and every theorem above holds of it.  `SurfacesAreTheirOwn`
  says the same of `MCWorkspaceSurfaces` and the seven components with theorems.

**Restricted theorems.**  Undo is where the draft session is wrong (section 5), and the
theorems about it name the behaviours in which it is right.  `Observed`, `ExactHistory`,
`TurnsSeeOwnWrites` and `OwnContent` assume `[][UndoOfActiveDraft]_vars`: an undo or redo that
leaves does so through the active binding.  The code does not ensure that: the binding is the
one of the click, and the run `cross_draft_undo` attaches another draft before the task runs.
With one draft, as in `draft_history`, or whenever nothing is attached between a click and its
task, the assumption holds.  `ObservedWithoutUndo` and `Lineage` assume that no undo is made at
all (`Budget["history"] = 0`, as in `draft_edits`) and nothing else: `stale_undo` shows that an
undo may take back two commands in one revision.  `ScreenIsTheDraft` needs no such
assumption, since the property itself excepts answers that crossed a change of session; the
run `session_change` shows that the exception is needed.

Assumptions on the constants are the named `ASSUME`s of the modules: budgets are functions to
the naturals, the special values (`None`, `Absent`, `Unset`) are no member of the sets they
stand beside, the marks of drafts are neither layers nor styles (`MarksAssumption`), an adapter
has a kind (`KindAssumption`), a control a source layer (`SourceAssumption`), `MaxRevisions` is
positive.  TLC evaluates them on every run.

**Recursion.**  The library's induction theorems cannot be used with the installed provers, but
its least-number principle can (`WFMin`, for the order of the naturals).  `OrchestratorProofs`
derives from it `Least`, and from that `Recursion`: a function on `0..N` given by its start and
its steps exists.  With these, what the recursive functions `Picked` (the filter over the
deferred controls) and `Landed` (the loop that applies them) return is proved for every queue.
`SurfacesProofs` takes from it that the `Max` of a log's numbers and the `Min` of the free ids
of a message exist.

Only model-checked: the liveness properties (out of the prover's reach); `NothingIsSkipped`,
whose two facts speak of what a fold over a sequence of any length gives (a page that was
enumerated, a score that was summed), which needs induction over data; of
`workspace_surfaces`, `ScreensAgree` and `HeldAsServed`, which join facts of `Browsing` (its
lists are what `SelectSeq`, a recursive operator, leaves of pages), `LifecyclePanel` and
`Geoprocessing` to those proved of the others; and the facts of the components of
`map_surfaces` that no row of the table names.

## 5. Where the code and its documentation disagree

Five are runs that TLC must find violated.

* `stale_undo` (`HistoryMovesOneRevision`): `applyHistory` peeks at the stack when the
  button is pressed, before its task is queued.  Behind an edit in flight it takes back two
  revisions, and the redo stack is lost because the result is entered as a new edit.
* `cross_draft_undo` (`NoForeignContent`): a queued undo keeps the binding of the click.
  When another draft was attached before it runs, its result lands on the new draft's
  screen, and the next edit writes it there.
* `conflict_blocks` (`ConflictBlocksWrites`): the conflict flag is documented to block
  edits; neither `dispatch` nor the queued edit looks at it, and only undo, redo and turns
  are refused.
* `sync_rebase` (`AdditionsSurvive`): after a rebase merged another session's addition, the
  history is not told; its next edit is computed without the addition and, now at the right
  generation, replaces the merged draft.  The abstract specification therefore promises
  preservation only to hosts that refuse stale writes.  The run has `maxRevisions` 1, a stack
  in which nothing is undone, so the additions are lost by an edit alone.
* `session_change` (`ShowsDraft`): `#applyServer` takes a tool's answer without asking
  whether its session is still attached (`applyHistoryAction` asks).  When credentials are
  renewed while a call is out, its answer replaces the new session's screen and generation
  by the former draft's; the edit that was reported as accepted is not in the new draft.

The modules state further claims of the code's comments, documents and tests that the code
does not keep.  No run of section 3 has them; each was refuted by TLC in the component's
own instance of section 3, with the change named.

| Claim | What the code says of itself | What happens |
|---|---|---|
| `HostSession!NoFormerCatalog` | "Everything the former principal could see or edit goes, including cached source metadata." (`app/studio-workspace.ts:149`) | whether there was an authority is asked of the session object, which a disconnected element no longer has: the catalog of a standalone sign-in stays when a host assigns its session meanwhile, and `connectCanvas` puts it on the map of the new principal |
| `HostSession!LeaseLastsItsTime` | a lease is fresh until its `expiresAt` (`auth/host-session.ts:256-259`) | the expiry timer waits at most 2147483647 ms and then ends the session without comparing dates: a lease of more than 24.8 days ends early (`:277-283`) |
| `CompositionReducer!RendersHaveSources` | "New render layers require an explicit/unique owner from the actual composition" (`styles/map-style-edit.ts:102`) | a render layer that comes with an owner is not looked at (`:115`): a copy moved to another layer's source keeps the owner it was copied with, and stays without a source when the layer it reads is removed |
| `HostSession!CatalogIsComing` | the catalog is "Fetched once per connection" (`elements/studio-app-element.ts:203`) | a sign-out and a sign-in while the listing is out ask for no other, and the answer of the former one is dropped |
| `Browsing!BrowserShowsFilter` | the browser shows its filter's items (`elements/studio-content-browser-element.ts:102`) | when the filter changes while the first page of the former one is out, the answer that comes last is shown, whichever it is of |
| `LifecyclePanel!KeyNamesItem` (`MaxActs = 5`) | publishing requires typing the package key | a load that answers between typing and confirming changes the item; the key sent is the former's |
| `Recipes!ResolvedAsOffered` | what is verified is what the form offered | a source moved by its publisher is resolved at its new locator |
| `LocalRuns!UnsavedTextStays` (`MaxUpsets = 4`) | "Save the current source before loading another project." | text typed while the project is being read is replaced by the load |
| `Geoprocessing!ExecutedIsPreviewed` (`MaxGpActs = 5`) | preview before first execution (`elements/studio-gp-panel-element.ts:23-25`) | a preview asked for one draft is answered when another is shown, which is then executed |
| `MapStyling!MatchesSavedDraft` | "Map style matches the saved draft." | a change observed while the editor is busy is passed over and not read again |
| `MapStyling!NoRemovedField` (`MaxStyling = 5`) | "revalidates every applied owner after frame flush before save" (`test/styles/map-style-editor.test.ts:290`) | an expression whose binding was pruned and that comes back with the frame's buffer is saved without a look at the fields |
| `StyleProposals!ClearsItsPreview` | a successful apply clears that preview | it clears whichever preview is shown when it answers |
| `MapView!FilterReachesMap` | the appearance handed to the map view (`interactions/studio-interactions.ts:83`) | a filter computed before the map exists is never handed over |
| `MapView!RefreshedBeforeRead` (`MaxChanges = 3`) | evidence is read after its refresh (`map/composition-map-view.ts`) | a superseded update ends the observer's wait early |
| `FixtureServer!StaleGenerationRefused` | "only a MISMATCHED explicit value 409s" (`mock-server.mjs:1472`) | the generation is compared with a draft object another request has replaced |
| `Chat!ComposerNeverOverlaps` (`ApiSends = FALSE`, `MaxTurns = 3`) | the composer is disabled while a turn streams | an earlier turn whose stream fails after its answer was complete clears the flag while the next one streams |
| `DeckGestures!GesturesAreWhole` (`Routes = {"tools"}`) | "half of it landing is worse than none of it" (`app/composition-editor.ts:86-89`) | the loop stops at the first failure and keeps what landed |
| `MapCamera!BookmarkRestores` | "a label and the view it restores" (`controls/control-config.ts:140`) | the view is compared with the one applied last, not with the camera: a bookmark clicked again after the user moved the map may do nothing |
| `MapCamera!ClicksSelect` | a measuring click does not also select (`elements/studio-control-bar-element.ts:184`) | a measure control that was removed while measuring suppresses selection for good |
| `MapCamera!BasemapIsChosen` | the switcher shows the choice | a restarted map has the composition's own basemap while the switcher still shows the choice |

Seen while modelling, and not stated as a property:

* *Orchestrator*: a deferred control is documented as "flushed after a returned draft makes
  the source resolvable", but only a queued `addLayer` and detaching flush it.
* *Publication*: reviewing one version twice makes two reviews, each with its own pinned
  submission; `saveAsVersion` names no generation; a save over a map without a camera makes a
  version with whatever view the draft has (`studio-workspace.ts:185`).
* *Style editor*: changes adopted while the editor is dirty are overwritten by its later
  whole-style save; two calls of `open()` make two editors; a user's edit in flight when a
  clean editor reloads is lost; discarding does not lock the frame.
* *Local runs*: a file chosen while a save is out gets the saved file's text and digest; two
  tabs overwrite the retained command.  *Imports*: a definite refusal leaves its intent
  "unknown".  *Geoprocessing*: after a lost answer a second click starts a second job; the
  status of another draft's job may be shown.
* *Map*: a late geolocation answer moves the composition shown by then; a session change
  empties the bound styles and nothing schedules their return; a canvas that is disconnected
  or given another composition during its boot may keep `#mapPending`; a failed `setStyle`
  leaves the view unapplied until the next change; a `setView` after `settleAuthoredView` may
  be taken back by the save.
* *Interactions*: verb filters are cleared by a recompile while the control keeps its clause;
  a removed control's clause returns with its id.  *Rows*: a failed load is cached until the
  deck is reset.
* *Fixture server*: a rollback whose item was found before its body arrived puts the other
  pointer back; a DELETE during a PUT brings the draft back; `create_draft` over an existing
  item starts its generation again.
* *Chat*: `cancel()` reaches the newest controller only; a cancelled plain turn leaves its
  user message in the history.  *OIDC*: a forced refresh while signed out ends "expired"
  (`auth/oidc-session.ts:132-137` says otherwise).
* *Evaluation*: a live call rejected by its timer is still executed; a lost `createDraft`
  answer leaves a draft behind; turns of the user that applied nothing are not scored.
* *MCP*: a client whose server session is gone never initializes again (`mcp/client.ts:150`).

## 6. Not modelled, and the plan

Not modelled: rendering (MapLibre, charts, CSS), parsing, formatting and geodesy, the
OIDC library, the bytes of streams, theme and design inventory, and of the fixture server
its seeded data, feature queries and tokens: they have no protocol of their own or are
numeric code.  `diffCompositionState` of the reducer, the process registry with its status and
cancel buttons, and the second tab of the local runs are protocol that is left out.

Next, in this order:

1. Proofs about `LifecyclePanel` and `Geoprocessing`, with which `HeldAsServed` would be proved,
   and about `MapView`, `MapStyling` and `WidgetRows`.
2. Liveness of the components of 2.6 under the fairness of section 3: lists that stop
   loading, reviews and recipes that settle, maps that come to rest.
3. Compositions: `LifecyclePanel` and `Publication` over one `FixtureServer`, `MapStyling`
   over `WorkspaceDraft`, `MapView` with `Exploration`.
4. An abstract specification of an irreversible command with an identity, which
   `Publication`, `Recipes`, `ProcessRuns` and `ArtifactImports` implement.
