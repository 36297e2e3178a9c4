------------------------ MODULE MCWorkspaceSurfaces ------------------------
(***************************************************************************)
(* The components around the draft session, beside each other: a behaviour *)
(* is a behaviour of one of them, the component it begins with, and the    *)
(* others keep their initial states.  They share no state in the code, so  *)
(* this explores what a run of each would.  The constants are any; the     *)
(* configuration gives them small values, and SurfacesProofs none.         *)
(***************************************************************************)
EXTENDS HostSession, Sequences, TLC

CONSTANTS
    \* Browsing: three layers listed of four, on two pages; two values of each filter
    CatalogLayers, FirstListed, PageSize, MaxPages, Families, States, Searches, LastPage, MaxReads,
    \* LifecyclePanel: two items of one draft each, a third draft, five versions
    PanelItems, PanelDrafts, PanelVersions, MaxActs,
    \* Publication: three calls, two commands, two versions and a disturbance
    Calls, Items, Inputs, MaxVersions, MaxDrafts, MaxDisturbances,
    \* Recipes: two sources, each republished once, two submissions
    Sources, MaxLocator, MaxSubmissions, MaxMoves,
    \* LocalRuns: a project of one file with two texts, three run commands
    Texts, First, MaxRevision, MaxCommands, MaxUpsets,
    \* ArtifactImports: two tabs, two owners, two artifacts, three uploads
    Tabs, Scopes, Artifacts, MaxUploads, MaxTrouble,
    \* Geoprocessing: the draft the session authors and another one
    Packages, Authored, Members, MaxGen, MaxGpActs,
    \* Chat: two turns, a hosted message with the second one's number, two changes of
    \* the session, the adapter or the connection
    Notes, Hosted, ApiSends, MaxTurns, TurnEvents, MaxSwitches,
    \* ActivityLog: three entries and three imports of what was exported
    MaxEntries, MaxImports

VARIABLES
    component, \* which component the behaviour is of
    route, layers, walks, packageCalls, home, authStatus, shownFilter, searchTimer, lists,
    pageCalls, browseSpent,
    serverDrafts, serverVersions, pointers, panelProposals, selected, panel, compared, dialog,
    tasks, panelSpent,
    pubEpoch, binding, editPending, queue, calls, submissions, drafts, versions, current,
    published, requests, proposals, pubTrouble,
    rcEpoch, lease, active, located, recipeCatalog, choices, recipePanel, open, discoveries, entries,
    revoked, created, nextId, moves,
    disk, identity, project, file, content, action, task, client, retained, runs, receipt,
    commands, recorded, upsets,
    slot, uploads, reserved, page, trouble,
    packages, jobs, author, gpPanel, jobRefs, asked, gpActs,
    chat, messageSeq, chatHistory, turns, activeTurn, chatSession, chatAdapter, agentPending,
    agentMessage, chatSpent,
    logEntries, seq, exported, snapshot, position, replayed, appended, logImports

-----------------------------------------------------------------------------
browseVars == <<route, layers, walks, packageCalls, home, authStatus, shownFilter, searchTimer,
    lists, pageCalls, browseSpent>>
panelVars == <<serverDrafts, serverVersions, pointers, panelProposals, selected, panel,
    compared, dialog, tasks, panelSpent>>
pubVars == <<pubEpoch, binding, editPending, queue, calls, submissions, drafts, versions,
    current, published, requests, proposals, pubTrouble>>
recipeVars == <<rcEpoch, lease, active, located, recipeCatalog, choices, recipePanel, open,
    discoveries, entries, revoked, created, nextId, moves>>
localVars == <<disk, identity, project, file, content, action, task, client, retained, runs,
    receipt, commands, recorded, upsets>>
importVars == <<slot, uploads, reserved, page, trouble>>
gpVars == <<packages, jobs, author, gpPanel, jobRefs, asked, gpActs>>
chatVars == <<chat, messageSeq, chatHistory, turns, activeTurn, chatSession, chatAdapter,
    agentPending, agentMessage, chatSpent>>
logVars == <<logEntries, seq, exported, snapshot, position, replayed, appended, logImports>>
surfaceVars == <<component, sessionVars, browseVars, panelVars, pubVars, recipeVars, localVars,
                 importVars, gpVars, chatVars, logVars>>

-----------------------------------------------------------------------------
(* The components.  What is assumed: a name is none of the numbers and     *)
(* records beside it, which null is not either, and the bounds are         *)
(* numbers.                                                                *)
Views == INSTANCE Browsing WITH
    Layers <- CatalogLayers, Published <- FirstListed, Unset <- None

Panel == INSTANCE LifecyclePanel WITH
    Items <- PanelItems, Absent <- None, MaxDrafts <- PanelDrafts, MaxVersions <- PanelVersions,
    proposals <- panelProposals

Publishing == INSTANCE Publication WITH MaxTrouble <- MaxDisturbances, trouble <- pubTrouble

ASSUME PublishingAssumption ==
  /\ IsFiniteSet(Items) /\ Items # {}
  /\ None \notin Nat /\ None \notin Calls /\ None \notin Inputs
  /\ MaxVersions \in Nat \ {0} /\ MaxDrafts \in Nat /\ MaxDisturbances \in Nat

Explore == INSTANCE Recipes WITH panel <- recipePanel, catalog <- recipeCatalog

ASSUME ExploreAssumption ==
  /\ MaxLocator \in Nat \ {0} /\ MaxSubmissions \in Nat /\ MaxMoves \in Nat
  /\ None \notin Nat /\ None \notin Sources
  /\ None \notin Explore!Panels /\ None \notin Explore!Resolutions

Local == INSTANCE LocalRuns WITH selected <- file

ASSUME LocalAssumption ==
  /\ First \in Texts /\ None \notin Texts
  /\ MaxRevision \in Nat \ {0} /\ MaxCommands \in Nat /\ MaxUpsets \in Nat
  /\ None \notin Local!Project /\ None \notin Local!Retained

Imports == INSTANCE ArtifactImports

ASSUME ImportsAssumption ==
  /\ MaxUploads \in Nat /\ MaxTrouble \in Nat
  /\ None \notin Imports!Reference /\ None \notin Imports!Authority /\ None \notin Artifacts

Jobs == INSTANCE Geoprocessing

Conversation == INSTANCE Chat WITH
    MaxEvents <- TurnEvents, history <- chatHistory, active <- activeTurn,
    session <- chatSession, adapter <- chatAdapter, spent <- chatSpent

ASSUME ConversationAssumption ==
  /\ None \notin Nat /\ Hosted \subseteq Nat
  /\ MaxTurns \in Nat /\ TurnEvents \in Nat /\ MaxSwitches \in Nat

Activity == INSTANCE ActivityLog WITH entries <- logEntries, imports <- logImports

ASSUME ActivityAssumption == MaxEntries \in Nat /\ MaxImports \in Nat

(* Values for the configuration: two leases of one principal's cookie and  *)
(* one of another's, three layers listed of four.                          *)
CONSTANTS c1, c2, c3, p1, q1, l1, l2, l3

CookieKind == [n \in Adapters |-> "cookie"]
LeasePrincipal == c1 :> p1 @@ c2 :> p1 @@ c3 :> q1
ThreeLayers == <<l1, l2, l3>>

-----------------------------------------------------------------------------
SurfacesInit ==
    /\ component \in {"session", "views", "panel", "publishing", "explore", "local", "imports",
                      "jobs", "conversation", "activity"}
    /\ Init /\ Views!BrowsingInit /\ Panel!PanelInit /\ Publishing!PublicationInit
    /\ Explore!RecipeInit /\ Local!LocalInit /\ Imports!ImportInit /\ Jobs!GpInit
    /\ Conversation!ChatInit /\ Activity!LogInit
    \* A component that does not move begins in one of its initial states only.
    /\ component = "session" \/ hostAdapter = None
    /\ component = "publishing" \/ drafts[1].item = CHOOSE i \in Items : TRUE
    /\ component = "imports" \/ \A t \in Tabs : page[t].scope = CHOOSE c \in Scopes : TRUE

\* The one component that moves.
Only(name) ==
    /\ component = name
    /\ UNCHANGED component
    /\ IF name = "session" THEN TRUE ELSE UNCHANGED sessionVars
    /\ IF name = "views" THEN TRUE ELSE UNCHANGED browseVars
    /\ IF name = "panel" THEN TRUE ELSE UNCHANGED panelVars
    /\ IF name = "publishing" THEN TRUE ELSE UNCHANGED pubVars
    /\ IF name = "explore" THEN TRUE ELSE UNCHANGED recipeVars
    /\ IF name = "local" THEN TRUE ELSE UNCHANGED localVars
    /\ IF name = "imports" THEN TRUE ELSE UNCHANGED importVars
    /\ IF name = "jobs" THEN TRUE ELSE UNCHANGED gpVars
    /\ IF name = "conversation" THEN TRUE ELSE UNCHANGED chatVars
    /\ IF name = "activity" THEN TRUE ELSE UNCHANGED logVars

SurfacesNext ==
    \/ Only("session") /\ Next
    \/ Only("views") /\ Views!BrowsingNext
    \/ Only("panel") /\ Panel!PanelNext
    \/ Only("publishing") /\ Publishing!PublicationNext
    \/ Only("explore") /\ Explore!RecipeNext
    \/ Only("local") /\ Local!LocalNext
    \/ Only("imports") /\ Imports!ImportNext
    \/ Only("jobs") /\ Jobs!GpNext
    \/ Only("conversation") /\ Conversation!ChatNext
    \/ Only("activity") /\ Activity!LogNext

SurfacesSpec == SurfacesInit /\ [][SurfacesNext]_surfaceVars

-----------------------------------------------------------------------------
(* The properties, which the modules state and explain.                    *)

\* The state of the component that moves has its type.
SurfacesTypeOK ==
    /\ component = "session" => TypeOK
    /\ component = "views" => Views!BrowsingTypeOK
    /\ component = "panel" => Panel!PanelTypeOK
    /\ component = "publishing" => Publishing!PublicationTypeOK
    /\ component = "explore" => Explore!RecipeTypeOK
    /\ component = "local" => Local!LocalTypeOK
    /\ component = "imports" => Imports!ImportTypeOK
    /\ component = "jobs" => Jobs!GpTypeOK
    /\ component = "conversation" => Conversation!ChatTypeOK
    /\ component = "activity" => Activity!LogTypeOK

\* What the screen says agrees with what the component does: no host
\* principal's catalog is another's, "Loading" is waiting for an answer, one confirmation is
\* out at a time, and the recipe's form shows the selected source's fields.
\* The invariant includes the types.
ScreensAgree ==
    /\ SurfacesTypeOK
    /\ CatalogIsOwn /\ Views!HomeIsWaiting /\ Panel!OneConfirmation
    /\ Explore!MetadataIsOfSelection

\* What the studio holds of the server is whole and its own: a listing without an error has every
\* layer that stayed, an authoring session's body is the server's at its generation, an item
\* publishes versions of its own, and a version answered has the view it was asked for
\* (listCatalog, gp-authoring-session.ts, the lifecycle panel's rereads, #saveCurrentView).
HeldAsServed ==
    /\ Views!ListingIsWhole /\ Jobs!SessionBodyIsServers
    /\ Panel!PublishedIsOwn /\ Publishing!VersionHasView

\* One review leads to one publication, and one submission of a recipe makes one draft, however
\* often either is tried (requestPublish, recipe-submission).
SubmittedOnce == Publishing!OneSubmission /\ Explore!OneDraftPerSubmission

\* Work the server may have taken is retained until its end is known: the command of a local run
\* without a receipt, the intent of an upload (custom-process-workspace, artifact-import).
RemoteWorkIsRetained == Local!UnrecordedRunIsRetained /\ Imports!OpenUploadIsRetained

\* The chat's records follow its turns (studio-chat-element.ts, #runAssistantTurn).
RecordsFollowTurns == Conversation!RecordsFollowTurns

\* A created draft opens over the map its request was made on (#requireAttachable).
OnlyOverTheOriginalMap == Explore!OnlyOverTheOriginalMap

\* What is late changes only its own: a report about a replaced lease ends no other, a listing is
\* shown to the principal it is of, attaching a process takes no unsaved text away, a detached
\* session says nothing, and an imported entry takes no number in use (onExpired, #fetchOnce,
\* attachWorkspaceTask, #afterDetach, activity-log.ts).
LateStaysOut ==
    /\ OnlyOwnLeaseEnds /\ ListingsShownAreOwn /\ Local!AttachKeepsText
    /\ Conversation!DetachedIsSilent /\ Activity!NumbersNeverCollide
=============================================================================
