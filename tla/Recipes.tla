------------------------------- MODULE Recipes -------------------------------
(***************************************************************************)
(* "Start from a recipe": the picker (recipes/recipe-panel.ts), the source *)
(* choices it offers (app/recipe-source-choices.ts) and the submissions    *)
(* that create and attach a draft (app/recipe-controller.ts,               *)
(* recipes/recipe-submission.ts) beside a map that others switch and edit, *)
(* a catalog that is replaced, and a principal who may change.             *)
(*                                                                         *)
(* A source is told apart by its locator: its publisher may move it, and   *)
(* a listing remembers the locators it was answered with.                  *)
(***************************************************************************)
EXTENDS Naturals, Sequences

CONSTANTS
    Sources,         \* published sources
    None,
    MaxLocator,      \* locators a source may have had: a bound
    MaxSubmissions,  \* submission ids panels may take: a bound
    MaxMoves         \* what users, publishers and failures may do: a bound

VARIABLES
    rcEpoch,      \* RecipeController.#epoch
    lease,        \* WorkspaceAuthority.lease
    active,       \* WorkspaceDraftSession.identity: draft and generation
    located,      \* the publisher's current locator of each source, 0: gone
    catalog,      \* SourceCatalog.#catalog: the locator of each source
    choices,      \* RecipeSourceChoices: #choices, #previousChoices, #choicesAuthority
    panel,        \* RecipePanel, or None
    open,         \* the picker is visible
    discoveries,  \* list and describe requests of panels in flight
    entries,      \* RecipeController.#submissions, per submission id
    revoked,      \* #revokedSubmissionIds
    created,      \* server: the create commands carried out, in order
    nextId,       \* the next submission id
    moves         \* how much of MaxMoves is spent

recipeVars == <<rcEpoch, lease, active, located, catalog, choices, panel, open, discoveries,
                entries, revoked, created, nextId, moves>>

SubmissionIds == 1 .. MaxSubmissions

Spend == moves < MaxMoves /\ moves' = moves + 1

-----------------------------------------------------------------------------
(* Data *)

Locators == [Sources -> 0 .. MaxLocator]

Nothing == [s \in Sources |-> 0]

\* #choices is an object: it is compared by identity.
NoChoices == [id |-> 0, last |-> 0, listed |-> Nothing, previous |-> Nothing, authority |-> None]

NewPanel == [id |-> nextId, sequence |-> 0, offered |-> Nothing, selected |-> None,
             metadata |-> None, submitted |-> FALSE, busy |-> FALSE, accepted |-> FALSE]

Panels == [id : Nat, sequence : Nat, offered : Locators, selected : Sources \union {None},
           metadata : [source : Sources, locator : Nat] \union {None},
           submitted : BOOLEAN, busy : BOOLEAN, accepted : BOOLEAN]

Stages == {"prepare", "capabilities", "list", "read", "send", "attach", "observe", "idle"}

\* A resolution in progress: of which source, begun when, and the choices read.
Resolutions == [source : Sources, epoch : Nat, lease : Nat, was : Nat, choices : Nat]

NoEntry == [stage |-> "none", source |-> None, epoch |-> 0, original |-> None, allowed |-> FALSE,
            request |-> FALSE, sent |-> FALSE, draft |-> 0, tries |-> 0, resolution |-> None]

\* #rememberedChoice
Remembered(s) == IF choices.listed[s] # 0 THEN choices.listed[s] ELSE choices.previous[s]

\* #isStaleSelection
IsStale(s) ==
    /\ Remembered(s) # 0
    /\ ~(choices.listed[s] # 0 /\ catalog[s] # 0 /\ choices.authority = rcEpoch)

\* #selectableSource
Selectable(s) ==
    choices.listed[s] # 0 /\ catalog[s] = choices.listed[s] /\ choices.authority = rcEpoch

\* list, at its start: nothing is offered until it is answered.
Unlisted(c) == [c EXCEPT !.id = 0, !.listed = Nothing, !.authority = None]

\* list, answered: the same principal and lease.
Answerable(r) == r.epoch = rcEpoch /\ r.lease = lease

NewListing == choices.last + 1

Listed(c) ==
    [c EXCEPT !.id = NewListing, !.last = NewListing, !.listed = located, !.authority = rcEpoch]

\* clear
Cleared == [NoChoices EXCEPT !.last = choices.last]

\* resolve, at its start, for someone: what it does next and with which choices.
Resolution(s) == [source |-> s, epoch |-> rcEpoch, lease |-> lease, was |-> Remembered(s),
                  choices |-> choices.id]

-----------------------------------------------------------------------------
(* The picker *)

\* cancelDiscovery
Cancelled(p) == [p EXCEPT !.sequence = @ + 1]

\* Mutated: what was asked for before the last cancellation is still taken.
StillWanted(d) == panel # None

\* The sequence and the abort signal: only the last request counts.
Wanted(d) == panel # None /\ d.panel = panel.id /\ d.sequence = panel.sequence

Discovery(p, kind, resolution) ==
    [panel |-> p.id, sequence |-> p.sequence, kind |-> kind, resolution |-> resolution]

Lists(p) ==
    /\ panel' = p
    /\ choices' = Unlisted(choices)
    /\ discoveries' = {d \in discoveries : Wanted(d)} \union
         {Discovery(p, "offer", [source |-> None, epoch |-> rcEpoch, lease |-> lease, was |-> 0,
                                 choices |-> 0])}

\* open: a new panel lists its sources; a hidden one resumes, and lists again
\* if its discovery was cancelled before anything was chosen.
OpenPicker ==
    /\ Spend
    /\ ~open
    /\ nextId \in SubmissionIds \/ panel # None
    /\ open' = TRUE
    /\ nextId' = IF panel = None THEN nextId + 1 ELSE nextId
    /\ LET p == IF panel = None THEN NewPanel ELSE panel
       IN  IF ~p.submitted /\ p.metadata = None
              /\ ~\E d \in discoveries : Wanted(d)
           THEN Lists(Cancelled(p))
           ELSE panel' = p /\ UNCHANGED <<choices, discoveries>>
    /\ UNCHANGED <<rcEpoch, lease, active, located, catalog, entries, revoked, created>>

\* What close does to submissions that are under way.
Disallowed(e) ==
    [i \in SubmissionIds |->
        IF e[i].stage \notin {"none", "idle"} THEN [e[i] EXCEPT !.allowed = FALSE] ELSE e[i]]

ClosePicker ==
    /\ Spend
    /\ open
    /\ open' = FALSE
    /\ panel' = IF panel = None THEN None ELSE Cancelled(panel)
    /\ entries' = Disallowed(entries)
    /\ UNCHANGED <<rcEpoch, lease, active, located, catalog, choices, discoveries, revoked,
                   created, nextId>>

\* startAnother: dispose, then a new panel.
StartAnother ==
    /\ Spend
    /\ panel # None /\ panel.accepted
    /\ nextId \in SubmissionIds
    /\ nextId' = nextId + 1
    /\ panel' = Cancelled(NewPanel)
    /\ choices' = Unlisted(Cleared)
    /\ discoveries' = {Discovery(panel', "offer", [source |-> None, epoch |-> rcEpoch,
                                                  lease |-> lease, was |-> 0, choices |-> 0])}
    /\ entries' = Disallowed(entries)
    /\ open' = TRUE
    /\ UNCHANGED <<rcEpoch, lease, active, located, catalog, revoked, created>>

\* #list, answered for the panel: the sources of the listing are offered. A
\* host does not own the catalog here, so the listing becomes the catalog.
Offered(d) ==
    /\ d \in discoveries /\ d.kind = "offer"
    /\ discoveries' = discoveries \ {d}
    /\ IF Wanted(d) /\ Answerable(d.resolution)
       THEN /\ catalog' = located
            /\ choices' = Listed(choices)
            /\ panel' = [panel EXCEPT !.offered = located, !.selected = None]
       ELSE UNCHANGED <<catalog, choices, panel>>
    /\ UNCHANGED <<rcEpoch, lease, active, located, open, entries, revoked, created, nextId, moves>>

\* #describe: another source is selected; what was verified before goes.
Select(s) ==
    /\ Spend
    /\ open /\ panel # None /\ ~panel.submitted
    /\ panel.offered[s] # 0
    /\ LET p == [Cancelled(panel) EXCEPT !.selected = s, !.metadata = None]
           kind == IF IsStale(s) THEN "list" ELSE "read"
       IN  /\ panel' = p
           /\ IF kind = "list" \/ Selectable(s)
              THEN discoveries' = discoveries \union {Discovery(p, kind, Resolution(s))}
              ELSE UNCHANGED discoveries
           /\ choices' = IF kind = "list" THEN Unlisted(choices) ELSE choices
    /\ UNCHANGED <<rcEpoch, lease, active, located, catalog, open, entries, revoked, created, nextId>>

\* #revalidateSelection: the re-listed source must be the one remembered.
Relists(r) ==
    IF ~Answerable(r)
    THEN UNCHANGED <<catalog, choices>>
    ELSE /\ catalog' = located
         /\ choices' = IF located[r.source] = r.was THEN Listed(choices) ELSE Cleared

Relisted(d) ==
    /\ d \in discoveries /\ d.kind = "list"
    /\ IF Wanted(d)
       THEN Relists(d.resolution)
       ELSE UNCHANGED <<catalog, choices>>
    /\ discoveries' = (discoveries \ {d}) \union
         IF Wanted(d) /\ Answerable(d.resolution) /\ located[d.resolution.source] = d.resolution.was
         THEN {[d EXCEPT !.kind = "read", !.resolution.choices = NewListing]}
         ELSE {}
    /\ UNCHANGED <<rcEpoch, lease, active, located, panel, open, entries, revoked, created, nextId,
                   moves>>

\* The schema, the bounds and the sample rows were read under the same choices.
SameChoices(r) == r.epoch = rcEpoch /\ r.choices = choices.id

Described(d) ==
    /\ d \in discoveries /\ d.kind = "read"
    /\ discoveries' = discoveries \ {d}
    /\ panel' = IF Wanted(d) /\ SameChoices(d.resolution) /\ d.resolution.choices # 0
                THEN [panel EXCEPT !.metadata = [source |-> d.resolution.source,
                                                 locator |-> choices.listed[d.resolution.source]]]
                ELSE panel
    /\ UNCHANGED <<rcEpoch, lease, active, located, catalog, choices, open, entries, revoked,
                   created, nextId, moves>>

-----------------------------------------------------------------------------
(* A submission *)

At(i, stage) == entries[i].stage = stage
To(i, stage) == entries' = [entries EXCEPT ![i].stage = stage]

\* RecipePanel.#create after a rejection: nothing was sent, so the inputs may
\* change under a new id; otherwise the retry keeps both.
Rejected(i) ==
    /\ entries' = [entries EXCEPT ![i].stage = "idle", ![i].resolution = None]
    /\ IF panel # None /\ panel.id = i
       THEN IF entries[i].sent \/ nextId \notin SubmissionIds
            THEN panel' = [panel EXCEPT !.busy = FALSE] /\ UNCHANGED nextId
            ELSE /\ panel' = [panel EXCEPT !.busy = FALSE, !.submitted = FALSE, !.id = nextId]
                 /\ nextId' = nextId + 1
       ELSE UNCHANGED <<panel, nextId>>

Fulfilled(i) ==
    /\ entries' = [entries EXCEPT ![i].stage = "idle"]
    /\ panel' = IF panel # None /\ panel.id = i
                THEN [panel EXCEPT !.busy = FALSE, !.accepted = TRUE]
                ELSE panel

\* #create of the panel and createDraft: a first submission, or its retry
\* with the same inputs.
Create ==
    /\ Spend
    /\ open /\ panel # None /\ panel.metadata # None /\ ~panel.busy /\ ~panel.accepted
    /\ panel' = [panel EXCEPT !.submitted = TRUE, !.busy = TRUE]
    /\ panel.id \notin revoked
    /\ entries' = [entries EXCEPT ![panel.id] =
         IF @.stage = "none"
         THEN [NoEntry EXCEPT !.stage = "prepare", !.source = panel.metadata.source,
                              !.epoch = rcEpoch, !.original = active, !.allowed = TRUE]
         ELSE [@ EXCEPT !.stage = "prepare", !.allowed = TRUE]]
    /\ UNCHANGED <<rcEpoch, lease, active, located, catalog, choices, open, discoveries, revoked,
                   created, nextId>>

\* prepareWorkspaceTurn is over: the first time the request is built, for
\* which the active map is captured; a retry sends the one built before.
Prepared(i) ==
    /\ At(i, "prepare")
    /\ IF entries[i].epoch # rcEpoch \/ (entries[i].request /\ ~entries[i].allowed
                                         /\ ~entries[i].sent)
       THEN Rejected(i)
       ELSE /\ entries' = [entries EXCEPT ![i].stage = IF @ = "prepare" /\ ~entries[i].request
                                                      THEN "capabilities" ELSE "send",
                                         ![i].original = IF entries[i].request THEN @ ELSE active]
            /\ UNCHANGED <<panel, nextId>>
    /\ UNCHANGED <<rcEpoch, lease, active, located, catalog, choices, open, discoveries, revoked,
                   created, moves>>

\* #buildRequest resolves the source again: creation rechecks its access.
Capable(i) ==
    LET s == entries[i].source IN
    /\ At(i, "capabilities")
    /\ IF ~entries[i].allowed \/ (~IsStale(s) /\ ~Selectable(s))
       THEN Rejected(i) /\ UNCHANGED choices
       ELSE /\ entries' = [entries EXCEPT ![i].stage = IF IsStale(s) THEN "list" ELSE "read",
                                         ![i].resolution = Resolution(s)]
            /\ choices' = IF IsStale(s) THEN Unlisted(choices) ELSE choices
            /\ UNCHANGED <<panel, nextId>>
    /\ UNCHANGED <<rcEpoch, lease, active, located, catalog, open, discoveries, revoked, created,
                   moves>>

Rechecked(i) ==
    LET r == entries[i].resolution IN
    /\ At(i, "list")
    /\ IF ~entries[i].allowed
       THEN Rejected(i) /\ UNCHANGED <<catalog, choices>>
       ELSE /\ Relists(r)
            /\ IF Answerable(r) /\ located[r.source] = r.was
               THEN /\ entries' = [entries EXCEPT ![i].stage = "read",
                                                 ![i].resolution.choices = NewListing]
                    /\ UNCHANGED <<panel, nextId>>
               ELSE Rejected(i)
    /\ UNCHANGED <<rcEpoch, lease, active, located, open, discoveries, revoked, created, moves>>

\* The request is compiled and sent, unless the picker was closed.
Built(i) ==
    LET e == entries[i] IN
    /\ At(i, "read")
    /\ IF SameChoices(e.resolution) /\ e.resolution.choices # 0 /\ e.allowed /\ e.epoch = rcEpoch
       THEN /\ entries' = [entries EXCEPT ![i].stage = "send", ![i].request = TRUE,
                                         ![i].resolution = None]
            /\ UNCHANGED <<panel, nextId>>
       ELSE Rejected(i)
    /\ UNCHANGED <<rcEpoch, lease, active, located, catalog, choices, open, discoveries, revoked,
                   created, moves>>

\* Mutated: every attempt has a command id of its own.
CommandOfAttempt(i) == <<i, entries[i].tries>>

\* RecipeSubmission.commandId
CommandId(i) == <<i, 0>>

\* POST /package-drafts with an Idempotency-Key: the draft of a command is
\* created once; a repeated command answers it again.
Creation(i) ==
    IF \E k \in DOMAIN created : created[k] = CommandId(i)
    THEN UNCHANGED created
    ELSE created' = Append(created, CommandId(i))

DraftOf(i) == CHOOSE k \in DOMAIN created' : created'[k] = CommandId(i)

\* The answer names the draft; a submission that knows its draft asks no more.
\* The draft is attached only under the same principal, with the picker still
\* open, over the map and the generation captured first.
MayAttach(e) ==
    /\ e.epoch = rcEpoch /\ e.allowed
    /\ active = e.original

Created(i) ==
    /\ At(i, "send")
    /\ IF entries[i].draft # 0 THEN UNCHANGED created ELSE Creation(i)
    /\ LET d == IF entries[i].draft # 0 THEN entries[i].draft ELSE DraftOf(i)
           e == [entries[i] EXCEPT !.draft = d, !.sent = TRUE, !.tries = @ + 1]
       IN  IF e.epoch = rcEpoch /\ e.allowed /\ active.draft = d
           THEN /\ entries' = [entries EXCEPT ![i] = [e EXCEPT !.stage = "idle"]]
                /\ panel' = IF panel # None /\ panel.id = i
                            THEN [panel EXCEPT !.busy = FALSE, !.accepted = TRUE] ELSE panel
           ELSE /\ entries' = [entries EXCEPT ![i] =
                      [e EXCEPT !.stage = IF MayAttach(e) THEN "attach" ELSE "idle"]]
                /\ panel' = IF ~MayAttach(e) /\ panel # None /\ panel.id = i
                            THEN [panel EXCEPT !.busy = FALSE] ELSE panel
    /\ UNCHANGED <<rcEpoch, lease, active, located, catalog, choices, open, discoveries, revoked,
                   nextId, moves>>

\* The creation fails, or its answer is lost and the draft may exist.
CreationLost(i) ==
    /\ Spend
    /\ At(i, "send") /\ entries[i].draft = 0
    /\ \/ Creation(i)
       \/ UNCHANGED created
    /\ entries' = [entries EXCEPT ![i].stage = "idle", ![i].sent = TRUE, ![i].tries = @ + 1]
    /\ panel' = IF panel # None /\ panel.id = i THEN [panel EXCEPT !.busy = FALSE] ELSE panel
    /\ UNCHANGED <<rcEpoch, lease, active, located, catalog, choices, open, discoveries, revoked,
                   nextId>>

\* drafts.attach: asked when its turn in the queue comes.
AttachBegins(i) ==
    /\ At(i, "attach")
    /\ IF MayAttach(entries[i]) THEN To(i, "observe") /\ UNCHANGED <<panel, nextId>> ELSE Rejected(i)
    /\ UNCHANGED <<rcEpoch, lease, active, located, catalog, choices, open, discoveries, revoked,
                   created, moves>>

\* Mutated: only asked before the draft is read.
AttachedUnasked(i) ==
    /\ At(i, "observe")
    /\ active' = [draft |-> entries[i].draft, generation |-> 1]
    /\ Fulfilled(i) /\ UNCHANGED nextId
    /\ UNCHANGED <<rcEpoch, lease, located, catalog, choices, open, discoveries, revoked, created,
                   moves>>

\* and again when the draft has been read.
Attached(i) ==
    /\ At(i, "observe")
    /\ IF MayAttach(entries[i])
       THEN /\ active' = [draft |-> entries[i].draft, generation |-> 1]
            /\ Fulfilled(i) /\ UNCHANGED nextId
       ELSE Rejected(i) /\ UNCHANGED active
    /\ UNCHANGED <<rcEpoch, lease, located, catalog, choices, open, discoveries, revoked, created,
                   moves>>

-----------------------------------------------------------------------------
(* What happens beside the picker *)

\* Another map is attached: the picker is disposed (beforeMapSwitch).
SwitchMap ==
    /\ Spend
    /\ active' = [draft |-> None, generation |-> active.generation + 1]
    /\ panel' = None /\ open' = FALSE
    /\ choices' = Cleared
    /\ discoveries' = {}
    /\ entries' = Disallowed(entries)
    /\ UNCHANGED <<rcEpoch, lease, located, catalog, revoked, created, nextId>>

\* The active map is edited.
EditMap ==
    /\ Spend
    /\ active' = [active EXCEPT !.generation = @ + 1]
    /\ UNCHANGED <<rcEpoch, lease, located, catalog, choices, panel, open, discoveries, entries,
                   revoked, created, nextId>>

\* A source is published elsewhere, or taken away.
Republish(s) ==
    /\ Spend
    /\ \E l \in 0 .. MaxLocator : l # located[s] /\ located' = [located EXCEPT ![s] = l]
    /\ UNCHANGED <<rcEpoch, lease, active, catalog, choices, panel, open, discoveries, entries,
                   revoked, created, nextId>>

\* The host replaces the catalog: rotate keeps the former choices to compare with.
ReplaceCatalog ==
    /\ Spend
    /\ catalog' = located
    /\ choices' = [Unlisted(choices) EXCEPT !.previous =
                      IF choices.id # 0 THEN choices.listed ELSE choices.previous]
    /\ UNCHANGED <<rcEpoch, lease, active, located, panel, open, discoveries, entries, revoked,
                   created, nextId>>

\* A lease of the same principal: invalidate.
RenewLease ==
    /\ Spend
    /\ lease' = lease + 1
    /\ choices' = [choices EXCEPT !.authority = None]
    /\ UNCHANGED <<rcEpoch, active, located, catalog, panel, open, discoveries, entries, revoked,
                   created, nextId>>

\* resetAuthority: what was submitted can never be retried.
ResetAuthority ==
    /\ Spend
    /\ rcEpoch' = rcEpoch + 1
    /\ panel' = None /\ open' = FALSE
    /\ choices' = Cleared
    /\ discoveries' = {}
    /\ revoked' = revoked \union {i \in SubmissionIds : entries[i].stage # "none"}
    /\ entries' = Disallowed(entries)
    /\ UNCHANGED <<lease, active, located, catalog, created, nextId>>

-----------------------------------------------------------------------------
RecipeInit ==
    /\ rcEpoch = 0 /\ lease = 0
    /\ active = [draft |-> None, generation |-> 1]
    /\ located = [s \in Sources |-> 1] /\ catalog = Nothing
    /\ choices = NoChoices
    /\ panel = None /\ open = FALSE /\ discoveries = {}
    /\ entries = [i \in SubmissionIds |-> NoEntry]
    /\ revoked = {} /\ created = <<>> /\ nextId = 1 /\ moves = 0

User ==
    \/ OpenPicker \/ ClosePicker \/ StartAnother \/ Create
    \/ \E s \in Sources : Select(s)

Answers ==
    \/ \E d \in discoveries : Offered(d) \/ Relisted(d) \/ Described(d)
    \/ \E i \in SubmissionIds :
          \/ Prepared(i) \/ Capable(i) \/ Rechecked(i) \/ Built(i)
          \/ Created(i) \/ CreationLost(i) \/ AttachBegins(i) \/ Attached(i)

Around ==
    \/ SwitchMap \/ EditMap \/ ReplaceCatalog \/ RenewLease \/ ResetAuthority
    \/ \E s \in Sources : Republish(s)

RecipeNext == User \/ Answers \/ Around

RecipeSpec == RecipeInit /\ [][RecipeNext]_recipeVars

-----------------------------------------------------------------------------
(* Properties *)

Entry == [stage : Stages \union {"none"}, source : Sources \union {None}, epoch : Nat,
          original : [draft : Nat \union {None}, generation : Nat] \union {None},
          allowed : BOOLEAN, request : BOOLEAN, sent : BOOLEAN, draft : Nat, tries : Nat,
          resolution : Resolutions \union {None}]

RecipeTypeOK ==
    /\ rcEpoch \in Nat /\ lease \in Nat /\ moves \in 0 .. MaxMoves
    /\ active \in [draft : Nat \union {None}, generation : Nat]
    /\ located \in Locators /\ catalog \in Locators
    /\ choices \in [id : Nat, last : Nat, listed : Locators, previous : Locators,
                     authority : Nat \union {None}]
    /\ panel \in Panels \union {None} /\ open \in BOOLEAN
    /\ entries \in [SubmissionIds -> Entry]
    /\ revoked \subseteq SubmissionIds
    /\ nextId \in 1 .. MaxSubmissions + 1

\* A submission creates one draft at the server, however often it is retried
\* and whichever answers are lost (RecipeSubmission keeps its command id).
OneDraftPerSubmission ==
    \A j, k \in DOMAIN created : created[j][1] = created[k][1] => j = k

\* What the form shows as verified, and may be submitted, is the source that
\* is selected: the answer for an earlier choice never lands on a later one
\* (recipe-panel.ts: #sequence).
MetadataIsOfSelection ==
    panel # None /\ panel.metadata # None => panel.metadata.source = panel.selected

\* A created draft replaces the active map only if nobody switched or edited
\* it, closed the picker or signed out since the request was built
\* (recipe-controller.ts: #requireAttachable, asked before and after the read).
OnlyOverTheOriginalMap ==
    [][\A i \in SubmissionIds :
         At(i, "observe") /\ active'.draft = entries[i].draft /\ active' # active
           => /\ active = entries[i].original
              /\ open /\ rcEpoch = entries[i].epoch]_recipeVars

\* What is verified is at the locator the form offered it with: a choice from
\* an earlier listing is compared with a fresh one.
\* This does not hold: the publisher may have moved the source meanwhile.
ResolvedAsOffered ==
    panel # None /\ panel.metadata # None =>
        panel.metadata.locator = panel.offered[panel.metadata.source]
=============================================================================
