--------------------------- MODULE LifecyclePanel ---------------------------
(***************************************************************************)
(* The lifecycle panel of one content item                                 *)
(* (elements/studio-lifecycle-panel-element.ts) over the server's drafts,  *)
(* versions and published pointers (mock-server.mjs): a draft is validated *)
(* and saved as a version, a version is reopened as a draft, and a human   *)
(* who types the package key publishes a version or rolls back to it.      *)
(*                                                                         *)
(* Every operation awaits several answers; meanwhile the panel may be      *)
(* given another item, and only its loads carry a token.                   *)
(***************************************************************************)
EXTENDS Naturals, Sequences, FiniteSetsExt

CONSTANTS
    Items,       \* content items; an item also stands for its package key
    Absent,      \* no item, draft, version, dialog
    MaxDrafts,   \* drafts on the server
    MaxVersions, \* versions on the server
    MaxActs      \* what the human, the agent and failures may do

VARIABLES
    serverDrafts,   \* server: the item of each draft
    serverVersions, \* server: the item of each version
    pointers,       \* server: current and published version of each item
    proposals,      \* server: publications the agent proposed, awaiting approval
    selected,       \* attributes item-id and draft-id
    panel,          \* #itemId, #draft, #versions, #loadToken, #draftLoading
    compared,       \* #compareLeftId, #compareRightId, #comparison
    dialog,         \* #pendingConfirm, #confirmText, #confirmSubmitting
    tasks,          \* operations of the panel awaiting an answer
    panelSpent      \* how much of MaxActs is spent

serverVars == <<serverDrafts, serverVersions, pointers, proposals>>
panelVars == <<serverVars, selected, panel, compared, dialog, tasks, panelSpent>>

SpendAct == panelSpent < MaxActs /\ panelSpent' = panelSpent + 1

-----------------------------------------------------------------------------
(* Data *)

Drafts == 1..MaxDrafts
Versions == 1..MaxVersions

NoDialog == [kind |-> Absent, version |-> Absent, typed |-> Absent, submitting |-> FALSE]
NothingCompared == [left |-> Absent, right |-> Absent, result |-> FALSE]

\* versionsForItem
VersionsOf(item) ==
    SelectSeq([v \in 1..Len(serverVersions) |-> v], LAMBDA v : serverVersions[v] = item)

\* Mutated: any version that exists is found.
OwnsAny(item, v) == v \in DOMAIN serverVersions

\* requireVersionOr404: a version under another item is not found.
Owns(item, v) == serverVersions[v] = item

\* The key the dialog asks for: the draft's, else that of a version shown.
ConfirmPackageKey ==
    IF panel.draft # Absent THEN serverDrafts[panel.draft]
    ELSE IF \E v \in Range(panel.versions) : serverVersions[v] = panel.item THEN panel.item
    ELSE Absent

\* An operation of the panel: what it began as, the request it waits for.
Task(origin, step, args) ==
    [origin |-> origin, step |-> step, args |-> args, token |-> panel.token, n |-> panelSpent']

Begin(origin, step, args) == tasks' = tasks \union {Task(origin, step, args)}

Current(t) == t.token = panel.token

-----------------------------------------------------------------------------
(* Selecting an item *)

ListVersions(t, item) == [t EXCEPT !.step = "versions", !.args = item]

\* #load with the attributes as they are: a draft is fetched first; without
\* one the panel is emptied and the versions are listed.
Select(item, draft) ==
    /\ selected' = [item |-> item, draft |-> draft]
    /\ dialog' = [dialog EXCEPT !.kind = Absent, !.version = Absent]
    /\ compared' = [compared EXCEPT !.result = FALSE]

Load(item, draft, others) ==
    LET token == panel.token + 1
        t == [Task("load", "draft", draft) EXCEPT !.token = token]
    IN  IF draft # Absent
        THEN /\ panel' = [panel EXCEPT !.token = token, !.loading = TRUE]
             /\ tasks' = others \union {t}
        ELSE /\ panel' = [panel EXCEPT !.token = token, !.draft = Absent, !.item = item,
                                       !.versions = IF item = Absent THEN <<>> ELSE @]
             /\ tasks' = IF item = Absent THEN others
                         ELSE others \union {ListVersions(t, item)}

\* The content browser opens an item or a draft: itemId, then draftId; the load
\* of the first assignment is superseded by the second's.
OpenItem(item, draft) ==
    /\ SpendAct
    /\ draft # Absent => serverDrafts[draft] = item
    /\ Select(item, draft)
    /\ Load(item, draft, tasks)
    /\ UNCHANGED serverVars

\* Another AuthSession or client reloads what is selected.
ReplaceClient ==
    /\ SpendAct
    /\ Load(selected.item, selected.draft, tasks)
    /\ UNCHANGED <<serverVars, selected, compared, dialog>>

-----------------------------------------------------------------------------
(* Buttons, and what the panel shows of them *)

DraftShown == panel.draft # Absent /\ ~panel.loading
Listed(v) == v \in Range(panel.versions)

\* #renderConfirmDialog: the button is enabled once the key matches.
ConfirmEnabled ==
    /\ dialog.kind # Absent /\ panel.item # Absent
    /\ ConfirmPackageKey # Absent /\ dialog.typed = ConfirmPackageKey

ValidateDraft ==
    /\ SpendAct
    /\ DraftShown
    /\ Begin("validate", "validate", panel.draft)
    /\ UNCHANGED <<serverVars, selected, panel, compared, dialog>>

SaveAsVersion ==
    /\ SpendAct
    /\ DraftShown
    /\ Begin("save", "save", panel.draft)
    /\ UNCHANGED <<serverVars, selected, panel, compared, dialog>>

ReopenVersion(v) ==
    /\ SpendAct
    /\ Listed(v) /\ panel.item # Absent
    /\ Begin("reopen", "reopen", [item |-> panel.item, version |-> v])
    /\ UNCHANGED <<serverVars, selected, panel, compared, dialog>>

SetCompare(side, v) ==
    /\ SpendAct
    /\ Listed(v)
    /\ compared' = [compared EXCEPT ![side] = v, !.result = FALSE]
    /\ UNCHANGED <<serverVars, selected, panel, dialog, tasks>>

CompareSelected ==
    /\ SpendAct
    /\ panel.item # Absent /\ compared.left # Absent /\ compared.right # Absent
    /\ compared.left # compared.right
    /\ Begin("compare", "compare", [item |-> panel.item, left |-> compared.left,
                                    right |-> compared.right])
    /\ UNCHANGED <<serverVars, selected, panel, compared, dialog>>

\* #openPublishConfirm, #openRollbackConfirm
OpenConfirm(kind, v) ==
    /\ SpendAct
    /\ Listed(v)
    /\ dialog' = [dialog EXCEPT !.kind = kind, !.version = v, !.typed = Absent]
    /\ UNCHANGED <<serverVars, selected, panel, compared, tasks>>

\* The human types the key the dialog asks for.
TypeKey ==
    /\ dialog.kind # Absent /\ ConfirmPackageKey # Absent
    /\ dialog.typed # ConfirmPackageKey
    /\ dialog' = [dialog EXCEPT !.typed = ConfirmPackageKey]
    /\ UNCHANGED <<serverVars, selected, panel, compared, tasks, panelSpent>>

CancelConfirm ==
    /\ SpendAct
    /\ dialog.kind # Absent
    /\ dialog' = [NoDialog EXCEPT !.submitting = dialog.submitting]
    /\ UNCHANGED <<serverVars, selected, panel, compared, tasks>>

\* Mutated: the button stays enabled while a confirmation is out.
SubmitAgain ==
    /\ SpendAct
    /\ ConfirmEnabled
    /\ dialog' = [dialog EXCEPT !.submitting = TRUE]
    /\ Begin("submit", dialog.kind, [item |-> panel.item, version |-> dialog.version,
                                     key |-> dialog.typed])
    /\ UNCHANGED <<serverVars, selected, panel, compared>>

\* #submitConfirm
SubmitConfirm ==
    /\ SpendAct
    /\ ConfirmEnabled /\ ~dialog.submitting
    /\ dialog' = [dialog EXCEPT !.submitting = TRUE]
    /\ Begin("submit", dialog.kind, [item |-> panel.item, version |-> dialog.version,
                                     key |-> dialog.typed])
    /\ UNCHANGED <<serverVars, selected, panel, compared>>

-----------------------------------------------------------------------------
(* What the server does with a request *)

\* saveStudioVersion
ServerSaves(d) ==
    /\ Len(serverVersions) < MaxVersions
    /\ serverVersions' = Append(serverVersions, serverDrafts[d])
    /\ pointers' = [pointers EXCEPT ![serverDrafts[d]].current = Len(serverVersions')]
    /\ UNCHANGED <<serverDrafts, proposals>>

\* reopenStudioVersion
ServerReopens(item, v) ==
    /\ Owns(item, v) /\ Len(serverDrafts) < MaxDrafts
    /\ serverDrafts' = Append(serverDrafts, item)
    /\ UNCHANGED <<serverVersions, pointers, proposals>>

\* publish-requests: an invalid version is rejected, a policy may ask for a
\* separate approval; else the published pointer moves.
ServerPublishes(item, v) ==
    /\ Owns(item, v)
    /\ \/ pointers' = [pointers EXCEPT ![item].published = v] /\ UNCHANGED proposals
       \/ proposals' = proposals \union {[item |-> item, version |-> v]} /\ UNCHANGED pointers
       \/ UNCHANGED <<pointers, proposals>>
    /\ UNCHANGED <<serverDrafts, serverVersions>>

\* rollback-requests, with the pointer the panel sends: both.
ServerRollsBack(item, v) ==
    /\ Owns(item, v)
    /\ pointers' = [pointers EXCEPT ![item] = [current |-> v, published |-> v]]
    /\ UNCHANGED <<serverDrafts, serverVersions, proposals>>

\* What a request may have done although its answer is lost.
ServerActs(t) ==
    \/ t.step = "save" /\ ServerSaves(t.args)
    \/ t.step = "reopen" /\ ServerReopens(t.args.item, t.args.version)
    \/ t.step = "publish" /\ ServerPublishes(t.args.item, t.args.version)
    \/ t.step = "rollback" /\ ServerRollsBack(t.args.item, t.args.version)

\* The agent's honua_studio_propose_publication, and the decision of an
\* approver other than the proposer.
ProposePublication(v) ==
    /\ SpendAct
    /\ v \in DOMAIN serverVersions
    /\ proposals' = proposals \union {[item |-> serverVersions[v], version |-> v]}
    /\ UNCHANGED <<serverDrafts, serverVersions, pointers, selected, panel, compared, dialog, tasks>>

Decide(p, approved) ==
    /\ p \in proposals
    /\ proposals' = proposals \ {p}
    /\ pointers' = IF approved THEN [pointers EXCEPT ![p.item].published = p.version] ELSE pointers
    /\ UNCHANGED <<serverDrafts, serverVersions, selected, panel, compared, dialog, tasks, panelSpent>>

-----------------------------------------------------------------------------
(* Answers.  Only loads and version lists look at their token. *)

Finished(t) == tasks' = tasks \ {t}
Follow(t, next) == tasks' = (tasks \ {t}) \union {next}

\* #submitConfirm: finally
Settle(t) ==
    dialog' = IF t.origin = "submit" THEN [dialog EXCEPT !.submitting = FALSE] ELSE dialog

\* The loaded draft, then its versions; a superseded load stops.
DraftArrives(t) ==
    /\ t.step = "draft"
    /\ IF Current(t)
       THEN /\ panel' = [panel EXCEPT !.draft = t.args, !.loading = FALSE, !.item =
                            IF selected.item # Absent THEN selected.item ELSE serverDrafts[t.args]]
            /\ Follow(t, ListVersions(t, panel'.item))
       ELSE UNCHANGED panel /\ Finished(t)
    /\ UNCHANGED <<serverVars, selected, compared, dialog>>

VersionsArrive(t) ==
    /\ t.step = "versions"
    /\ panel' = IF Current(t) THEN [panel EXCEPT !.versions = VersionsOf(t.args)] ELSE panel
    /\ Finished(t)
    /\ Settle(t)
    /\ UNCHANGED <<serverVars, selected, compared>>

\* After validateDraft, saveAsVersion or a confirmation: the draft the panel
\* holds now is read again; without one a confirmation goes on, others throw.
RereadOrList(t) ==
    CASE panel.draft # Absent ->
            Follow(t, [t EXCEPT !.step = "reread", !.args = panel.draft]) /\ UNCHANGED panel
      [] panel.draft = Absent /\ t.origin = "submit" /\ panel.item # Absent ->
            Follow(t, [ListVersions(t, panel.item) EXCEPT !.token = panel.token]) /\ UNCHANGED panel
      [] OTHER -> Finished(t) /\ UNCHANGED panel

Validated(t) ==
    /\ t.step = "validate"
    /\ RereadOrList(t)
    /\ UNCHANGED <<serverVars, selected, compared, dialog>>

Saved(t) ==
    /\ t.step = "save"
    /\ ServerSaves(t.args)
    /\ RereadOrList(t)
    /\ UNCHANGED <<selected, compared, dialog>>

\* The draft that was read again is shown, whatever was opened meanwhile.
DraftReread(t) ==
    /\ t.step = "reread"
    /\ panel' = [panel EXCEPT !.draft = t.args]
    /\ IF t.origin # "validate" /\ panel.item # Absent
       THEN Follow(t, [ListVersions(t, panel.item) EXCEPT !.token = panel.token]) /\ UNCHANGED dialog
       ELSE Finished(t) /\ Settle(t)
    /\ UNCHANGED <<serverVars, selected, compared>>

\* The reopened draft is selected beside whatever item is.
Reopened(t) ==
    /\ t.step = "reopen"
    /\ ServerReopens(t.args.item, t.args.version)
    /\ Select(selected.item, Len(serverDrafts'))
    /\ Load(selected.item, Len(serverDrafts'), tasks \ {t})

Compared(t) ==
    /\ t.step = "compare"
    /\ Owns(t.args.item, t.args.left) /\ Owns(t.args.item, t.args.right)
    /\ compared' = [compared EXCEPT !.result = TRUE]
    /\ Finished(t)
    /\ UNCHANGED <<serverVars, selected, panel, dialog>>

Confirmed(t) ==
    /\ \/ t.step = "publish" /\ ServerPublishes(t.args.item, t.args.version)
       \/ t.step = "rollback" /\ ServerRollsBack(t.args.item, t.args.version)
    /\ RereadOrList(t)
    /\ dialog' = [NoDialog EXCEPT !.submitting = panel.draft # Absent \/ panel.item # Absent]
    /\ UNCHANGED <<selected, compared>>

Answer(t) ==
    /\ t \in tasks
    /\ UNCHANGED panelSpent
    /\ \/ DraftArrives(t) \/ VersionsArrive(t) \/ Validated(t) \/ Saved(t)
       \/ DraftReread(t) \/ Reopened(t) \/ Compared(t) \/ Confirmed(t)

\* A request fails or its answer is lost after the server acted: the error is
\* shown; a load goes on to list the versions of the item it has.
RequestFails(t, acted) ==
    /\ SpendAct
    /\ t \in tasks
    /\ IF acted THEN ServerActs(t) ELSE UNCHANGED serverVars
    /\ IF t.step = "draft" /\ Current(t)
       THEN /\ panel' = [panel EXCEPT !.loading = FALSE,
                                      !.versions = IF panel.item = Absent THEN <<>> ELSE @]
            /\ IF panel.item = Absent THEN Finished(t) ELSE Follow(t, ListVersions(t, panel.item))
       ELSE UNCHANGED panel /\ Finished(t)
    /\ Settle(t)
    /\ UNCHANGED <<selected, compared>>

-----------------------------------------------------------------------------
PanelInit ==
    /\ serverDrafts = CHOOSE order \in Bijection(1..Cardinality(Items), Items) : TRUE
    /\ serverVersions = serverDrafts \o serverDrafts
    /\ pointers = [i \in Items |-> [current |-> Max(Range(VersionsOf(i))), published |-> Absent]]
    /\ proposals = {}
    /\ selected = [item |-> Absent, draft |-> Absent]
    /\ panel = [item |-> Absent, draft |-> Absent, versions |-> <<>>, token |-> 0,
                loading |-> FALSE]
    /\ compared = NothingCompared /\ dialog = NoDialog
    /\ tasks = {} /\ panelSpent = 0

Buttons ==
    \/ ValidateDraft \/ SaveAsVersion \/ CompareSelected
    \/ \E v \in Versions : ReopenVersion(v)
    \/ \E side \in {"left", "right"}, v \in Versions : SetCompare(side, v)
    \/ \E kind \in {"publish", "rollback"}, v \in Versions : OpenConfirm(kind, v)
    \/ TypeKey \/ CancelConfirm \/ SubmitConfirm

PanelNext ==
    \/ \E i \in Items \union {Absent}, d \in (1..Len(serverDrafts)) \union {Absent} : OpenItem(i, d)
    \/ ReplaceClient
    \/ Buttons
    \/ \E t \in tasks : Answer(t)
    \/ \E t \in tasks, acted \in BOOLEAN : RequestFails(t, acted)
    \/ \E v \in Versions : ProposePublication(v)
    \/ \E p \in proposals, approved \in BOOLEAN : Decide(p, approved)

PanelSpec == PanelInit /\ [][PanelNext]_panelVars

-----------------------------------------------------------------------------
PanelTypeOK ==
    /\ serverDrafts \in Seq(Items) /\ serverVersions \in Seq(Items)
    /\ pointers \in [Items -> [current : Versions, published : Versions \union {Absent}]]
    /\ panel.item \in Items \union {Absent} /\ panel.draft \in Drafts \union {Absent}
    /\ Range(panel.versions) \subseteq Versions
    /\ dialog \in [kind : {"publish", "rollback", Absent}, version : Versions \union {Absent},
                   typed : Items \union {Absent}, submitting : BOOLEAN]

\* What is published under an item is a version of it, although the panel may
\* still list the former item's versions when a confirmation is sent, and an
\* approval may come much later.
PublishedIsOwn ==
    \A i \in Items : pointers[i].published # Absent => serverVersions[pointers[i].published] = i

\* One confirmation is out at a time: while one is, neither cancelling nor
\* opening another item nor a new dialog lets the human send a second.
OneConfirmation ==
    Cardinality({t \in tasks : t.origin = "submit"}) <= 1

\* Publishing "requires ... TYPING the exact package key": a confirmation sent
\* for an item carries that item's key.
\* This does not hold: the item may change between typing and confirming, when
\* a load answers.
KeyNamesItem ==
    \A t \in tasks : t.step \in {"publish", "rollback"} => t.args.key = t.args.item

=============================================================================
