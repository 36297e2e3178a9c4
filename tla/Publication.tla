----------------------------- MODULE Publication -----------------------------
(***************************************************************************)
(* Saved versions of the active draft and their human-gated publication:   *)
(* app/workspace-publication.ts on the draft queue of                      *)
(* app/workspace-draft-session.ts, the saving of the current view          *)
(* (app/studio-workspace.ts), and the store of versions, publish requests  *)
(* and proposals behind it (the repository's server double,                *)
(* mock-server.mjs, which also serves the agent's tools and a second       *)
(* principal's approval).                                                  *)
(*                                                                         *)
(* Every operation is a call that waits for the turn to be prepared, then  *)
(* for the queue, and then awaits the server several times; the session,   *)
(* the active draft and the pending edits change in between, and an answer *)
(* may be lost.                                                            *)
(***************************************************************************)
EXTENDS Naturals, Sequences, FiniteSets

CONSTANTS
    Calls,        \* names of the calls a behaviour may make
    Items,        \* content items, each with a first draft
    Inputs,       \* command ids with the settings a human confirms for them
    None,
    MaxVersions,  \* versions, drafts: the bounds of the server's store
    MaxDrafts,
    MaxTrouble    \* what else may happen: sessions, edits, other writers, losses

VARIABLES
    pubEpoch,     \* WorkspaceAuthority.epoch
    binding,      \* WorkspaceDraftSession.#binding: which object, on which draft
    editPending,  \* isEditPending(): a conflict, a busy history or a dirty form
    queue,        \* calls waiting for, or running in, the draft queue
    calls,        \* per call: what it is and how far
    submissions,  \* per review: the pinned submission
    drafts,       \* server: per draft its item and the last view written
    versions,     \* server: immutable versions in order
    current,      \* server: each item's current version
    published,    \* server: each item's published version
    requests,     \* server: publish requests carried out, in order
    proposals,    \* server: proposals of the agent
    trouble       \* how much of MaxTrouble is spent

pubVars == <<pubEpoch, binding, editPending, queue, calls, submissions, drafts, versions,
             current, published, requests, proposals, trouble>>

clientVars == <<pubEpoch, binding, editPending>>
serverVars == <<drafts, versions, current, published, requests, proposals>>

Spend == trouble < MaxTrouble /\ trouble' = trouble + 1

-----------------------------------------------------------------------------
(* Data *)

Operations == {"save", "review", "publish", "reopen", "attach"}

\* Where a call stands: its step is the await it is in.
Steps == {"idle", "prepare", "queued", "view", "viewed", "version", "draft", "check", "send",
          "observe", "joined", "done", "failed"}

NoCall == [op |-> "none", step |-> "idle", epoch |-> 0, binding |-> 0, draft |-> None,
           version |-> 0, review |-> None, input |-> None, behind |-> {}, result |-> 0,
           camera |-> FALSE]

Call ==
    [op : Operations \union {"none"}, step : Steps, epoch : Nat, binding : Nat,
     draft : Nat \union {None}, version : Nat, review : Calls \union {None},
     input : Inputs \union {None}, behind : SUBSET Calls, result : Nat, camera : BOOLEAN]

NoSubmission == [input |-> None, pending |-> None]

\* Whose view a draft holds: a call's, another writer's, or none yet.
Views == Calls \union {"none", "other"}

\* The current() of #withLifecycle: same principal, same binding, nothing pending.
IsCurrent(call) ==
    /\ call.epoch = pubEpoch
    /\ call.binding = binding.id
    /\ ~editPending

\* requireReview of publish: the session and the binding of the review.
ReviewStands(r) == calls[r].epoch = pubEpoch /\ calls[r].binding = binding.id

-----------------------------------------------------------------------------
(* How a call starts, waits and ends *)

To(c, step) == calls' = [calls EXCEPT ![c].step = step]

\* finally: the queue goes on if the call had its turn in it, and a publication is no longer
\* pending.
EndsWith(c, record) ==
    /\ calls' = [calls EXCEPT ![c] = record]
    /\ queue' = IF queue # <<>> /\ Head(queue) = c THEN Tail(queue) ELSE queue
    /\ submissions' = [r \in Calls |-> IF submissions[r].pending = c
                                      THEN [submissions[r] EXCEPT !.pending = None]
                                      ELSE submissions[r]]

Fails(c) == EndsWith(c, [NoCall EXCEPT !.step = "failed"])
Succeeds(c, result) == EndsWith(c, [calls[c] EXCEPT !.step = "done", !.result = result])

Asked(op) ==
    [NoCall EXCEPT !.op = op, !.step = "prepare", !.epoch = pubEpoch, !.binding = binding.id,
                   !.draft = binding.draft, !.behind = {queue[i] : i \in DOMAIN queue}]

\* saveVersion
AskSave(c) ==
    /\ calls[c] = NoCall
    /\ binding.draft # None
    /\ calls' = [calls EXCEPT ![c] = Asked("save")]
    /\ UNCHANGED <<clientVars, serverVars, queue, submissions, trouble>>

\* review, reopenVersion: a version the user picked from listVersions.
AskAbout(c, op, v) ==
    /\ calls[c] = NoCall
    /\ binding.draft # None
    /\ v \in DOMAIN versions
    /\ op \in {"review", "reopen"}
    /\ calls' = [calls EXCEPT ![c] = [Asked(op) EXCEPT !.version = v]]
    /\ UNCHANGED <<clientVars, serverVars, queue, submissions, trouble>>

\* Mutated: a retry may bring another command or other settings.
MayPinAny(r, input) == input # None

\* #pinSubmission: only the original command and settings.
MayPin(r, input) == submissions[r].input \in {None, input}

\* publish of a reviewed version: the submission is pinned before anything is
\* awaited, and a publication that is already under way is shared.
AskPublish(c, r, input) ==
    /\ calls[c] = NoCall
    /\ calls[r].op = "review" /\ calls[r].step = "done"
    /\ ReviewStands(r) /\ MayPin(r, input)
    /\ IF submissions[r].pending # None
       THEN /\ calls' = [calls EXCEPT ![c] = [NoCall EXCEPT !.op = "publish", !.step = "joined"]]
            /\ UNCHANGED submissions
       ELSE /\ calls' = [calls EXCEPT ![c] =
                [Asked("publish") EXCEPT !.review = r, !.input = input,
                                         !.version = calls[r].version]]
            /\ submissions' = [submissions EXCEPT ![r] = [input |-> input, pending |-> c]]
    /\ UNCHANGED <<clientVars, serverVars, queue, trouble>>

\* attach: queued at once.
AskAttach(c, d) ==
    /\ calls[c] = NoCall
    /\ d \in DOMAIN drafts /\ d # binding.draft
    /\ calls' = [calls EXCEPT ![c] = [Asked("attach") EXCEPT !.step = "queued", !.draft = d]]
    /\ queue' = Append(queue, c)
    /\ UNCHANGED <<clientVars, serverVars, submissions, trouble>>

\* prepareWorkspaceTurn: what was queued before has run; pending edits refuse.
Prepared(c) ==
    /\ calls[c].step = "prepare"
    /\ calls[c].behind \cap {queue[i] : i \in DOMAIN queue} = {}
    /\ IF editPending
       THEN Fails(c)
       ELSE /\ calls' = [calls EXCEPT ![c].step = "queued", ![c].behind = {}]
            /\ queue' = Append(queue, c)
            /\ UNCHANGED submissions
    /\ UNCHANGED <<clientVars, serverVars, trouble>>

FirstStep ==
    [save |-> "view", review |-> "draft", publish |-> "check", reopen |-> "draft",
     attach |-> "observe"]

\* The queue reaches the call: it starts only if it is still current. An
\* attachment asks for the principal and the form instead of the binding.
Begin(c) ==
    /\ queue # <<>> /\ Head(queue) = c /\ calls[c].step = "queued"
    /\ IF IF calls[c].op = "attach"
          THEN calls[c].epoch = pubEpoch /\ ~editPending
          ELSE IsCurrent(calls[c])
       THEN To(c, FirstStep[calls[c].op]) /\ UNCHANGED <<queue, submissions>>
       ELSE Fails(c)
    /\ UNCHANGED <<clientVars, serverVars, trouble>>

-----------------------------------------------------------------------------
(* saveVersion *)

\* #saveCurrentView: the map's camera is written as an edit of the draft. An
\* edit whose answer is lost may have landed; it leaves a conflict.
SaveView(c) ==
    /\ calls[c].op = "save" /\ calls[c].step = "view"
    /\ IF IsCurrent(calls[c])
       THEN /\ drafts' = [drafts EXCEPT ![calls[c].draft].view = c]
            /\ calls' = [calls EXCEPT ![c].step = "viewed", ![c].camera = TRUE]
            /\ UNCHANGED <<queue, submissions>>
       ELSE Fails(c) /\ UNCHANGED drafts
    /\ UNCHANGED <<clientVars, versions, current, published, requests, proposals, trouble>>

\* No map, or one that has no camera yet: nothing is written, and the version
\* will have the view the draft has.
KeepView(c) ==
    /\ calls[c].op = "save" /\ calls[c].step = "view"
    /\ IsCurrent(calls[c])
    /\ calls' = [calls EXCEPT ![c].step = "viewed", ![c].camera = FALSE]
    /\ UNCHANGED <<clientVars, queue, submissions, serverVars, trouble>>

LoseView(c) ==
    /\ Spend
    /\ calls[c].op = "save" /\ calls[c].step = "view"
    /\ IsCurrent(calls[c])
    /\ \E landed \in BOOLEAN :
         drafts' = IF landed THEN [drafts EXCEPT ![calls[c].draft].view = c] ELSE drafts
    /\ editPending' = TRUE
    /\ Fails(c)
    /\ UNCHANGED <<pubEpoch, binding, versions, current, published, requests, proposals>>

\* saveStudioVersion: a version of the draft as the server has it now.
StoreVersion(d) ==
    /\ versions' = Append(versions, drafts[d])
    /\ current' = [current EXCEPT ![drafts[d].item] = Len(versions) + 1]

\* saveAsVersion is sent; it carries no generation.
SendSave(c) ==
    /\ calls[c].op = "save" /\ calls[c].step = "viewed"
    /\ IF IsCurrent(calls[c]) /\ Len(versions) < MaxVersions
       THEN /\ StoreVersion(calls[c].draft)
            /\ calls' = [calls EXCEPT ![c].step = "version", ![c].version = Len(versions) + 1]
            /\ UNCHANGED <<queue, submissions>>
       ELSE Fails(c) /\ UNCHANGED <<versions, current>>
    /\ UNCHANGED <<clientVars, drafts, published, requests, proposals, trouble>>

Saved(c) ==
    /\ calls[c].op = "save" /\ calls[c].step = "version"
    /\ IF IsCurrent(calls[c]) THEN Succeeds(c, calls[c].version) ELSE Fails(c)
    /\ UNCHANGED <<clientVars, serverVars, trouble>>

-----------------------------------------------------------------------------
(* review, reopenVersion *)

\* getDraft answered; getVersion answers only for the item of that draft.
DraftRead(c) ==
    /\ calls[c].step = "draft"
    /\ IF IsCurrent(calls[c]) /\ versions[calls[c].version].item = drafts[calls[c].draft].item
       THEN To(c, "send") /\ UNCHANGED <<queue, submissions>>
       ELSE Fails(c)
    /\ UNCHANGED <<clientVars, serverVars, trouble>>

Reviewed(c) ==
    /\ calls[c].op = "review" /\ calls[c].step = "send"
    /\ IF IsCurrent(calls[c]) THEN Succeeds(c, calls[c].version) ELSE Fails(c)
    /\ UNCHANGED <<clientVars, serverVars, trouble>>

\* reopenStudioVersion: a new draft of the item, holding the version.
SendReopen(c) ==
    /\ calls[c].op = "reopen" /\ calls[c].step = "send"
    /\ IF IsCurrent(calls[c]) /\ Len(drafts) < MaxDrafts
       THEN /\ drafts' = Append(drafts, versions[calls[c].version])
            /\ calls' = [calls EXCEPT ![c].step = "observe", ![c].draft = Len(drafts) + 1,
                                      ![c].binding = binding.id]
            /\ UNCHANGED <<queue, submissions>>
       ELSE Fails(c) /\ UNCHANGED drafts
    /\ UNCHANGED <<clientVars, versions, current, published, requests, proposals, trouble>>

\* observe: reads the draft and makes it the active one; refused if the
\* principal changed or the form became dirty.
Observed(c) ==
    /\ calls[c].step = "observe"
    /\ IF calls[c].epoch = pubEpoch /\ ~editPending
       THEN /\ binding' = [id |-> binding.id + 1, draft |-> calls[c].draft]
            /\ Succeeds(c, calls[c].draft)
       ELSE Fails(c) /\ UNCHANGED binding
    /\ UNCHANGED <<pubEpoch, editPending, serverVars, trouble>>

-----------------------------------------------------------------------------
(* publish *)

\* getVersion answered: the version is the reviewed one (versions never
\* change), and the publish request is sent.
Checked(c) ==
    /\ calls[c].op = "publish" /\ calls[c].step = "check"
    /\ IF IsCurrent(calls[c]) /\ ReviewStands(calls[c].review)
       THEN To(c, "send") /\ UNCHANGED <<queue, submissions>>
       ELSE Fails(c)
    /\ UNCHANGED <<clientVars, serverVars, trouble>>

\* requestPublish: the server keeps a request per command id and moves the
\* published pointer.
CarryOut(c) ==
    LET v == calls[c].version
        request == [version |-> v, input |-> calls[c].input, review |-> calls[c].review]
    IN  IF \E i \in DOMAIN requests : requests[i].input = request.input
                                      /\ requests[i].version = v
        THEN UNCHANGED <<requests, published>>
        ELSE /\ requests' = Append(requests, request)
             /\ published' = [published EXCEPT ![versions[v].item] = v]

\* The request reaches the server, whatever the client has become meanwhile.
ServerPublishes(c) ==
    /\ calls[c].op = "publish" /\ calls[c].step = "send"
    /\ CarryOut(c)
    /\ To(c, "version")
    /\ UNCHANGED <<clientVars, queue, submissions, drafts, versions, current, proposals, trouble>>

\* The request or its answer is lost.
LosePublish(c) ==
    /\ Spend
    /\ calls[c].op = "publish" /\ calls[c].step = "send"
    /\ \/ CarryOut(c)
       \/ UNCHANGED <<requests, published>>
    /\ Fails(c)
    /\ UNCHANGED <<clientVars, drafts, versions, current, proposals>>

Published(c) ==
    /\ calls[c].op = "publish" /\ calls[c].step = "version"
    /\ IF IsCurrent(calls[c]) /\ ReviewStands(calls[c].review)
       THEN Succeeds(c, calls[c].version)
       ELSE Fails(c)
    /\ UNCHANGED <<clientVars, serverVars, trouble>>

-----------------------------------------------------------------------------
(* What happens beside the calls *)

\* #revokeAuthority: another principal; the draft is detached.
ChangePrincipal ==
    /\ Spend
    /\ pubEpoch' = pubEpoch + 1
    /\ binding' = [id |-> binding.id + 1, draft |-> None]
    /\ editPending' = FALSE
    /\ UNCHANGED <<queue, calls, submissions, serverVars>>

\* The user edits a form, or saves or discards what was edited.
TouchForm ==
    /\ Spend
    /\ editPending' = ~editPending
    /\ UNCHANGED <<pubEpoch, binding, queue, calls, submissions, serverVars>>

\* Another writer sets the view of a draft.
OtherWriter(d) ==
    /\ Spend
    /\ d \in DOMAIN drafts
    /\ drafts' = [drafts EXCEPT ![d].view = "other"]
    /\ UNCHANGED <<clientVars, queue, calls, submissions, versions, current, published, requests,
                   proposals>>

\* honua_studio_propose_publication: the agent proposes the current version;
\* an open proposal of it is answered again.
Propose(i) ==
    /\ Spend
    /\ current[i] # 0
    /\ ~\E k \in DOMAIN proposals : proposals[k].version = current[i] /\ proposals[k].open
    /\ proposals' = Append(proposals, [version |-> current[i], open |-> TRUE])
    /\ UNCHANGED <<clientVars, queue, calls, submissions, drafts, versions, current, published,
                   requests>>

\* A different principal approves or rejects it.
Decide(k, approves) ==
    /\ k \in DOMAIN proposals /\ proposals[k].open
    /\ proposals' = [proposals EXCEPT ![k].open = FALSE]
    /\ published' = LET v == proposals[k].version
                    IN  IF approves THEN [published EXCEPT ![versions[v].item] = v] ELSE published
    /\ UNCHANGED <<clientVars, queue, calls, submissions, drafts, versions, current, requests,
                   trouble>>

-----------------------------------------------------------------------------
PublicationInit ==
    \E first \in [1 .. Cardinality(Items) -> Items] :
        /\ \A i \in Items : \E d \in DOMAIN first : first[d] = i
        /\ drafts = [d \in DOMAIN first |-> [item |-> first[d], view |-> "none"]]
        /\ pubEpoch = 0
        /\ binding = [id |-> 1, draft |-> 1]
        /\ editPending = FALSE
        /\ queue = <<>>
        /\ calls = [c \in Calls |-> NoCall]
        /\ submissions = [c \in Calls |-> NoSubmission]
        /\ versions = <<[item |-> first[1], view |-> "none"]>>
        /\ current = [i \in Items |-> IF i = first[1] THEN 1 ELSE 0]
        /\ published = [i \in Items |-> 0]
        /\ requests = <<>> /\ proposals = <<>>
        /\ trouble = 0

\* Calls take their names in the order of CHOOSE, which says nothing of the code.
Ask(c) ==
    /\ calls[c] = NoCall /\ c = CHOOSE d \in Calls : calls[d] = NoCall
    /\ \/ AskSave(c)
       \/ \E op \in {"review", "reopen"}, v \in 1 .. MaxVersions : AskAbout(c, op, v)
       \/ \E r \in Calls, input \in Inputs : AskPublish(c, r, input)
       \/ \E d \in 1 .. MaxDrafts : AskAttach(c, d)

Proceed(c) ==
    \/ Prepared(c) \/ Begin(c)
    \/ SaveView(c) \/ KeepView(c) \/ LoseView(c) \/ SendSave(c) \/ Saved(c)
    \/ DraftRead(c) \/ Reviewed(c) \/ SendReopen(c) \/ Observed(c)
    \/ Checked(c) \/ ServerPublishes(c) \/ LosePublish(c) \/ Published(c)

Around ==
    \/ ChangePrincipal \/ TouchForm
    \/ \E d \in 1 .. MaxDrafts : OtherWriter(d)
    \/ \E i \in Items : Propose(i)
    \/ \E k \in 1 .. MaxTrouble, approves \in BOOLEAN : Decide(k, approves)

PublicationNext == Around \/ \E c \in Calls : Ask(c) \/ Proceed(c)

PublicationSpec == PublicationInit /\ [][PublicationNext]_pubVars

-----------------------------------------------------------------------------
(* Properties *)

Stored == [item : Items, view : Views]

PublicationTypeOK ==
    /\ pubEpoch \in Nat /\ trouble \in 0 .. MaxTrouble /\ editPending \in BOOLEAN
    /\ binding \in [id : Nat, draft : Nat \union {None}]
    /\ queue \in Seq(Calls)
    /\ calls \in [Calls -> Call]
    /\ submissions \in [Calls -> [input : Inputs \union {None}, pending : Calls \union {None}]]
    /\ drafts \in Seq(Stored) /\ versions \in Seq(Stored)
    /\ current \in [Items -> 0 .. MaxVersions] /\ published \in [Items -> 0 .. MaxVersions]
    /\ requests \in Seq([version : 1 .. MaxVersions, input : Inputs, review : Calls])
    /\ proposals \in Seq([version : 1 .. MaxVersions, open : BOOLEAN])

\* One review leads to at most one publish request at the server, however
\* often the human confirms it, whatever answers were lost and whichever
\* command the host names in the retry: #pinSubmission (workspace-publication.ts)
\* and the shared pending promise.
OneSubmission ==
    \A i, j \in DOMAIN requests : requests[i].review = requests[j].review => i = j

\* The version saveVersion answers with is one of its own draft and, if the map
\* had a camera, holds the view this call saved, unless another writer moved it
\* after: an edit whose answer was lost, a draft attached meanwhile or a new
\* principal never leave a version of something else (#saveCurrentView,
\* studio-workspace.ts).
VersionHasView ==
    \A c \in Calls :
        calls[c].op = "save" /\ calls[c].step = "done" =>
            /\ versions[calls[c].result].item = drafts[calls[c].draft].item
            /\ calls[c].camera => versions[calls[c].result].view \in {c, "other"}
=============================================================================
