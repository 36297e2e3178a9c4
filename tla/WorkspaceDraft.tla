--------------------------- MODULE WorkspaceDraft ---------------------------
(***************************************************************************)
(* The authorized server draft the workspace edits                         *)
(* (app/workspace-draft-session.ts), the one write path of widgets, chat,  *)
(* recipes and history onto it (app/composition-editor.ts), the binding    *)
(* that remembers the generation it observed (lifecycle/workspace-draft.ts)*)
(* and the revocation of all three when the principal changes              *)
(* (app/studio-workspace.ts).                                              *)
(*                                                                         *)
(* Several actors interleave: the human and the host call in at any time,  *)
(* every read or write of the draft is a task of one queue whose head      *)
(* waits for the server, another writer (the native agent, another tab)    *)
(* changes the same draft, requests and replies get lost, and a sign-out   *)
(* falls between any two steps.                                            *)
(*                                                                         *)
(* A composition is the set of what the properties tell apart: its layers, *)
(* its map style, and for a draft the server already holds a mark of the   *)
(* draft's own original content.  Pins, annotations and selection are      *)
(* local and not modelled.                                                 *)
(***************************************************************************)
EXTENDS Naturals, Sequences, SequencesExt

CONSTANTS
    Drafts,     \* draft ids
    Existing,   \* the drafts the server holds at the start
    Layers,     \* layer ids an edit may add or remove
    Styles,     \* map styles an edit may set
    None,       \* no request, no reply, no turn
    Budget      \* how often each operation may happen: the bound of a run

Operations ==
    {"edit", "attach", "history", "refresh", "turn", "create", "form",
     "authority", "other", "lose", "withdraw"}

ASSUME BudgetAssumption == Budget \in [Operations -> Nat]
ASSUME DraftsAssumption == Existing \subseteq Drafts /\ None \notin Drafts

\* A draft's mark is neither a layer nor a style.
ASSUME MarksAssumption == Drafts \intersect (Layers \union Styles) = {}

VARIABLES
    epoch,        \* authority.epoch: advances when the principal changes
    auth,         \* the AuthSession object the lifecycle clients are built on
    server,       \* per draft, the revisions the server accepted; the
                  \* generation of a draft is their number
    late,         \* writes the client gave up on that may still land
    bindings,     \* every WorkspaceDraftBinding built so far
    active,       \* drafts.#binding: an index into bindings, or 0
    conflict,     \* drafts.#conflict
    history,      \* the composition's undo and redo stacks
    historyBusy,  \* drafts.historyBusy
    queue,        \* drafts.#queue: the tasks not yet settled, oldest first
    stage,        \* what the head of the queue awaits
    request,      \* its request on the wire
    reply,        \* and the answer to it
    callers,      \* async callers that await the queue from outside
    turn,         \* the identity the last workspace turn captured
    dirty,        \* unsaved values in a form or in the style editor
    used          \* operations spent of Budget

authorityVars == <<epoch, auth>>
serverVars == <<server, late>>
draftVars == <<bindings, active, conflict, history>>
queueVars == <<queue, stage, request, reply>>
callerVars == <<callers, turn, historyBusy>>
vars == <<authorityVars, serverVars, draftVars, queueVars, callerVars, dirty, used>>

-----------------------------------------------------------------------------
(* Compositions, commands and history *)

Content == SUBSET (Drafts \union Layers \union Styles)

Commands ==
    [name : {"addLayer", "removeLayer"}, target : Layers]
        \union [name : {"setMapStyle"}, target : Styles]

IsStyle(c) == c.name = "setMapStyle"

\* The reducer refuses a duplicate layer and a missing target.
Refused(content, c) ==
    \/ c.name = "addLayer" /\ c.target \in content
    \/ c.name = "removeLayer" /\ c.target \notin content

WithStyle(content, style) == (content \ Styles) \union {style}

Applied(content, c) ==
    CASE c.name = "addLayer" -> content \union {c.target}
      [] c.name = "removeLayer" -> content \ {c.target}
      [] OTHER -> WithStyle(content, c.target)

\* CompositionHistory: the last element of each stack is its top.
Baseline(content) == [undo |-> <<content>>, redo |-> <<>>]

Top(h) == Last(h.undo)

Push(h, content) == [undo |-> Append(h.undo, content), redo |-> <<>>]

\* Mutated: an identical snapshot counts as a new edit.
ReplaceStateAlways(h, content) == Push(h, content)

\* An identical snapshot preserves both stacks.
ReplaceState(h, content) == IF content = Top(h) THEN h ELSE Push(h, content)

Undone(h) ==
    IF Len(h.undo) > 1
    THEN [undo |-> Front(h.undo), redo |-> Append(h.redo, Top(h))]
    ELSE h

Redone(h) ==
    IF h.redo # <<>>
    THEN [undo |-> Append(h.undo, Last(h.redo)), redo |-> Front(h.redo)]
    ELSE h

Moved(h, action) == IF action = "undo" THEN Undone(h) ELSE Redone(h)

CanMove(h, action) == IF action = "undo" THEN Len(h.undo) > 1 ELSE h.redo # <<>>

\* peekUndo and peekRedo
Peek(h, action) ==
    IF action = "undo" THEN h.undo[Len(h.undo) - 1] ELSE Last(h.redo)

-----------------------------------------------------------------------------
(* The server, the bindings and the queue *)

Revision == [content : Content, by : {"studio", "late", "other"}]

Generation(d) == Len(server[d])

Latest(d) == Last(server[d]).content

Reads == [op : {"get"}, draft : Drafts]

Writes ==
    [op : {"put"}, draft : Drafts, generation : Nat, content : Content]
        \union [op : {"style"}, draft : Drafts, generation : Nat, style : Styles]

Requests == Reads \union Writes

Replies ==
    [ok : {TRUE}, generation : Nat, content : Content] \union [ok : {FALSE}]

Failed == [ok |-> FALSE]

ASSUME NoneAssumption == None \notin Requests \union Replies

\* `epoch` is the authority that asked for the binding; `auth` the session its
\* lifecycle client sends with.
Binding == [draft : Drafts, generation : Nat, auth : Nat, epoch : Nat]

EditTask == [kind : {"edit"}, binding : Nat, epoch : Nat, command : Commands]
HistoryTask == [kind : {"undo", "redo"}, binding : Nat, epoch : Nat, target : Content]
AttachTask == [kind : {"attach"}, draft : Drafts, epoch : Nat, by : {"host", "refresh", "create"}]
Tasks == EditTask \union HistoryTask \union AttachTask

Callers == {"refresh", "turn", "create"}
Idle == [stage |-> "idle", binding |-> 0, epoch |-> 0, ahead |-> 0]

Spend(op) == used[op] < Budget[op] /\ used' = [used EXCEPT ![op] = @ + 1]

Enqueue(task) == queue' = Append(queue, task)

Running(kinds) == queue # <<>> /\ Head(queue).kind \in kinds

Task == Head(queue)

Authorized == Task.epoch = epoch

\* A settled task leaves the queue whether it succeeded or failed, and the
\* callers that waited for it have one task less ahead of them.
Settle ==
    /\ queue' = Tail(queue)
    /\ stage' = "idle"
    /\ request' = None
    /\ reply' = None
    /\ callers' = [c \in Callers |->
                     [callers[c] EXCEPT !.ahead = IF @ > 0 THEN @ - 1 ELSE 0]]

\* Mutated: an unresolved conflict is not pending work.
EditPendingButConflict == historyBusy \/ dirty # "clean"

EditPending == historyBusy \/ conflict \/ dirty # "clean"

\* markConflict for a failure of the running edit
MarkEditConflict ==
    conflict' = (conflict \/ (Authorized /\ Task.binding = active))

-----------------------------------------------------------------------------
(* Callers: what the human and the host may do at any time *)

\* CompositionEditor.dispatch with a draft attached: unsaved style changes
\* block everything but the style command; the edit captures the binding and
\* the authority it was made under, not the composition.
Dispatch(c) ==
    /\ Spend("edit")
    /\ active # 0
    /\ dirty = "style" => IsStyle(c)
    /\ Enqueue([kind |-> "edit", binding |-> active, epoch |-> epoch, command |-> c])
    /\ UNCHANGED <<authorityVars, serverVars, draftVars, stage, request, reply, callerVars, dirty>>

\* WorkspaceDraftSession.attach
Attach(d) ==
    /\ Spend("attach")
    /\ Enqueue([kind |-> "attach", draft |-> d, epoch |-> epoch, by |-> "host"])
    /\ UNCHANGED <<authorityVars, serverVars, draftVars, stage, request, reply, callerVars, dirty>>

\* CompositionEditor.applyHistory up to its await: the binding and the target
\* of the undo or redo are read before the task is queued.
ApplyHistory(action) ==
    /\ Spend("history")
    /\ ~historyBusy
    /\ dirty # "style"
    /\ active # 0
    /\ CanMove(history, action)
    /\ historyBusy' = TRUE
    /\ Enqueue([kind |-> action, binding |-> active, epoch |-> epoch,
                target |-> Peek(history, action)])
    /\ UNCHANGED <<authorityVars, serverVars, draftVars, stage, request, reply, callers, turn, dirty>>

\* An async caller remembers what it captured and how much of the queue it
\* awaits: the tail at the time of its call.
Wait(caller) ==
    /\ callers[caller] = Idle
    /\ callers' = [callers EXCEPT ![caller] =
                     [stage |-> "waiting", binding |-> active, epoch |-> epoch,
                      ahead |-> Len(queue)]]
    /\ UNCHANGED <<authorityVars, serverVars, draftVars, queueVars, turn, historyBusy, dirty>>

Refresh == Spend("refresh") /\ Wait("refresh")

PrepareTurn == Spend("turn") /\ Wait("turn")

Create == Spend("create") /\ Wait("create")

Resumes(caller) == callers[caller].stage = "waiting" /\ callers[caller].ahead = 0

Return(caller) == callers' = [callers EXCEPT ![caller] = Idle]

\* refresh() after its await: it reads the same draft again unless the binding
\* was replaced or an edit is pending.
ResumeRefresh ==
    LET captured == callers["refresh"].binding IN
    /\ Resumes("refresh")
    /\ Return("refresh")
    /\ IF captured # 0 /\ captured = active /\ ~EditPending
       THEN Enqueue([kind |-> "attach", draft |-> bindings[captured].draft,
                     epoch |-> epoch, by |-> "refresh"])
       ELSE UNCHANGED queue
    /\ UNCHANGED <<authorityVars, serverVars, draftVars, stage, request, reply, turn, historyBusy, dirty, used>>

\* Mutated: a turn that finds pending edits is neither refused nor sent.
ResumeTurnOrHang ==
    /\ Resumes("turn")
    /\ ~EditPending
    /\ Return("turn")
    /\ turn' = IF active = 0 THEN None
               ELSE [draft |-> bindings[active].draft,
                     generation |-> bindings[active].generation]
    /\ UNCHANGED <<authorityVars, serverVars, draftVars, queueVars, historyBusy, dirty, used>>

\* prepareTurn() after its await: the identity the host sends with the turn,
\* unless an edit is pending.
ResumeTurn ==
    /\ Resumes("turn")
    /\ Return("turn")
    /\ turn' = IF EditPending \/ active = 0 THEN None
               ELSE [draft |-> bindings[active].draft,
                     generation |-> bindings[active].generation]
    /\ UNCHANGED <<authorityVars, serverVars, draftVars, queueVars, historyBusy, dirty, used>>

\* create(): prepares a turn, then posts an empty draft outside the queue ...
PostCreate ==
    /\ Resumes("create")
    /\ callers' = IF EditPending \/ callers["create"].epoch # epoch
                  THEN [callers EXCEPT !["create"] = Idle]
                  ELSE [callers EXCEPT !["create"].stage = "posted"]
    /\ UNCHANGED <<authorityVars, serverVars, draftVars, queueVars, turn, historyBusy, dirty, used>>

\* ... and attaches the draft the server answers with, if the authority that
\* asked is still the current one.
CreateAnswered(d) ==
    /\ callers["create"].stage = "posted"
    /\ server[d] = <<>>
    /\ server' = [server EXCEPT ![d] = <<[content |-> {}, by |-> "studio"]>>]
    /\ Return("create")
    /\ IF callers["create"].epoch = epoch
       THEN Enqueue([kind |-> "attach", draft |-> d, epoch |-> epoch, by |-> "create"])
       ELSE UNCHANGED queue
    /\ UNCHANGED <<authorityVars, late, draftVars, stage, request, reply, turn, historyBusy, dirty, used>>

CreateFails ==
    /\ callers["create"].stage = "posted"
    /\ Return("create")
    /\ UNCHANGED <<authorityVars, serverVars, draftVars, queueVars, turn, historyBusy, dirty, used>>

\* Typing into a form or the style editor, and saving or discarding it.
EditForm(kind) ==
    /\ Spend("form")
    /\ dirty = "clean"
    /\ dirty' = kind
    /\ UNCHANGED <<authorityVars, serverVars, draftVars, queueVars, callerVars>>

SettleForm ==
    /\ dirty # "clean"
    /\ dirty' = "clean"
    /\ UNCHANGED <<authorityVars, serverVars, draftVars, queueVars, callerVars, used>>

\* Mutated: the bindings are released but the session keeps its handle.
RevokeAuthorityKeepsHandle ==
    /\ Spend("authority")
    /\ epoch' = epoch + 1
    /\ auth' = auth + 1
    /\ bindings' = <<>>
    /\ conflict' = FALSE
    /\ history' = Baseline({})
    /\ dirty' = IF dirty = "style" THEN "clean" ELSE dirty
    /\ UNCHANGED <<serverVars, active, queueVars, callerVars>>

\* StudioWorkspace.#revokeAuthority on a change of principal: the draft is
\* detached, the composition is emptied and the style editor disposed, while
\* the queue and its request on the wire live on.
RevokeAuthority ==
    /\ Spend("authority")
    /\ epoch' = epoch + 1
    /\ auth' = auth + 1
    /\ active' = 0
    /\ conflict' = FALSE
    /\ history' = Baseline({})
    /\ dirty' = IF dirty = "style" THEN "clean" ELSE dirty
    /\ UNCHANGED <<serverVars, bindings, queueVars, callerVars>>

\* Mutated: onAuthReplaced is not wired.
ReplaceAuthWithoutRebind ==
    /\ Spend("authority")
    /\ auth' = auth + 1
    /\ UNCHANGED <<epoch, serverVars, draftVars, queueVars, callerVars, dirty>>

\* resetAuth for the same principal: a new AuthSession, to which
\* onAuthReplaced rebinds the active binding, and only that one.
ReplaceAuth ==
    /\ Spend("authority")
    /\ auth' = auth + 1
    /\ bindings' = [b \in DOMAIN bindings |->
                      IF b = active THEN [bindings[b] EXCEPT !.auth = auth'] ELSE bindings[b]]
    /\ UNCHANGED <<epoch, serverVars, active, conflict, history, queueVars, callerVars, dirty>>

-----------------------------------------------------------------------------
(* The head of the queue: #runDraftEdit and #applyToDraft *)

\* Refused before anything reaches the server: the authority or the map
\* changed, or the reducer rejects the command.  None of these is a conflict.
RefuseEdit ==
    /\ stage = "idle" /\ Running({"edit"})
    /\ \/ ~Authorized
       \/ Task.binding # active
       \/ ~IsStyle(Task.command) /\ Refused(Top(history), Task.command)
    /\ Settle
    /\ UNCHANGED <<authorityVars, serverVars, draftVars, turn, historyBusy, dirty, used>>

\* The host view that asked for the edit went away (options.isCurrent).
WithdrawEdit ==
    /\ Spend("withdraw")
    /\ stage = "idle" /\ Running({"edit"})
    /\ Settle
    /\ UNCHANGED <<authorityVars, serverVars, draftVars, turn, historyBusy, dirty>>

\* Mutated: the edit runs on whatever is on screen, into the draft it was made on.
StartEditUnbound ==
    /\ stage = "idle" /\ Running({"edit"})
    /\ Authorized
    /\ stage' = "server"
    /\ request' = [op |-> "put", draft |-> bindings[Task.binding].draft,
                   generation |-> bindings[Task.binding].generation,
                   content |-> Applied(Top(history), Task.command)]
    /\ UNCHANGED <<authorityVars, serverVars, draftVars, queue, reply, callerVars, dirty, used>>

\* Mutated: the write names the server's generation instead of the observed one.
StartEditUnguarded ==
    /\ stage = "idle" /\ Running({"edit"})
    /\ Authorized /\ Task.binding = active
    /\ ~Refused(Top(history), Task.command)
    /\ stage' = "server"
    /\ request' = [op |-> "put", draft |-> bindings[active].draft,
                   generation |-> Generation(bindings[active].draft),
                   content |-> Applied(Top(history), Task.command)]
    /\ UNCHANGED <<authorityVars, serverVars, draftVars, queue, reply, callerVars, dirty, used>>

StartEdit ==
    /\ stage = "idle" /\ Running({"edit"})
    /\ Authorized /\ Task.binding = active
    /\ IF IsStyle(Task.command)
       THEN stage' = "canvas" /\ UNCHANGED request
       ELSE /\ ~Refused(Top(history), Task.command)
            /\ stage' = "server"
            /\ request' = [op |-> "put", draft |-> bindings[active].draft,
                           generation |-> bindings[active].generation,
                           content |-> Applied(Top(history), Task.command)]
    /\ UNCHANGED <<authorityVars, serverVars, draftVars, queue, reply, callerVars, dirty, used>>

\* editableMapStyle answered: the style is sent if nothing moved meanwhile.
SendStyle ==
    /\ stage = "canvas"
    /\ Authorized /\ Task.binding = active
    /\ stage' = "server"
    /\ request' = [op |-> "style", draft |-> bindings[active].draft,
                   generation |-> bindings[active].generation,
                   style |-> Task.command.target]
    /\ UNCHANGED <<authorityVars, serverVars, draftVars, queue, reply, callerVars, dirty, used>>

\* ... or the canvas failed, or the map changed while it prepared the style:
\* not a local refusal.
AbandonStyle ==
    /\ stage = "canvas"
    /\ MarkEditConflict
    /\ Settle
    /\ UNCHANGED <<authorityVars, serverVars, bindings, active, history, turn, historyBusy, dirty, used>>

\* The reducer rejects the style against the canvas's own snapshot.
RefuseStyle ==
    /\ stage = "canvas"
    /\ Authorized /\ Task.binding = active
    /\ Settle
    /\ UNCHANGED <<authorityVars, serverVars, draftVars, turn, historyBusy, dirty, used>>

\* WorkspaceDraftBinding.replace and replaceStyle remember the accepted draft
\* before their caller looks at the authority again.
AcceptGeneration ==
    bindings' = [bindings EXCEPT ![Task.binding].generation = reply.generation]

FinishEdit ==
    /\ Running({"edit"}) /\ reply # None /\ reply.ok
    /\ AcceptGeneration
    /\ history' =
         IF ~Authorized THEN history
         ELSE IF IsStyle(Task.command) THEN ReplaceState(history, reply.content)
         ELSE ReplaceState(Push(history, Applied(Top(history), Task.command)), reply.content)
    /\ Settle
    /\ UNCHANGED <<authorityVars, serverVars, active, conflict, turn, historyBusy, dirty, used>>

\* Mutated: a failed write is reported but not remembered.
FailEditForgets ==
    /\ Running({"edit"}) /\ reply # None /\ ~reply.ok
    /\ Settle
    /\ UNCHANGED <<authorityVars, serverVars, draftVars, turn, historyBusy, dirty, used>>

\* Mutated: a rejected task stays at the head of the queue.
FailEditBlocks ==
    /\ Running({"edit"}) /\ reply # None /\ ~reply.ok
    /\ MarkEditConflict
    /\ UNCHANGED <<authorityVars, serverVars, bindings, active, history, queueVars, callerVars, dirty, used>>

FailEdit ==
    /\ Running({"edit"}) /\ reply # None /\ ~reply.ok
    /\ MarkEditConflict
    /\ Settle
    /\ UNCHANGED <<authorityVars, serverVars, bindings, active, history, turn, historyBusy, dirty, used>>

-----------------------------------------------------------------------------
(* The head of the queue: observe *)

\* #requireAcceptable, before the read and again after it
Acceptable == Authorized /\ dirty = "clean"

StartAttach ==
    /\ stage = "idle" /\ Running({"attach"})
    /\ Acceptable
    /\ stage' = "server"
    /\ request' = [op |-> "get", draft |-> Task.draft]
    /\ UNCHANGED <<authorityVars, serverVars, draftVars, queue, reply, callerVars, dirty, used>>

\* Mutated: the answer is adopted without asking again whether it may be.
FinishAttachUnchecked ==
    LET previous == bindings[active]
        switchesMap == active = 0 \/ previous.draft # Task.draft
        reset == switchesMap \/ previous.generation # reply.generation
    IN
    /\ Running({"attach"}) /\ reply # None /\ reply.ok
    /\ bindings' = Append(bindings, [draft |-> Task.draft, generation |-> reply.generation,
                                     auth |-> auth, epoch |-> Task.epoch])
    /\ active' = Len(bindings) + 1
    /\ conflict' = FALSE
    /\ history' = IF reset THEN Baseline(reply.content) ELSE ReplaceState(history, reply.content)
    /\ Settle
    /\ UNCHANGED <<authorityVars, serverVars, turn, historyBusy, dirty, used>>

\* Mutated: reading the same map again keeps what is on screen.
FinishAttachKeepsState ==
    LET switchesMap == active = 0 \/ bindings[active].draft # Task.draft IN
    /\ Running({"attach"}) /\ reply # None /\ reply.ok
    /\ Acceptable
    /\ bindings' = Append(bindings, [draft |-> Task.draft, generation |-> reply.generation,
                                     auth |-> auth, epoch |-> Task.epoch])
    /\ active' = Len(bindings) + 1
    /\ conflict' = FALSE
    /\ history' = IF switchesMap THEN Baseline(reply.content) ELSE history
    /\ Settle
    /\ UNCHANGED <<authorityVars, serverVars, turn, historyBusy, dirty, used>>

\* A new binding replaces the active one, a conflict is over, and the history
\* is reset when the map or its generation is not the one already shown.
FinishAttach ==
    LET previous == bindings[active]
        switchesMap == active = 0 \/ previous.draft # Task.draft
        reset == switchesMap \/ previous.generation # reply.generation
    IN
    /\ Running({"attach"}) /\ reply # None /\ reply.ok
    /\ Acceptable
    /\ bindings' = Append(bindings, [draft |-> Task.draft, generation |-> reply.generation,
                                     auth |-> auth, epoch |-> Task.epoch])
    /\ active' = Len(bindings) + 1
    /\ conflict' = FALSE
    /\ history' = IF reset THEN Baseline(reply.content) ELSE ReplaceState(history, reply.content)
    /\ Settle
    /\ UNCHANGED <<authorityVars, serverVars, turn, historyBusy, dirty, used>>

RefuseAttach ==
    /\ Running({"attach"})
    /\ \/ stage = "idle" /\ ~Acceptable
       \/ reply # None /\ (~reply.ok \/ ~Acceptable)
    /\ Settle
    /\ UNCHANGED <<authorityVars, serverVars, draftVars, turn, historyBusy, dirty, used>>

-----------------------------------------------------------------------------
(* The head of the queue: #replaceDraftHistory *)

\* Only the authority is checked: the target goes out through the binding that
\* was active when undo was pressed.
StartHistory ==
    /\ stage = "idle" /\ Running({"undo", "redo"})
    /\ Authorized
    /\ stage' = "server"
    /\ request' = [op |-> "put", draft |-> bindings[Task.binding].draft,
                   generation |-> bindings[Task.binding].generation,
                   content |-> Task.target]
    /\ UNCHANGED <<authorityVars, serverVars, draftVars, queue, reply, callerVars, dirty, used>>

\* Mutated: the authority is not checked again after the write.
FinishHistoryUnchecked ==
    /\ Running({"undo", "redo"}) /\ reply # None /\ reply.ok
    /\ AcceptGeneration
    /\ history' = ReplaceState(Moved(history, Task.kind), reply.content)
    /\ historyBusy' = FALSE
    /\ Settle
    /\ UNCHANGED <<authorityVars, serverVars, active, conflict, turn, dirty, used>>

\* Mutated: the local stack moves and the server's answer is not adopted.
FinishHistoryLocally ==
    /\ Running({"undo", "redo"}) /\ reply # None /\ reply.ok /\ Authorized
    /\ AcceptGeneration
    /\ history' = Moved(history, Task.kind)
    /\ historyBusy' = FALSE
    /\ Settle
    /\ UNCHANGED <<authorityVars, serverVars, active, conflict, turn, dirty, used>>

FinishHistory ==
    /\ Running({"undo", "redo"}) /\ reply # None /\ reply.ok /\ Authorized
    /\ AcceptGeneration
    /\ history' = ReplaceState(Moved(history, Task.kind), reply.content)
    /\ historyBusy' = FALSE
    /\ Settle
    /\ UNCHANGED <<authorityVars, serverVars, active, conflict, turn, dirty, used>>

\* Mutated: a failed undo or redo is not remembered.
FailHistoryForgets ==
    /\ Running({"undo", "redo"}) /\ reply # None /\ ~reply.ok
    /\ historyBusy' = FALSE
    /\ Settle
    /\ UNCHANGED <<authorityVars, serverVars, draftVars, turn, dirty, used>>

\* Mutated: undo stays disabled after a failure.
FailHistoryStaysBusy ==
    /\ Running({"undo", "redo"})
    /\ \/ stage = "idle" /\ ~Authorized
       \/ reply # None /\ (~reply.ok \/ ~Authorized)
    /\ conflict' = (conflict \/ (Authorized /\ active # 0))
    /\ Settle
    /\ UNCHANGED <<authorityVars, serverVars, bindings, active, history, turn, historyBusy, dirty, used>>

\* applyHistory's catch: a conflict on whatever draft is attached, unless the
\* authority changed since the call.
FailHistory ==
    /\ Running({"undo", "redo"})
    /\ \/ stage = "idle" /\ ~Authorized /\ UNCHANGED bindings
       \/ reply # None /\ ~reply.ok /\ UNCHANGED bindings
       \/ reply # None /\ reply.ok /\ ~Authorized /\ AcceptGeneration
    /\ conflict' = (conflict \/ (Authorized /\ active # 0))
    /\ historyBusy' = FALSE
    /\ Settle
    /\ UNCHANGED <<authorityVars, serverVars, active, history, turn, dirty, used>>

-----------------------------------------------------------------------------
(* The server and the network *)

Answer(r) == reply' = r /\ UNCHANGED <<stage, queue, request>>

\* A write is accepted only at the generation it was computed from.
Accepts(r) == server[r.draft] # <<>> /\ r.generation = Generation(r.draft)

Written(r) == IF r.op = "put" THEN r.content ELSE WithStyle(Latest(r.draft), r.style)

Store(r, by) ==
    server' = [server EXCEPT ![r.draft] = Append(@, [content |-> Written(r), by |-> by])]

ServerGet ==
    /\ request # None /\ request.op = "get" /\ reply = None
    /\ Answer(IF server[request.draft] = <<>> THEN Failed
              ELSE [ok |-> TRUE, generation |-> Generation(request.draft),
                    content |-> Latest(request.draft)])
    /\ UNCHANGED <<authorityVars, serverVars, draftVars, callerVars, dirty, used>>

ServerPut ==
    /\ request # None /\ request.op # "get" /\ reply = None
    /\ IF Accepts(request)
       THEN /\ Store(request, "studio")
            /\ Answer([ok |-> TRUE, generation |-> Generation(request.draft) + 1,
                       content |-> Written(request)])
       ELSE Answer(Failed) /\ UNCHANGED server
    /\ UNCHANGED <<authorityVars, late, draftVars, callerVars, dirty, used>>

\* The client sees a failure: the request never arrived, its reply was lost,
\* or the write is still under way and may land later.
LoseRequest ==
    /\ Spend("lose")
    /\ request # None /\ reply = None
    /\ Answer(Failed)
    /\ late' \in {late, IF request.op = "get" THEN late ELSE late \union {request}}
    /\ UNCHANGED <<authorityVars, server, draftVars, callerVars, dirty>>

LoseReply ==
    /\ Spend("lose")
    /\ reply # None /\ reply.ok
    /\ Answer(Failed)
    /\ UNCHANGED <<authorityVars, serverVars, draftVars, callerVars, dirty>>

LateWrite ==
    \E r \in late :
        /\ late' = late \ {r}
        /\ IF Accepts(r) THEN Store(r, "late") ELSE UNCHANGED server
        /\ UNCHANGED <<authorityVars, draftVars, queueVars, callerVars, dirty, used>>

\* The native agent or another session edits the same draft.
OtherWrite(d, c) ==
    /\ Spend("other")
    /\ server[d] # <<>>
    /\ ~Refused(Latest(d), c)
    /\ server' = [server EXCEPT ![d] = Append(@, [content |-> Applied(Latest(d), c), by |-> "other"])]
    /\ UNCHANGED <<authorityVars, late, draftVars, queueVars, callerVars, dirty>>

-----------------------------------------------------------------------------
Init ==
    /\ epoch = 0 /\ auth = 0
    /\ server = [d \in Drafts |->
                   IF d \in Existing THEN <<[content |-> {d}, by |-> "other"]>> ELSE <<>>]
    /\ late = {}
    /\ bindings = <<>> /\ active = 0
    /\ conflict = FALSE
    /\ history = Baseline({})
    /\ historyBusy = FALSE
    /\ queue = <<>> /\ stage = "idle" /\ request = None /\ reply = None
    /\ callers = [c \in Callers |-> Idle]
    /\ turn = None
    /\ dirty = "clean"
    /\ used = [op \in Operations |-> 0]

Call ==
    \/ \E c \in Commands : Dispatch(c)
    \/ \E d \in Drafts : Attach(d)
    \/ \E action \in {"undo", "redo"} : ApplyHistory(action)
    \/ Refresh
    \/ PrepareTurn
    \/ Create
    \/ \E kind \in {"form", "style"} : EditForm(kind)
    \/ SettleForm
    \/ RevokeAuthority
    \/ ReplaceAuth
    \/ WithdrawEdit

Resume ==
    \/ ResumeRefresh
    \/ ResumeTurn
    \/ PostCreate
    \/ \E d \in Drafts : CreateAnswered(d)
    \/ CreateFails

RunQueue ==
    \/ RefuseEdit
    \/ StartEdit
    \/ SendStyle
    \/ AbandonStyle
    \/ RefuseStyle
    \/ FinishEdit
    \/ FailEdit
    \/ StartAttach
    \/ FinishAttach
    \/ RefuseAttach
    \/ StartHistory
    \/ FinishHistory
    \/ FailHistory

Respond == ServerGet \/ ServerPut

Network ==
    \/ LoseRequest
    \/ LoseReply
    \/ LateWrite
    \/ \E d \in Drafts, c \in Commands : OtherWrite(d, c)

Next == Call \/ Resume \/ RunQueue \/ Respond \/ Network

Spec == Init /\ [][Next]_vars

\* Promises run to their next await whenever they can, and a fetch settles.
Fairness == WF_vars(RunQueue) /\ WF_vars(Resume) /\ WF_vars(Respond)

FairSpec == Spec /\ Fairness

-----------------------------------------------------------------------------
(* Type correctness *)

\* Every variable holds what the code can put there: the handles are indices
\* of bindings, the stacks and the queue hold compositions and tasks.
TypeOK ==
    /\ epoch \in Nat /\ auth \in Nat
    /\ server \in [Drafts -> Seq(Revision)]
    /\ late \subseteq Writes
    /\ bindings \in Seq(Binding)
    /\ active \in 0..Len(bindings)
    /\ conflict \in BOOLEAN /\ historyBusy \in BOOLEAN
    /\ history \in [undo : Seq(Content), redo : Seq(Content)]
    /\ history.undo # <<>>
    /\ queue \in Seq(Tasks)
    /\ stage \in {"idle", "canvas", "server"}
    /\ request \in Requests \union {None}
    /\ reply \in Replies \union {None}
    /\ callers \in [Callers -> [stage : {"idle", "waiting", "posted"}, binding : Nat,
                                epoch : Nat, ahead : Nat]]
    /\ turn \in [draft : Drafts, generation : Nat] \union {None}
    /\ dirty \in {"clean", "form", "style"}
    /\ used \in [Operations -> Nat]

-----------------------------------------------------------------------------
(* Safety *)

\* Nothing a former principal requested becomes visible: the active binding was
\* asked for by the current authority, and with no binding the composition is
\* the empty baseline, whatever reads, edits and undos of the former authority
\* settle after the sign-out.
AuthorityIsolated ==
    IF active = 0 THEN history = Baseline({}) /\ ~conflict
    ELSE bindings[active].epoch = epoch

\* The active binding sends with the current session even when the session was
\* replaced while the binding's prospective read was in flight.
ActiveBindingUsesCurrentAuth == active # 0 => bindings[active].auth = auth

\* Both, in states of the types above: whoever signs in next sees and sends
\* nothing but their own (WorkspaceAuthority.replace, #adopt).
OnlyCurrentAuthority == TypeOK /\ AuthorityIsolated /\ ActiveBindingUsesCurrentAuth

\* Between two tasks the composition on screen is the content the server
\* accepted at the generation the active binding will write against: the next
\* edit is computed from what its generation check is about.
CompositionIsObserved ==
    stage = "idle" /\ active # 0 =>
        LET b == bindings[active] IN
        /\ b.generation \in 1..Generation(b.draft)
        /\ Top(history) = server[b.draft][b.generation].content

\* A revision this session wrote and does not know of is flagged as a conflict,
\* so that no workspace turn is captured on top of an unknown outcome.
UnknownOutcomeIsConflict ==
    stage = "idle" /\ active # 0 /\ ~conflict =>
        LET b == bindings[active] IN
        \A g \in b.generation + 1 .. Generation(b.draft) : server[b.draft][g].by # "studio"

\* The session either knows the draft it will write against or says that it
\* does not (#observe, markConflict).
ObservedOrInConflict == CompositionIsObserved /\ UnknownOutcomeIsConflict

\* The draft follows one lineage: every revision above the first differs from
\* the one below by what one command does, so no write drops layers another
\* writer added and none brings content of another draft.
OneCommandApart(d, g) ==
    \E c \in Commands : server[d][g + 1].content = Applied(server[d][g].content, c)

NoLostUpdate ==
    \A d \in Drafts : \A g \in 1 .. Generation(d) - 1 : OneCommandApart(d, g)

\* No draft ever holds the original content of another.
NoForeignContent ==
    \A d \in Drafts : \A g \in 1 .. Generation(d) :
        server[d][g].content \intersect Drafts \subseteq {d}

\* What the server accepts of this session continues the draft it was meant for
\* (replaceDraft with the binding's generation).
OneLineage == NoLostUpdate /\ NoForeignContent

-----------------------------------------------------------------------------
(* What a step may never do *)

\* An attach never replaces the draft under an unsaved form: only a change of
\* principal may.
UnsavedFormKeepsDraft ==
    [][dirty # "clean" /\ active' # active => epoch' # epoch]_vars

\* An undo or redo that lands moves the history by one revision: the state it
\* leaves is the one the stack offered when the task ran.
HistoryMovesOneRevision ==
    [][historyBusy /\ ~historyBusy' /\ history' # history /\ epoch' = epoch
       => CanMove(history, Task.kind) /\ history' = Moved(history, Task.kind)]_vars

\* An undo or redo whose target is still the stack's next state when it lands
\* moves the history by exactly one revision and keeps the rest of both stacks:
\* the server's answer is not taken for a new edit.
UndisturbedHistoryIsExact ==
    [][historyBusy /\ ~historyBusy' /\ history' # history /\ CanMove(history, Task.kind)
         /\ Task.target = Peek(history, Task.kind)
       => history' = Moved(history, Task.kind)]_vars

\* Beside that, undo and redo break neither what the screen shows of the draft
\* nor whose it is (applyHistory).
HistoryIsExact ==
    UndisturbedHistoryIsExact /\ []OnlyCurrentAuthority /\ []ObservedOrInConflict

\* An unresolved conflict blocks edits: no write leaves while it stands.
ConflictBlocksWrites ==
    [][conflict /\ request' # None /\ request = None => request'.op = "get"]_vars

\* A captured turn names the newest revision this session wrote to the draft.
TurnSeesOwnWrites ==
    [][turn' # turn /\ turn' # None /\ stage = "idle" =>
         \A g \in turn'.generation + 1 .. Generation(turn'.draft) :
             server[turn'.draft][g].by # "studio"]_vars

-----------------------------------------------------------------------------
(* Liveness *)

\* A failure never blocks the queue: whatever was queued settles.
QueueDrains == queue # <<>> ~> queue = <<>>

\* Every refresh, turn and creation returns to its caller.
CallersReturn == \A c \in Callers : callers[c].stage # "idle" ~> callers[c].stage = "idle"

\* Undo and redo become available again.
HistoryRecovers == historyBusy ~> ~historyBusy

\* Nothing the human or the assistant asked of the session is left hanging
\* (WorkspaceDraftSession.enqueue, applyHistory's finally).
EveryoneReturns == QueueDrains /\ CallersReturn /\ HistoryRecovers

=============================================================================
