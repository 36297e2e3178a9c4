---------------------------- MODULE Orchestrator -----------------------------
(***************************************************************************)
(* ToolCallOrchestrator (mcp/orchestrator.ts): the assistant's and the     *)
(* shell's commands while no workspace draft is attached.  With a live     *)
(* session a command becomes a server tool call on the session's draft,    *)
(* which is created on first use, and the returned draft becomes the       *)
(* screen; without one the local reducer applies it.  Beside it stand the  *)
(* agent session built on the same draft, which reports the drafts its own *)
(* tools return, and the host, which replaces or detaches the session at   *)
(* any time (app/live-composition-controller.ts).                          *)
(***************************************************************************)
EXTENDS Naturals, Sequences, SequencesExt

CONSTANTS
    Layers,         \* layer ids, each its own source
    Controls,       \* control ids
    SourceOf,       \* the layer a control is bound to
    Undone,         \* layers that may have been tried and undone before a session
    Notes,          \* annotations, which no server tool knows
    None,           \* no session, draft, request, reply or shared creation
    Unset,          \* the controls block of a draft that never had one
    Budget          \* how often each operation may happen: the bound of a run

Operations == {"call", "history", "session", "disturbance"}

ASSUME SourceAssumption == SourceOf \in [Controls -> Layers]
ASSUME UndoneAssumption == Undone \subseteq Layers
ASSUME BudgetAssumption == Budget \in [Operations -> Nat]

VARIABLES
    live,               \* #live: the session attached, by its #draftSetupGeneration
    setupGeneration,    \* #draftSetupGeneration
    setup,              \* #draftSetup: the session whose creation is shared
    creates,            \* the createDraft calls not settled yet
    draftId,
    generation,
    undo,               \* the controller's revisions, the screen last
    redo,
    queue,              \* #serverQueue: the calls and history actions not settled
    stage,              \* what the head of the queue awaits
    action,             \* what the head captured before its first await
    deferred,           \* #deferredControls
    request,            \* the head's request on the wire
    reply,              \* and its answer
    agent,              \* the agent session's setup
    told,               \* a draft one of its tools returned, not reported yet
    store,              \* the server's drafts, each the sequence of its revisions
    crossed,            \* history: an answer was adopted in another session than asked
    tries,              \* history: how often each call was sent or applied
    used                \* operations spent of Budget

sessionVars == <<live, setupGeneration>>
draftVars == <<draftId, generation>>
creationVars == <<setup, creates>>
historyVars == <<undo, redo>>
queueVars == <<queue, stage, action>>
wireVars == <<request, reply>>
agentVars == <<agent, told>>
vars == <<sessionVars, draftVars, creationVars, historyVars, queueVars, deferred, wireVars,
          agentVars, store, crossed, tries, used>>

-----------------------------------------------------------------------------
(* Compositions, drafts and commands *)

State == [layers : SUBSET Layers, controls : SUBSET Controls, notes : SUBSET Notes]

Body == [layers : SUBSET Layers, controls : (SUBSET Controls) \union {Unset}]

Draft == [id : Nat, generation : Nat, body : Body]

Read(d) == [id |-> d, generation |-> Len(store[d]), body |-> Last(store[d])]

Commands ==
    [op : {"addLayer", "removeLayer"}, target : Layers]
        \union [op : {"addControl", "removeControl"}, target : Controls]

\* What the reducer lets through; a layer that a control is bound to stays.
Valid(s, c) ==
    CASE c.op = "addLayer" -> c.target \notin s.layers
      [] c.op = "removeLayer" ->
            c.target \in s.layers /\ \A k \in s.controls : SourceOf[k] # c.target
      [] c.op = "addControl" -> c.target \notin s.controls
      [] c.op = "removeControl" -> c.target \in s.controls

Applied(s, c) ==
    CASE c.op = "addLayer" -> [s EXCEPT !.layers = @ \union {c.target}]
      [] c.op = "removeLayer" -> [s EXCEPT !.layers = @ \ {c.target}]
      [] c.op = "addControl" -> [s EXCEPT !.controls = @ \union {c.target}]
      [] c.op = "removeControl" -> [s EXCEPT !.controls = @ \ {c.target}]

\* toStudioCompositionBody: annotations are dropped, an empty block is omitted.
ToBody(s) ==
    [layers |-> s.layers, controls |-> IF s.controls = {} THEN Unset ELSE s.controls]

\* applyStudioDraft: a block the draft never had leaves what is there.
FromBody(b, previous) ==
    [previous EXCEPT !.layers = b.layers,
                     !.controls = IF b.controls = Unset THEN @ ELSE b.controls]

Empty == [layers |-> {}, controls |-> {}, notes |-> {}]

WithLayer(b, l) == [b EXCEPT !.layers = @ \union {l}]

\* historyCommand: the single commands that make one composition the other, as
\* far as the server can tell.
Inverses(before, target) ==
    {c \in Commands : Valid(before, c) /\ ToBody(Applied(before, c)) = ToBody(target)}

Spend(op) == used[op] < Budget[op] /\ used' = [used EXCEPT ![op] = @ + 1]

-----------------------------------------------------------------------------
(* The controller's history *)

Screen == Last(undo)

\* apply: a new revision, and no redo.
Push(s) == undo' = Append(undo, s) /\ redo' = <<>>

\* replaceState: an identical snapshot is not a revision.
Show(b) ==
    IF FromBody(b, Screen) = Screen THEN UNCHANGED historyVars ELSE Push(FromBody(b, Screen))

CanMove(direction) == IF direction = "undo" THEN Len(undo) > 1 ELSE redo # <<>>

Peek(direction) == IF direction = "undo" THEN Last(Front(undo)) ELSE Last(redo)

Move(direction) ==
    IF direction = "undo"
    THEN undo' = Front(undo) /\ redo' = Append(redo, Screen)
    ELSE undo' = Append(undo, Last(redo)) /\ redo' = Front(redo)

-----------------------------------------------------------------------------
(* The queue and the shared creation *)

Call(id, c) == [kind |-> "call", id |-> id, command |-> c]
History(direction) == [kind |-> "history", direction |-> direction]

First == Head(queue)

Leave == queue' = Tail(queue) /\ stage' = "idle" /\ action' = None

Await(s, a) == UNCHANGED queue /\ stage' = s /\ action' = a

Send(r) == request' = r /\ reply' = None

Hangup == request' = None /\ reply' = None

Tried(id) == tries' = [tries EXCEPT ![id] = @ + 1]

DraftKnown == draftId # None /\ generation # None

Creation(s, screen) == [session |-> s, body |-> ToBody(screen), reply |-> None]

\* #ensureDraft without a draft: the first caller of a session starts the
\* creation, seeded with the screen, and the others share it.
EnsureDraft ==
    IF setup = None
    THEN setup' = live /\ creates' = creates \union {Creation(live, Screen)}
    ELSE UNCHANGED creationVars

ToolCall(task, d, g) ==
    [op |-> "tool", id |-> d, generation |-> g, command |-> task.command]
GetDraft(d) == [op |-> "get", id |-> d]

-----------------------------------------------------------------------------
(* handleToolCall *)

Resolves(c, s) == c.op = "addControl" => SourceOf[c.target] \in s.layers

\* With a session the call waits its turn, or for the layer it needs.
QueueCall(c) ==
    /\ Spend("call")
    /\ live # None
    /\ IF Resolves(c, Screen)
       THEN queue' = Append(queue, Call(used'["call"], c)) /\ UNCHANGED deferred
       ELSE deferred' = Append(deferred, Call(used'["call"], c)) /\ UNCHANGED queue
    /\ UNCHANGED <<sessionVars, draftVars, creationVars, historyVars, stage, action, wireVars,
                   agentVars, store, crossed, tries>>

\* Without one the reducer applies it.
ApplyLocal(c) ==
    /\ Spend("call")
    /\ live = None
    /\ Valid(Screen, c)
    /\ Push(Applied(Screen, c))
    /\ Tried(used'["call"])
    /\ UNCHANGED <<sessionVars, draftVars, creationVars, queueVars, deferred, wireVars, agentVars,
                   store, crossed>>

\* An annotation has no server tool, with a session or without.
Annotate(n) ==
    /\ Spend("disturbance")
    /\ n \notin Screen.notes
    /\ Push([Screen EXCEPT !.notes = @ \union {n}])
    /\ UNCHANGED <<sessionVars, draftVars, creationVars, queueVars, deferred, wireVars, agentVars,
                   store, crossed, tries>>

\* applyHistoryAction
QueueHistory(direction) ==
    /\ Spend("history")
    /\ queue' = Append(queue, History(direction))
    /\ UNCHANGED <<sessionVars, draftVars, creationVars, historyVars, stage, action, deferred,
                   wireVars, agentVars, store, crossed, tries>>

-----------------------------------------------------------------------------
(* #applyServer and #callServerTool *)

Idle == queue # <<>> /\ stage = "idle"
IdleCall == Idle /\ First.kind = "call"
IdleHistory == Idle /\ First.kind = "history"

\* Refused by the reducer, or queued for a session that was detached since.
RejectCall ==
    /\ IdleCall
    /\ ~Valid(Screen, First.command) \/ live = None
    /\ Leave
    /\ UNCHANGED <<sessionVars, draftVars, creationVars, historyVars, deferred, wireVars, agentVars,
                   store, crossed, tries, used>>

StartCall ==
    /\ IdleCall
    /\ Valid(Screen, First.command) /\ live # None
    /\ IF DraftKnown
       THEN /\ Await("calling", [session |-> setupGeneration])
            /\ Send(ToolCall(First, draftId, generation))
            /\ Tried(First.id)
            /\ UNCHANGED creationVars
       ELSE /\ Await("creating", [session |-> live])
            /\ EnsureDraft
            /\ UNCHANGED <<wireVars, tries>>
    /\ UNCHANGED <<sessionVars, draftVars, historyVars, deferred, agentVars, store, crossed, used>>

Answered == reply # None /\ reply.ok
Conflicted == reply # None /\ ~reply.ok /\ reply.conflict
Broken == reply # None /\ ~reply.ok /\ ~reply.conflict

\* The answer becomes the screen, whichever session is attached by now.
Adopt(d) ==
    /\ generation' = d.generation
    /\ Show(d.body)
    /\ crossed' = (crossed \/ action.session # setupGeneration)

\* filter: the elements at the wanted positions, in their order
Picked(calls, wanted) ==
    LET picked[n \in 0..Len(calls)] ==
            IF n = 0 THEN <<>>
            ELSE IF n \in wanted THEN Append(picked[n - 1], calls[n])
            ELSE picked[n - 1]
    IN  picked[Len(calls)]

Resolving(calls, s) == {i \in 1..Len(calls) : Resolves(calls[i].command, s)}

\* A layer that arrived lets the controls waiting for it go next.
Ready(calls, s) == Picked(calls, Resolving(calls, s))
Waiting(calls, s) == Picked(calls, 1..Len(calls) \ Resolving(calls, s))

\* Mutated: a control that was sent goes on waiting.
FinishCallKeepsDeferred ==
    /\ stage = "calling" /\ Answered
    /\ Adopt(reply.draft)
    /\ IF First.command.op = "addLayer"
       THEN queue' = Ready(deferred, Last(undo')) \o Tail(queue)
       ELSE queue' = Tail(queue)
    /\ stage' = "idle" /\ action' = None
    /\ Hangup
    /\ UNCHANGED <<sessionVars, draftId, creationVars, deferred, agentVars, store, tries, used>>

FinishCall ==
    /\ stage = "calling" /\ Answered
    /\ Adopt(reply.draft)
    /\ IF First.command.op = "addLayer"
       THEN /\ queue' = Ready(deferred, Last(undo')) \o Tail(queue)
            /\ deferred' = Waiting(deferred, Last(undo'))
       ELSE queue' = Tail(queue) /\ UNCHANGED deferred
    /\ stage' = "idle" /\ action' = None
    /\ Hangup
    /\ UNCHANGED <<sessionVars, draftId, creationVars, agentVars, store, tries, used>>

\* A conflict reads the draft again, and never sends the call a second time.
ConflictCall ==
    /\ stage = "calling" /\ Conflicted /\ draftId # None
    /\ Await("refreshing", [session |-> setupGeneration])
    /\ Send(GetDraft(draftId))
    /\ UNCHANGED <<sessionVars, draftVars, creationVars, historyVars, deferred, agentVars, store,
                   crossed, tries, used>>

FinishRefresh ==
    /\ stage = "refreshing" /\ Answered
    /\ Adopt(reply.draft)
    /\ Leave
    /\ Hangup
    /\ UNCHANGED <<sessionVars, draftId, creationVars, deferred, agentVars, store, tries, used>>

FailCall ==
    /\ \/ stage \in {"calling", "refreshing"} /\ Broken
       \/ stage = "calling" /\ Conflicted /\ draftId = None
    /\ Leave
    /\ Hangup
    /\ UNCHANGED <<sessionVars, draftVars, creationVars, historyVars, deferred, agentVars, store,
                   crossed, tries, used>>

-----------------------------------------------------------------------------
(* applyHistoryAction *)

\* Without a session the cursor moves at once.
MoveLocally ==
    /\ IdleHistory
    /\ live = None
    /\ Leave
    /\ IF CanMove(First.direction) THEN Move(First.direction) ELSE UNCHANGED historyVars
    /\ UNCHANGED <<sessionVars, draftVars, creationVars, deferred, wireVars, agentVars, store,
                   crossed, tries, used>>

StartHistory ==
    /\ IdleHistory
    /\ live # None
    /\ IF ~CanMove(First.direction)
       THEN Leave /\ UNCHANGED <<creationVars, wireVars>>
       ELSE LET captured == [session |-> setupGeneration, before |-> undo,
                             target |-> Peek(First.direction)]
            IN  IF DraftKnown
                THEN Await("reading", captured) /\ Send(GetDraft(draftId)) /\ UNCHANGED creationVars
                ELSE Await("creating", captured) /\ EnsureDraft /\ UNCHANGED wireVars
    /\ UNCHANGED <<sessionVars, draftVars, historyVars, deferred, agentVars, store, crossed, tries,
                   used>>

\* The draft is still what the screen showed when the action started.  The code
\* compares the state objects: the same revision, not one that looks the same.
Undisturbed ==
    /\ action.session = setupGeneration
    /\ undo = action.before
    /\ ToBody(FromBody(reply.draft.body, Empty)) = ToBody(Screen)

LocalOnly == ToBody(Last(action.before)) = ToBody(action.target)

\* Only local things changed: the server has nothing to do.
MoveUnseen ==
    /\ stage = "reading" /\ Answered
    /\ Undisturbed /\ LocalOnly
    /\ Leave
    /\ Move(First.direction)
    /\ Hangup
    /\ UNCHANGED <<sessionVars, draftVars, creationVars, deferred, agentVars, store, crossed, tries,
                   used>>

\* The inverse names the generation just read, not the one the call before left.
SendInverse ==
    /\ stage = "reading" /\ Answered
    /\ Undisturbed /\ ~LocalOnly
    /\ \E c \in Inverses(Last(action.before), action.target) :
        Send([op |-> "tool", id |-> request.id, generation |-> reply.draft.generation, command |-> c])
    /\ Await("inverting", action)
    /\ UNCHANGED <<sessionVars, draftVars, creationVars, historyVars, deferred, agentVars, store,
                   crossed, tries, used>>

\* Nothing was sent, or what was sent did not go through.
AbandonHistory ==
    /\ \/ /\ stage = "reading" /\ Answered
          /\ ~Undisturbed \/ (~LocalOnly /\ Inverses(Last(action.before), action.target) = {})
       \/ stage \in {"reading", "inverting"} /\ (Broken \/ Conflicted)
       \/ stage = "inverting" /\ Answered /\ action.session # setupGeneration
    /\ Leave
    /\ Hangup
    /\ UNCHANGED <<sessionVars, draftVars, creationVars, historyVars, deferred, agentVars, store,
                   crossed, tries, used>>

\* Mutated: the generation of the inverse is not recorded.
FinishHistoryKeepsGeneration ==
    /\ stage = "inverting" /\ Answered
    /\ action.session = setupGeneration
    /\ IF /\ undo = action.before
          /\ ToBody(FromBody(reply.draft.body, Empty)) = ToBody(action.target)
       THEN Move(First.direction)
       ELSE Show(reply.draft.body)
    /\ Leave
    /\ Hangup
    /\ UNCHANGED <<sessionVars, draftVars, creationVars, deferred, agentVars, store, crossed, tries,
                   used>>

\* The cursor follows the server; a screen that moved meanwhile shows the draft.
FinishHistory ==
    /\ stage = "inverting" /\ Answered
    /\ action.session = setupGeneration
    /\ generation' = reply.draft.generation
    /\ IF /\ undo = action.before
          /\ ToBody(FromBody(reply.draft.body, Empty)) = ToBody(action.target)
       THEN Move(First.direction)
       ELSE Show(reply.draft.body)
    /\ Leave
    /\ Hangup
    /\ UNCHANGED <<sessionVars, draftId, creationVars, deferred, agentVars, store, crossed, tries,
                   used>>

-----------------------------------------------------------------------------
(* A creation settles *)

\* The session it was made for is still attached: its draft becomes the screen,
\* and whoever waited goes on.
CreateAdopted(c) ==
    /\ c \in creates /\ c.reply # None /\ c.reply.ok
    /\ c.session = setupGeneration /\ live # None
    /\ creates' = creates \ {c} /\ setup' = None
    /\ draftId' = c.reply.draft.id /\ generation' = c.reply.draft.generation
    /\ Show(c.reply.draft.body)
    /\ agent' = IF agent = "ensuring" THEN "attached" ELSE agent
    /\ IF stage = "creating" /\ action.session = c.session /\ First.kind = "call"
       THEN /\ Await("calling", [session |-> setupGeneration])
            /\ Send(ToolCall(First, c.reply.draft.id, c.reply.draft.generation))
            /\ Tried(First.id)
       ELSE IF stage = "creating" /\ action.session = c.session
       THEN Await("reading", action) /\ Send(GetDraft(c.reply.draft.id)) /\ UNCHANGED tries
       ELSE UNCHANGED <<queueVars, wireVars, tries>>
    /\ UNCHANGED <<sessionVars, deferred, told, store, crossed, used>>

\* Mutated: the cleanup of a former creation takes the current one with it.
CreateRejectedClearsSetup(c) ==
    /\ c \in creates /\ c.reply # None
    /\ ~c.reply.ok \/ c.session # setupGeneration \/ live = None
    /\ creates' = creates \ {c}
    /\ setup' = None
    /\ agent' = IF agent = "ensuring" /\ c.session = setupGeneration THEN "failed" ELSE agent
    /\ IF stage = "creating" /\ action.session = c.session THEN Leave ELSE UNCHANGED queueVars
    /\ UNCHANGED <<sessionVars, draftVars, historyVars, deferred, wireVars, told, store, crossed,
                   tries, used>>

\* Mutated: a creation of a former session settles for nobody.
CreateSupersededSilently(c) ==
    /\ c \in creates /\ c.reply # None
    /\ ~c.reply.ok \/ c.session # setupGeneration \/ live = None
    /\ creates' = creates \ {c}
    /\ setup' = IF c.session = setupGeneration THEN None ELSE setup
    /\ agent' = IF agent = "ensuring" /\ c.session = setupGeneration THEN "failed" ELSE agent
    /\ IF stage = "creating" /\ action.session = c.session /\ c.session = live
       THEN Leave ELSE UNCHANGED queueVars
    /\ UNCHANGED <<sessionVars, draftVars, historyVars, deferred, wireVars, told, store, crossed,
                   tries, used>>

\* It failed, or the session was replaced or detached meanwhile: everyone who
\* waited for it is refused, and only its own session may try again.
CreateRejected(c) ==
    /\ c \in creates /\ c.reply # None
    /\ ~c.reply.ok \/ c.session # setupGeneration \/ live = None
    /\ creates' = creates \ {c}
    /\ setup' = IF c.session = setupGeneration THEN None ELSE setup
    /\ agent' = IF agent = "ensuring" /\ c.session = setupGeneration THEN "failed" ELSE agent
    /\ IF stage = "creating" /\ action.session = c.session THEN Leave ELSE UNCHANGED queueVars
    /\ UNCHANGED <<sessionVars, draftVars, historyVars, deferred, wireVars, told, store, crossed,
                   tries, used>>

-----------------------------------------------------------------------------
(* LiveCompositionController: the session and the agent session *)

\* Mutated: the creation of the former session stays the shared one.
AttachKeepsSetup ==
    /\ Spend("session")
    /\ setupGeneration' = setupGeneration + 1
    /\ live' = setupGeneration'
    /\ draftId' = None /\ generation' = None
    /\ told' = None
    /\ \/ /\ agent' = "none"
          /\ UNCHANGED creationVars
       \/ /\ agent' = "ensuring"
          /\ setup' = live' /\ creates' = creates \union {Creation(live', Screen)}
    /\ UNCHANGED <<historyVars, queueVars, deferred, wireVars, store, crossed, tries>>

\* enable, renewCredentials: the screen stays; the agent session, where the host
\* has one, asks for the draft at once.
AttachLiveSession ==
    /\ Spend("session")
    /\ setupGeneration' = setupGeneration + 1
    /\ live' = setupGeneration'
    /\ draftId' = None /\ generation' = None
    /\ told' = None
    /\ \/ /\ agent' = "none"
          /\ setup' = None /\ UNCHANGED creates
       \/ /\ agent' = "ensuring"
          /\ setup' = live' /\ creates' = creates \union {Creation(live', Screen)}
    /\ UNCHANGED <<historyVars, queueVars, deferred, wireVars, store, crossed, tries>>

\* The revisions after the reducer took the calls, one after the other.
Landed(us, calls) ==
    LET landed[n \in 0..Len(calls)] ==
            IF n = 0 THEN us
            ELSE IF Valid(Last(landed[n - 1]), calls[n].command)
            THEN Append(landed[n - 1], Applied(Last(landed[n - 1]), calls[n].command))
            ELSE landed[n - 1]
    IN  landed[Len(calls)]

\* The reducer takes the controls that were waiting.
DetachLiveSession ==
    /\ setupGeneration' = setupGeneration + 1
    /\ live' = None
    /\ setup' = None
    /\ draftId' = None /\ generation' = None
    /\ agent' = "none" /\ told' = None
    /\ undo' = Landed(undo, deferred)
    /\ redo' = IF Landed(undo, deferred) = undo THEN redo ELSE <<>>
    /\ tries' = [id \in DOMAIN tries |->
                   IF \E i \in DOMAIN deferred : deferred[i].id = id THEN tries[id] + 1 ELSE tries[id]]
    /\ deferred' = <<>>
    /\ UNCHANGED <<creates, queueVars, wireVars, store, crossed>>

Disable ==
    /\ Spend("session")
    /\ live # None
    /\ DetachLiveSession

\* The agent session could not get its draft: the host goes back to fixtures.
AgentSetupFails ==
    /\ agent = "failed"
    /\ DetachLiveSession
    /\ UNCHANGED used

\* A tool of the agent session changes the draft; its result is reported later.
AgentAdds(l) ==
    /\ Spend("disturbance")
    /\ agent = "attached" /\ told = None
    /\ l \notin Last(store[draftId]).layers
    /\ store' = [store EXCEPT ![draftId] = Append(@, WithLayer(Last(@), l))]
    /\ told' = [id |-> draftId, generation |-> Len(store[draftId]) + 1, body |-> Last(store'[draftId])]
    /\ UNCHANGED <<sessionVars, draftVars, creationVars, historyVars, queueVars, deferred, wireVars,
                   agent, crossed, tries>>

\* acceptServerDraft
AcceptServerDraft ==
    /\ told # None
    /\ draftId' = told.id /\ generation' = told.generation
    /\ Show(told.body)
    /\ told' = None
    /\ UNCHANGED <<sessionVars, creationVars, queueVars, deferred, wireVars, agent, store, crossed,
                   tries, used>>

-----------------------------------------------------------------------------
(* The server and the network *)

Refusal(conflict) == [ok |-> FALSE, conflict |-> conflict]

\* A tool validates against the stored body and writes the block it is about.
ServerApplied(b, c) ==
    LET s == Applied(FromBody(b, Empty), c)
    IN  [layers |-> s.layers,
         controls |-> IF c.op \in {"addControl", "removeControl"} THEN s.controls ELSE b.controls]

ServerCreates(c) ==
    /\ c \in creates /\ c.reply = None
    /\ store' = Append(store, <<c.body>>)
    /\ creates' = (creates \ {c})
                      \union {[c EXCEPT !.reply = [ok |-> TRUE, draft |-> [id |-> Len(store) + 1,
                                                       generation |-> 1, body |-> c.body]]]}
    /\ UNCHANGED <<sessionVars, draftVars, setup, historyVars, queueVars, deferred, wireVars,
                   agentVars, crossed, tries, used>>

Unanswered == request # None /\ reply = None

ServerReads ==
    /\ Unanswered /\ request.op = "get"
    /\ reply' = [ok |-> TRUE, draft |-> Read(request.id)]
    /\ UNCHANGED <<sessionVars, draftVars, creationVars, historyVars, queueVars, deferred, request,
                   agentVars, store, crossed, tries, used>>

ServerRuns ==
    /\ Unanswered /\ request.op = "tool"
    /\ LET b == Last(store[request.id])
       IN  IF request.generation # Len(store[request.id])
           THEN reply' = Refusal(TRUE) /\ UNCHANGED store
           ELSE IF ~Valid(FromBody(b, Empty), request.command)
           THEN reply' = Refusal(FALSE) /\ UNCHANGED store
           ELSE /\ store' = [store EXCEPT ![request.id] = Append(@, ServerApplied(b, request.command))]
                /\ reply' = [ok |-> TRUE,
                             draft |-> [id |-> request.id, generation |-> request.generation + 1,
                                        body |-> ServerApplied(b, request.command)]]
    /\ UNCHANGED <<sessionVars, draftVars, creationVars, historyVars, queueVars, deferred, request,
                   agentVars, crossed, tries, used>>

\* The request or its answer is lost: the client sees a failure either way.
LoseMessage ==
    /\ Spend("disturbance")
    /\ Unanswered \/ Answered
    /\ reply' = Refusal(FALSE)
    /\ UNCHANGED <<sessionVars, draftVars, creationVars, historyVars, queueVars, deferred, request,
                   agentVars, store, crossed, tries>>

LoseCreation(c) ==
    /\ Spend("disturbance")
    /\ c \in creates
    /\ c.reply # None => c.reply.ok
    /\ creates' = (creates \ {c}) \union {[c EXCEPT !.reply = Refusal(FALSE)]}
    /\ UNCHANGED <<sessionVars, draftVars, setup, historyVars, queueVars, deferred, wireVars,
                   agentVars, store, crossed, tries>>

\* Another MCP client adds a layer to a draft.
OtherAdds(d, l) ==
    /\ Spend("disturbance")
    /\ l \notin Last(store[d]).layers
    /\ store' = [store EXCEPT ![d] = Append(@, WithLayer(Last(@), l))]
    /\ UNCHANGED <<sessionVars, draftVars, creationVars, historyVars, queueVars, deferred, wireVars,
                   agentVars, crossed, tries>>

-----------------------------------------------------------------------------
\* Before a session is attached the host may have tried a layer and undone it.
Init ==
    /\ live = None /\ setupGeneration = 0
    /\ setup = None /\ creates = {}
    /\ draftId = None /\ generation = None
    /\ undo = <<Empty>>
    /\ redo \in {<<>>} \union {<<[Empty EXCEPT !.layers = {l}]>> : l \in Undone}
    /\ queue = <<>> /\ stage = "idle" /\ action = None
    /\ deferred = <<>>
    /\ request = None /\ reply = None
    /\ agent = "none" /\ told = None
    /\ store = <<>>
    /\ crossed = FALSE
    /\ tries = [id \in 1..Budget["call"] |-> 0]
    /\ used = [op \in Operations |-> 0]

\* The chat, the shell and the host
Use ==
    \/ \E c \in Commands : QueueCall(c) \/ ApplyLocal(c)
    \/ \E n \in Notes : Annotate(n)
    \/ \E direction \in {"undo", "redo"} : QueueHistory(direction)
    \/ AttachLiveSession
    \/ Disable

\* What runs as soon as the promise it awaits settles.
Run ==
    \/ RejectCall
    \/ StartCall
    \/ FinishCall
    \/ ConflictCall
    \/ FinishRefresh
    \/ FailCall
    \/ MoveLocally
    \/ StartHistory
    \/ MoveUnseen
    \/ SendInverse
    \/ AbandonHistory
    \/ FinishHistory
    \/ \E c \in creates : CreateAdopted(c) \/ CreateRejected(c)
    \/ AgentSetupFails
    \/ AcceptServerDraft

Respond ==
    \/ ServerReads
    \/ ServerRuns
    \/ \E c \in creates : ServerCreates(c)

Others ==
    \/ \E l \in Layers : AgentAdds(l)
    \/ LoseMessage
    \/ \E c \in creates : LoseCreation(c)
    \/ \E d \in 1..Len(store), l \in Layers : OtherAdds(d, l)

Next == Use \/ Run \/ Respond \/ Others

Spec == Init /\ [][Next]_vars

\* Promises run whenever they can, and every request settles.
FairSpec == Spec /\ WF_vars(Run) /\ WF_vars(Respond)

-----------------------------------------------------------------------------
(* What holds in every reachable state *)

Sessions == Nat \ {0}

Tasks ==
    [kind : {"call"}, id : Nat, command : Commands]
        \union [kind : {"history"}, direction : {"undo", "redo"}]

Calls == [kind : {"call"}, id : Nat, command : Commands]

Captures == [session : Sessions] \union [session : Sessions, before : Seq(State), target : State]

Requests ==
    [op : {"get"}, id : Nat]
        \union [op : {"tool"}, id : Nat, generation : Nat, command : Commands]

Replies == [ok : {TRUE}, draft : Draft] \union [ok : {FALSE}, conflict : BOOLEAN]

Creations == [session : Sessions, body : Body, reply : Replies \union {None}]

\* None is not a session, a draft id, a message or a draft, nor Unset a block.
ASSUME NoneAssumption == None \notin Nat \union Requests \union Replies \union Draft
ASSUME UnsetAssumption == \A block \in SUBSET Controls : block # Unset

\* Every variable holds what the code can put there; there is always a current
\* revision, and what the head of the queue awaits is on the wire.
TypeOK ==
    /\ live \in {None, setupGeneration} /\ setupGeneration \in Nat
    /\ setup \in {None, live} /\ creates \subseteq Creations
    /\ draftId \in Nat \union {None} /\ generation \in Nat \union {None}
    /\ undo \in Seq(State) /\ undo # <<>> /\ redo \in Seq(State)
    /\ queue \in Seq(Tasks)
    /\ stage \in {"idle", "creating", "calling", "refreshing", "reading", "inverting"}
    /\ action \in Captures \union {None}
    /\ deferred \in Seq(Calls)
    /\ request \in Requests \union {None} /\ reply \in Replies \union {None}
    /\ request # None <=> stage \in {"calling", "refreshing", "reading", "inverting"}
    /\ agent \in {"none", "ensuring", "attached", "failed"}
    /\ told \in Draft \union {None}
    /\ store \in Seq(Seq(Body))
    /\ crossed \in BOOLEAN
    /\ tries \in [1..Budget["call"] -> Nat]
    /\ used \in [Operations -> Nat]

\* The screen shows all that the session's draft says at the generation the next
\* call will name; a block it never had says nothing.
ShowsDraft ==
    live # None /\ draftId # None
    => /\ generation \in 1..Len(store[draftId])
       /\ FromBody(store[draftId][generation], Screen) = Screen

\* With a draft, the screen is what the server stored at the recorded generation:
\* after calls, undo and redo, conflicts, lost answers, agent tools and other
\* clients, as long as no answer arrived in another session than asked for it.
ScreenIsDraft == ~crossed => ShowsDraft

\* The creation in flight for the attached session is the one everybody shares,
\* and there is no draft yet: a session never makes a second one beside it.
OneCreation ==
    \A c \in creates : c.session = live => setup = live /\ draftId = None

\* A call is sent to the server or applied here at most once: neither a conflict
\* nor a control that waited for its layer makes it happen again.
TriedOnce == \A id \in DOMAIN tries : tries[id] <= 1

\* Neither is repeated, in states of the types above (#ensureDraft, #flushDeferred).
OnceEach == TypeOK /\ OneCreation /\ TriedOnce

\* Every queued call and history action settles: a session that is replaced while
\* its draft is being created leaves nobody waiting.
CallsSettle == queue # <<>> ~> queue = <<>>

=============================================================================
