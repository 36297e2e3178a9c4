----------------------------- MODULE DraftSync ------------------------------
(***************************************************************************)
(* CompositionHistory wired to a DraftSync (composition/history.ts): every *)
(* local edit, undo and redo is persisted to one server draft through a    *)
(* single-flight loop that coalesces what arrives while a request is out.  *)
(*                                                                         *)
(* The interleavings are those of promises: each action runs to the next   *)
(* await, and between any two of them the user edits, another caller of    *)
(* the same DraftSync applies a state, another session writes the draft or *)
(* the network loses a request.  resetBaseline and replaceState, which do  *)
(* not sync, are in WorkspaceDraft.                                        *)
(***************************************************************************)
EXTENDS Naturals, Sequences, SequencesExt

CONSTANTS
    Edits,          \* what an edit makes of the composition
    Additions,      \* what other sessions add to it
    None,           \* no draft, no state, no request, no reply
    MaxRevisions,   \* options.maxRevisions
    Budget          \* how often each operation may happen: the bound of a run

\* What is bounded: changes of the local history (an edit, an undo, a redo), direct
\* applies, reconciliations, writes of another session and lost messages.
Operations == {"history", "direct", "reconcile", "other", "lose"}

ASSUME BudgetAssumption == Budget \in [Operations -> Nat]
ASSUME RevisionsAssumption == MaxRevisions \in Nat \ {0}

VARIABLES
    strategy,           \* "refuse" or "rebase": was a rebase option given?
    undo,               \* history.#undoStack
    redo,               \* history.#redoStack
    chain,              \* history.#pendingSync: the states still to be synced
    awaiting,           \* the head of the chain awaits DraftSync.apply
    syncError,          \* history.#syncError is set
    reconciling,        \* where history.reconcile stands
    draft,              \* sync.#draft
    pending,            \* sync.#pendingState
    loop,               \* what sync.#flushLoop awaits
    sending,            \* the state #flushOnce was called with
    completed,          \* the loop has a result
    needsReconciliation,
    automaticRebase,
    request,            \* the request on the wire
    reply,              \* and its answer
    store,              \* the server's drafts, each the sequence of its revisions
    late,               \* writes whose client gave up, still to land
    intent,             \* the state last handed to DraftSync.apply
    used                \* operations spent of Budget

historyVars == <<undo, redo, reconciling>>
chainVars == <<chain, awaiting, syncError>>
conflictVars == <<needsReconciliation, automaticRebase>>
loopVars == <<loop, sending, completed>>
wireVars == <<request, reply>>
serverVars == <<store, late>>
vars == <<strategy, historyVars, chainVars, draft, pending, intent, loopVars, conflictVars,
          wireVars, serverVars, used>>

-----------------------------------------------------------------------------
(* Data *)

State == [edit : Edits, others : SUBSET Additions]

ASSUME NoneIsNoState == None \notin State

\* The id of a draft is its place in the store, its generation the number of
\* its revisions.
Draft == [id : Nat, generation : Nat, body : State]

Read(d) == [id |-> d, generation |-> Len(store[d]), body |-> Last(store[d])]

\* A host's rebase or resolve keeps the local edit and what others added.
Merged(local, server) == [local EXCEPT !.others = @ \union server.others]

Creates == [op : {"create"}, body : State]
Gets == [op : {"get"}, id : Nat]
Replaces == [op : {"replace"}, id : Nat, generation : Nat, body : State]
Writes == Creates \union Replaces
Requests == Writes \union Gets

Replies == [ok : {TRUE}, draft : Draft] \union [ok : {FALSE}, conflict : BOOLEAN]

Spend(op) == used[op] < Budget[op] /\ used' = [used EXCEPT ![op] = @ + 1]

Current == Last(undo)

\* Mutated: maxRevisions is not enforced.
Unbounded(stack) == stack

\* #pushRevision drops the oldest revisions beyond maxRevisions.
Bounded(stack) ==
    IF Len(stack) > MaxRevisions
    THEN SubSeq(stack, Len(stack) - MaxRevisions + 1, Len(stack)) ELSE stack

Send(r) == request' = r /\ reply' = None

Answered == reply # None /\ reply.ok
Conflicted == reply # None /\ ~reply.ok /\ reply.conflict
Broken == reply # None /\ ~reply.ok /\ ~reply.conflict

Hangup == request' = None /\ reply' = None

-----------------------------------------------------------------------------
(* CompositionHistory: synchronous over local state, syncing behind it *)

\* apply, after the reducer accepted the command
Edit(e) ==
    /\ Spend("history")
    /\ reconciling = "no"
    /\ undo' = Bounded(Append(undo, [Current EXCEPT !.edit = e]))
    /\ redo' = <<>>
    /\ chain' = Append(chain, [Current EXCEPT !.edit = e])
    /\ UNCHANGED <<strategy, reconciling, awaiting, syncError, draft, pending, intent, loopVars,
                   conflictVars, wireVars, serverVars>>

Undo ==
    /\ Spend("history")
    /\ reconciling = "no"
    /\ Len(undo) > 1
    /\ undo' = Front(undo)
    /\ redo' = Append(redo, Current)
    /\ chain' = Append(chain, Last(Front(undo)))
    /\ UNCHANGED <<strategy, reconciling, awaiting, syncError, draft, pending, intent, loopVars,
                   conflictVars, wireVars, serverVars>>

Redo ==
    /\ Spend("history")
    /\ reconciling = "no"
    /\ redo # <<>>
    /\ undo' = Append(undo, Last(redo))
    /\ redo' = Front(redo)
    /\ chain' = Append(chain, Last(redo))
    /\ UNCHANGED <<strategy, reconciling, awaiting, syncError, draft, pending, intent, loopVars,
                   conflictVars, wireVars, serverVars>>

\* reconcile blocks edits at once and first awaits the chain.
Reconcile ==
    /\ Spend("reconcile")
    /\ reconciling = "no"
    /\ reconciling' = "flushing"
    /\ UNCHANGED <<strategy, undo, redo, chainVars, draft, pending, intent, loopVars,
                   conflictVars, wireVars, serverVars>>

-----------------------------------------------------------------------------
(* DraftSync.apply *)

Blocked == needsReconciliation /\ ~automaticRebase

\* The state becomes the pending intent; a loop starts unless one is running,
\* or has settled and not yet cleared #flushLoop.
Intend(s) ==
    /\ pending' = s
    /\ intent' = s
    /\ IF loop = "none" THEN loop' = "tick" /\ completed' = FALSE
       ELSE UNCHANGED <<loop, completed>>

\* #sync: the head of the chain calls apply once everything before it settled.
StartSync ==
    /\ chain # <<>> /\ ~awaiting
    /\ IF Blocked
       THEN /\ chain' = Tail(chain) /\ syncError' = TRUE
            /\ UNCHANGED <<awaiting, pending, intent, loop, completed>>
       ELSE /\ awaiting' = TRUE
            /\ Intend(Head(chain))
            /\ UNCHANGED <<chain, syncError>>
    /\ UNCHANGED <<strategy, historyVars, draft, sending, conflictVars, wireVars, serverVars, used>>

\* Any other holder of the DraftSync applies an edit of what it sees; it is told
\* to wait for a reconciliation to be adopted.
DirectApply(e) ==
    /\ Spend("direct")
    /\ reconciling = "no"
    /\ ~Blocked
    /\ Intend([Current EXCEPT !.edit = e])
    /\ UNCHANGED <<strategy, historyVars, chainVars, draft, sending, conflictVars, wireVars, serverVars>>

-----------------------------------------------------------------------------
(* #runFlushLoop, #flushOnce and #reloadAndRebase *)

\* One tick later the pending state is taken and sent, rebased first when a
\* conflict of this loop asked for it.
Flush ==
    /\ loop = "tick" /\ pending # None
    /\ pending' = None
    /\ sending' = IF automaticRebase /\ strategy = "rebase" /\ draft # None
                  THEN Merged(pending, draft.body) ELSE pending
    /\ Send(IF draft = None THEN [op |-> "create", body |-> sending']
            ELSE [op |-> "replace", id |-> draft.id, generation |-> draft.generation,
                  body |-> sending'])
    /\ loop' = "write"
    /\ UNCHANGED <<strategy, historyVars, chainVars, draft, intent, completed, conflictVars,
                   serverVars, used>>

\* With nothing pending the loop is over; without a result that is a bug.
EndLoop ==
    /\ loop = "tick" /\ pending = None
    /\ loop' = IF completed THEN "resolved" ELSE "rejected"
    /\ UNCHANGED <<strategy, historyVars, chainVars, draft, pending, intent, sending, completed,
                   conflictVars, wireVars, serverVars, used>>

\* Mutated: the accepted state is remembered under the generation it replaced.
AcceptedKeepsGeneration ==
    /\ loop = "write" /\ Answered
    /\ draft' = IF draft = None THEN reply.draft ELSE [draft EXCEPT !.body = sending]
    /\ needsReconciliation' = IF request.op = "replace" THEN FALSE ELSE needsReconciliation
    /\ completed' = TRUE
    /\ loop' = "tick"
    /\ Hangup
    /\ UNCHANGED <<strategy, historyVars, chainVars, pending, intent, sending, automaticRebase,
                   serverVars, used>>

Accepted ==
    /\ loop = "write" /\ Answered
    /\ draft' = reply.draft
    /\ needsReconciliation' = IF request.op = "replace" THEN FALSE ELSE needsReconciliation
    /\ completed' = TRUE
    /\ loop' = "tick"
    /\ Hangup
    /\ UNCHANGED <<strategy, historyVars, chainVars, pending, intent, sending, automaticRebase,
                   serverVars, used>>

\* Mutated: writes stay allowed while the server is read again.
ConflictUnblocked ==
    /\ loop = "write" /\ Conflicted
    /\ automaticRebase' = (strategy = "rebase")
    /\ loop' = "reload"
    /\ Send([op |-> "get", id |-> draft.id])
    /\ UNCHANGED <<strategy, historyVars, chainVars, draft, pending, intent, sending, completed,
                   needsReconciliation, serverVars, used>>

Conflict ==
    /\ loop = "write" /\ Conflicted
    /\ needsReconciliation' = TRUE
    /\ automaticRebase' = (strategy = "rebase")
    /\ loop' = "reload"
    /\ Send([op |-> "get", id |-> draft.id])
    /\ UNCHANGED <<strategy, historyVars, chainVars, draft, pending, intent, sending, completed,
                   serverVars, used>>

\* Mutated: the refused state is queued again over what arrived meanwhile.
ReloadedOverPending ==
    /\ loop = "reload" /\ Answered
    /\ draft' = reply.draft
    /\ IF strategy = "refuse"
       THEN pending' = None /\ loop' = "rejected" /\ UNCHANGED completed
       ELSE pending' = sending /\ loop' = "tick" /\ completed' = TRUE
    /\ Hangup
    /\ UNCHANGED <<strategy, historyVars, chainVars, intent, sending, conflictVars, serverVars, used>>

\* Mutated: the refused state is not queued again.
ReloadedForgets ==
    /\ loop = "reload" /\ Answered
    /\ draft' = reply.draft
    /\ IF strategy = "refuse"
       THEN pending' = None /\ loop' = "rejected"
       ELSE loop' = "tick" /\ UNCHANGED pending
    /\ Hangup
    /\ UNCHANGED <<strategy, historyVars, chainVars, intent, sending, completed, conflictVars,
                   serverVars, used>>

\* The server's draft is adopted as the base of the next write.  Without a
\* strategy every queued state is discarded and the loop rejects; with one the
\* refused state is queued again behind whatever arrived meanwhile.
Reloaded ==
    /\ loop = "reload" /\ Answered
    /\ draft' = reply.draft
    /\ IF strategy = "refuse"
       THEN pending' = None /\ loop' = "rejected" /\ UNCHANGED completed
       ELSE /\ pending' = IF pending = None THEN sending ELSE pending
            /\ loop' = "tick" /\ completed' = TRUE
    /\ Hangup
    /\ UNCHANGED <<strategy, historyVars, chainVars, intent, sending, conflictVars, serverVars, used>>

FlushFails ==
    /\ loop \in {"write", "reload"}
    /\ Broken
    /\ loop' = "rejected"
    /\ Hangup
    /\ UNCHANGED <<strategy, historyVars, chainVars, draft, pending, intent, sending, completed,
                   conflictVars, serverVars, used>>

\* Mutated: a settled loop is never cleared after a failure.
CloseLoopOnSuccess ==
    /\ loop = "resolved"
    /\ loop' = "none"
    /\ automaticRebase' = FALSE
    /\ IF awaiting
       THEN awaiting' = FALSE /\ chain' = Tail(chain) /\ syncError' = (loop = "rejected")
       ELSE UNCHANGED chainVars
    /\ UNCHANGED <<strategy, historyVars, draft, pending, intent, sending, completed,
                   needsReconciliation, wireVars, serverVars, used>>

\* apply's finally, and the callers that shared the loop: the head of the chain
\* records how it ended.
CloseLoop ==
    /\ loop \in {"resolved", "rejected"}
    /\ loop' = "none"
    /\ automaticRebase' = FALSE
    /\ IF awaiting
       THEN awaiting' = FALSE /\ chain' = Tail(chain) /\ syncError' = (loop = "rejected")
       ELSE UNCHANGED chainVars
    /\ UNCHANGED <<strategy, historyVars, draft, pending, intent, sending, completed,
                   needsReconciliation, wireVars, serverVars, used>>

-----------------------------------------------------------------------------
(* History.reconcile and #reconcileWithServer *)

ReconcileRefused ==
    /\ reconciling = "flushing" /\ chain = <<>>
    /\ ~needsReconciliation \/ loop # "none" \/ draft = None
    /\ reconciling' = "no"
    /\ syncError' = TRUE
    /\ UNCHANGED <<strategy, undo, redo, chain, awaiting, draft, pending, intent, loopVars,
                   conflictVars, wireVars, serverVars, used>>

ReconcileStarts ==
    /\ reconciling = "flushing" /\ chain = <<>>
    /\ needsReconciliation /\ loop = "none" /\ draft # None
    /\ reconciling' = "reading"
    /\ loop' = "reconcile"
    /\ Send([op |-> "get", id |-> draft.id])
    /\ UNCHANGED <<strategy, undo, redo, chainVars, draft, pending, intent, sending, completed,
                   conflictVars, serverVars, used>>

\* The write names the generation just read, not the one the draft was left at.
ReconcileWrites ==
    /\ reconciling = "reading" /\ Answered
    /\ reconciling' = "writing"
    /\ Send([op |-> "replace", id |-> reply.draft.id, generation |-> reply.draft.generation,
             body |-> Merged(Current, reply.draft.body)])
    /\ UNCHANGED <<strategy, undo, redo, chainVars, draft, pending, intent, loopVars,
                   conflictVars, serverVars, used>>

ReconcileLands ==
    /\ reconciling = "writing" /\ Answered
    /\ reconciling' = "adopting"
    /\ draft' = reply.draft
    /\ needsReconciliation' = FALSE
    /\ Hangup
    /\ UNCHANGED <<strategy, undo, redo, chainVars, pending, intent, loopVars, automaticRebase,
                   serverVars, used>>

\* The accepted snapshot replaces the history, stale undo targets included.
ReconcileAdopts ==
    /\ reconciling = "adopting"
    /\ reconciling' = "no"
    /\ loop' = "none"
    /\ undo' = <<draft.body>>
    /\ redo' = <<>>
    /\ syncError' = FALSE
    /\ UNCHANGED <<strategy, chain, awaiting, draft, pending, intent, sending, completed,
                   conflictVars, wireVars, serverVars, used>>

\* Mutated: a reconciliation that failed keeps blocking edits.
ReconcileFailsBlocked ==
    /\ reconciling \in {"reading", "writing"}
    /\ Conflicted \/ Broken
    /\ loop' = "none"
    /\ syncError' = TRUE
    /\ Hangup
    /\ UNCHANGED <<strategy, undo, redo, reconciling, chain, awaiting, draft, pending, intent, sending,
                   completed, conflictVars, serverVars, used>>

\* A failed read or a write that lost its race leaves the conflict standing.
ReconcileFails ==
    /\ reconciling \in {"reading", "writing"}
    /\ Conflicted \/ Broken
    /\ reconciling' = "no"
    /\ loop' = "none"
    /\ syncError' = TRUE
    /\ Hangup
    /\ UNCHANGED <<strategy, undo, redo, chain, awaiting, draft, pending, intent, sending, completed,
                   conflictVars, serverVars, used>>

-----------------------------------------------------------------------------
(* The store and the network *)

Exists(d) == d \in 1..Len(store)

Accepts(r) ==
    r.op = "create" \/ (Exists(r.id) /\ r.generation = Len(store[r.id]))

Stored(r) ==
    IF r.op = "create" THEN Append(store, <<r.body>>)
    ELSE [store EXCEPT ![r.id] = Append(@, r.body)]

Refusal(conflict) == [ok |-> FALSE, conflict |-> conflict]

Reached(r) == [ok |-> TRUE,
               draft |-> [id |-> IF r.op = "create" THEN Len(store) + 1 ELSE r.id,
                          generation |-> IF r.op = "create" THEN 1 ELSE Len(store[r.id]) + 1,
                          body |-> r.body]]

Unanswered == request # None /\ reply = None

ServerGet ==
    /\ Unanswered /\ request.op = "get"
    /\ reply' = IF Exists(request.id) THEN [ok |-> TRUE, draft |-> Read(request.id)]
                ELSE Refusal(FALSE)
    /\ UNCHANGED <<strategy, historyVars, chainVars, draft, pending, intent, loopVars,
                   conflictVars, request, serverVars, used>>

ServerWrite ==
    /\ Unanswered /\ request.op # "get"
    /\ IF Accepts(request)
       THEN store' = Stored(request) /\ reply' = Reached(request)
       ELSE UNCHANGED store /\ reply' = Refusal(TRUE)
    /\ UNCHANGED <<strategy, historyVars, chainVars, draft, pending, intent, loopVars,
                   conflictVars, request, late, used>>

\* The client sees a failure: the request never arrived, its answer was lost,
\* or the write is still under way.
LoseRequest ==
    /\ Spend("lose")
    /\ Unanswered
    /\ reply' = Refusal(FALSE)
    /\ late' \in {late, IF request.op = "get" THEN late ELSE late \union {request}}
    /\ UNCHANGED <<strategy, historyVars, chainVars, draft, pending, intent, loopVars,
                   conflictVars, request, store>>

LoseReply ==
    /\ Spend("lose")
    /\ Answered
    /\ reply' = Refusal(FALSE)
    /\ UNCHANGED <<strategy, historyVars, chainVars, draft, pending, intent, loopVars,
                   conflictVars, request, serverVars>>

LateWrite ==
    \E r \in late :
        /\ late' = late \ {r}
        /\ store' = IF Accepts(r) THEN Stored(r) ELSE store
        /\ UNCHANGED <<strategy, historyVars, chainVars, draft, pending, intent, loopVars,
                       conflictVars, wireVars, used>>

\* Another session adds to a draft what it does not hold yet.
OtherAdds(d, e) ==
    /\ Spend("other")
    /\ Exists(d) /\ e \notin Last(store[d]).others
    /\ store' = [store EXCEPT ![d] = Append(@, [Last(store[d]) EXCEPT !.others = @ \union {e}])]
    /\ UNCHANGED <<strategy, historyVars, chainVars, draft, pending, intent, loopVars,
                   conflictVars, wireVars, late>>

-----------------------------------------------------------------------------
Init ==
    /\ strategy \in {"refuse", "rebase"}
    /\ undo \in {<<[edit |-> e, others |-> {}]>> : e \in Edits}
    /\ redo = <<>>
    /\ chain = <<>> /\ awaiting = FALSE /\ syncError = FALSE /\ reconciling = "no"
    /\ draft = None /\ pending = None /\ intent = None
    /\ loop = "none" /\ sending = None /\ completed = FALSE
    /\ needsReconciliation = FALSE /\ automaticRebase = FALSE
    /\ request = None /\ reply = None
    /\ store = <<>> /\ late = {}
    /\ used = [op \in Operations |-> 0]

Call ==
    \/ \E e \in Edits : Edit(e)
    \/ Undo
    \/ Redo
    \/ Reconcile
    \/ \E e \in Edits : DirectApply(e)

\* What runs as soon as the promise it awaits settles.
Run ==
    \/ StartSync
    \/ Flush
    \/ EndLoop
    \/ Accepted
    \/ Conflict
    \/ Reloaded
    \/ FlushFails
    \/ CloseLoop
    \/ ReconcileRefused
    \/ ReconcileStarts
    \/ ReconcileWrites
    \/ ReconcileLands
    \/ ReconcileAdopts
    \/ ReconcileFails

Respond == ServerGet \/ ServerWrite

Network ==
    \/ LoseRequest
    \/ LoseReply
    \/ LateWrite
    \/ \E d \in 1..Len(store), e \in Additions : OtherAdds(d, e)

Next == Call \/ Run \/ Respond \/ Network

Spec == Init /\ [][Next]_vars

\* Promises run whenever they can, and every request settles.
FairSpec == Spec /\ WF_vars(Run) /\ WF_vars(Respond)

-----------------------------------------------------------------------------
(* Type correctness *)

\* Every variable holds what the code can put there, and the undo stack keeps
\* at least one revision and at most maxRevisions.
TypeOK ==
    /\ strategy \in {"refuse", "rebase"}
    /\ undo \in Seq(State) /\ Len(undo) \in 1..MaxRevisions
    /\ redo \in Seq(State)
    /\ chain \in Seq(State)
    /\ awaiting \in BOOLEAN /\ syncError \in BOOLEAN
    /\ reconciling \in {"no", "flushing", "reading", "writing", "adopting"}
    /\ draft \in Draft \union {None}
    /\ pending \in State \union {None}
    /\ intent \in State \union {None}
    /\ loop \in {"none", "tick", "write", "reload", "resolved", "rejected", "reconcile"}
    /\ sending \in State \union {None}
    /\ completed \in BOOLEAN
    /\ needsReconciliation \in BOOLEAN /\ automaticRebase \in BOOLEAN
    /\ request \in Requests \union {None}
    /\ reply \in Replies \union {None}
    /\ store \in Seq(Seq(State))
    /\ late \subseteq Writes
    /\ used \in [Operations -> Nat]

-----------------------------------------------------------------------------
(* What DraftSync promises *)

\* The drafts on the server evolve as ReconciledDrafts says: without a rebase
\* strategy no write of this session drops what another session added, however
\* edits, undos, reconciliations, lost and late requests interleave.
Promise == INSTANCE ReconciledDrafts
             WITH Edits <- Edits, Additions <- Additions, strategy <- strategy, store <- store
Implements == Promise!Spec

\* A loop that resolves with nothing left behind has saved the state it was
\* last asked to save, not an older one that was refused and queued again.
LatestIntentSaved ==
    [][loop = "resolved" /\ loop' = "none" /\ pending = None
       => draft.body.edit = intent.edit]_vars

\* The client's copy of the draft is a revision the server accepted: the next
\* write is checked against what the client has really seen.
Served(d) ==
    /\ d.id \in 1..Len(store)
    /\ d.generation \in 1..Len(store[d.id])
    /\ d.body = store[d.id][d.generation]

DraftWasServed == draft # None => Served(draft)

\* The next write is about a served revision and the next undo about one of the
\* last MaxRevisions states: the undo stack is bounded and never empty.
HoldsServedDraft == TypeOK /\ DraftWasServed

\* With a rebase strategy too, what another session added to the draft stays in
\* every later revision of it.
AdditionsSurvive ==
    \A d \in 1..Len(store) : \A g \in 1 .. Len(store[d]) - 1 :
        store[d][g].others \subseteq store[d][g + 1].others

\* A loop that has nothing pending always has a result to return.
LoopHasResult == loop = "tick" /\ pending = None => completed

\* Every sync the history fired settles: flush returns.
FlushReturns == chain # <<>> ~> chain = <<>>

\* A reconciliation ends, and edits are possible again.
ReconcileEnds == reconciling # "no" ~> reconciling = "no"

\* Both, and the loop that the callers share never ends without an answer for
\* them (#flushPending, flush, reconcile).
EverySyncSettles == FlushReturns /\ ReconcileEnds /\ []LoopHasResult

=============================================================================
