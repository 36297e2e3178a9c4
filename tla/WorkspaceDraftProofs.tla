------------------------ MODULE WorkspaceDraftProofs ------------------------
(***************************************************************************)
(* What holds of WorkspaceDraft for every set of drafts, layers and styles *)
(* and every budget: first what one inductive invariant shows of sessions  *)
(* and authorities, then what a workspace knows of the server draft it     *)
(* edits.                                                                  *)
(***************************************************************************)
EXTENDS WorkspaceDraft, SequenceTheorems, TLAPS

\* A queued edit, undo or redo holds a binding that was built.
HandlesBuilt ==
    \A i \in 1..Len(queue) :
        queue[i].kind # "attach" => queue[i].binding \in 1..Len(bindings)

\* One made under the current authority finds some draft attached: within one
\* authority the active binding is replaced but never given up.
CurrentTaskHasDraft ==
    \A i \in 1..Len(queue) :
        queue[i].kind # "attach" /\ queue[i].epoch = epoch => active # 0

\* No task was made under an authority that is still to come.
TasksFromThePast == \A i \in 1..Len(queue) : queue[i].epoch <= epoch

\* Only a style edit awaits the canvas, and only the head of the queue has a
\* request on the wire.
StageMatchesHead ==
    /\ stage = "canvas" => Running({"edit"}) /\ IsStyle(Task.command) /\ reply = None
    /\ request # None => queue # <<>> /\ stage = "server"
    /\ reply # None => request # None

QueueInv == HandlesBuilt /\ CurrentTaskHasDraft /\ TasksFromThePast /\ StageMatchesHead

IInv ==
    /\ TypeOK
    /\ QueueInv
    /\ AuthorityIsolated
    /\ ActiveBindingUsesCurrentAuth

-----------------------------------------------------------------------------
(* The helpers *)

\* A new composition history has one composition, and no step empties it.
LEMMA BaselineType ==
    ASSUME NEW c \in Content
    PROVE  /\ Baseline(c) \in [undo : Seq(Content), redo : Seq(Content)]
           /\ Baseline(c).undo # <<>>
  BY DEF Baseline

LEMMA EmptyContent == {} \in Content
  BY DEF Content

LEMMA TopType ==
    ASSUME NEW h \in [undo : Seq(Content), redo : Seq(Content)], h.undo # <<>>
    PROVE  Top(h) \in Content
  BY DEF Top, Last

LEMMA PushType ==
    ASSUME NEW h \in [undo : Seq(Content), redo : Seq(Content)], h.undo # <<>>,
           NEW c \in Content
    PROVE  /\ Push(h, c) \in [undo : Seq(Content), redo : Seq(Content)]
           /\ Push(h, c).undo # <<>>
  BY DEF Push

LEMMA ReplaceStateType ==
    ASSUME NEW h \in [undo : Seq(Content), redo : Seq(Content)], h.undo # <<>>,
           NEW c \in Content
    PROVE  /\ ReplaceState(h, c) \in [undo : Seq(Content), redo : Seq(Content)]
           /\ ReplaceState(h, c).undo # <<>>
  BY PushType DEF ReplaceState

LEMMA FrontType ==
    ASSUME NEW S, NEW s \in Seq(S), s # <<>>
    PROVE  /\ Front(s) \in Seq(S)
           /\ Len(s) > 1 => Front(s) # <<>>
  <1> DEFINE f == SubSeq(s, 1, Len(s) - 1)
  <1>1. Len(s) \in Nat /\ Len(s) - 1 \in Int /\ \A i \in 1 .. Len(s) - 1 : s[i] \in S
    BY ElementOfSeq, LenProperties
  <1>2. f \in Seq(S) /\ Len(f) = IF 1 <= Len(s) - 1 THEN Len(s) - 1 ELSE 0
    BY <1>1, SubSeqProperties
  <1> HIDE DEF f
  <1>3. Len(s) > 1 => Len(f) > 0
    BY <1>1, <1>2
  <1>4. Len(s) > 1 => f # <<>>
    BY <1>3
  <1> QED
    BY <1>2, <1>4 DEF Front, f

\* Undo and redo move a composition from one stack to the other.
LEMMA MovedType ==
    ASSUME NEW h \in [undo : Seq(Content), redo : Seq(Content)], h.undo # <<>>,
           NEW action
    PROVE  /\ Moved(h, action) \in [undo : Seq(Content), redo : Seq(Content)]
           /\ Moved(h, action).undo # <<>>
  <1>1. Top(h) \in Content
    BY TopType
  <1>2. Len(h.undo) > 1 => Front(h.undo) \in Seq(Content) /\ Front(h.undo) # <<>>
    BY FrontType
  <1>3. h.redo # <<>> => Front(h.redo) \in Seq(Content) /\ Last(h.redo) \in Content
    BY FrontType DEF Last
  <1>4. Undone(h) \in [undo : Seq(Content), redo : Seq(Content)] /\ Undone(h).undo # <<>>
    BY <1>1, <1>2 DEF Undone
  <1>5. Redone(h) \in [undo : Seq(Content), redo : Seq(Content)] /\ Redone(h).undo # <<>>
    BY <1>3 DEF Redone
  <1> QED
    BY <1>4, <1>5 DEF Moved

LEMMA AppliedType ==
    ASSUME NEW content \in Content, NEW c \in Commands
    PROVE  Applied(content, c) \in Content
  BY DEF Applied, Commands, WithStyle, Content

LEMMA PeekType ==
    ASSUME NEW h \in [undo : Seq(Content), redo : Seq(Content)], NEW action,
           CanMove(h, action)
    PROVE  Peek(h, action) \in Content
  BY DEF CanMove, Peek, Last

-----------------------------------------------------------------------------

\* The invariant holds before anything happened.
LEMMA InitIInv == Init => IInv
  <1> SUFFICES ASSUME Init PROVE IInv
    OBVIOUS
  <1>1. server \in [Drafts -> Seq(Revision)]
    <2>1. ASSUME NEW d \in Drafts
          PROVE  <<[content |-> {d}, by |-> "other"]>> \in Seq(Revision)
      BY DEF Revision, Content
    <2> QED
      BY <2>1 DEF Init
  <1>2. history \in [undo : Seq(Content), redo : Seq(Content)] /\ history.undo # <<>>
    BY EmptyContent, BaselineType DEF Init
  <1>3. callers \in [Callers -> [stage : {"idle", "waiting", "posted"}, binding : Nat,
                                epoch : Nat, ahead : Nat]]
    BY DEF Init, Idle
  <1>4. used \in [Operations -> Nat]
    BY DEF Init
  <1>5. bindings \in Seq(Binding) /\ active \in 0..Len(bindings) /\ queue \in Seq(Tasks)
    BY EmptySeq DEF Init
  <1>6. TypeOK
    BY <1>1, <1>2, <1>3, <1>4, <1>5 DEF Init, TypeOK
  <1> QED
    BY <1>6 DEF Init, IInv, QueueInv, HandlesBuilt, CurrentTaskHasDraft, TasksFromThePast,
                StageMatchesHead, AuthorityIsolated, ActiveBindingUsesCurrentAuth

-----------------------------------------------------------------------------
(* What the parts of a step do to the queue *)

LEMMA SpendType ==
    ASSUME used \in [Operations -> Nat], NEW op \in Operations, Spend(op)
    PROVE  used' \in [Operations -> Nat]
  BY DEF Spend

\* A task added at the tail keeps the queue sound if it holds a built binding
\* and was made under the current authority.
LEMMA EnqueueKeepsQueue ==
    ASSUME TypeOK, QueueInv, NEW task \in Tasks, Enqueue(task),
           task.epoch = epoch,
           task.kind # "attach" => active # 0 /\ task.binding \in 1..Len(bindings),
           UNCHANGED <<epoch, bindings, active, stage, request, reply>>
    PROVE  queue' \in Seq(Tasks) /\ QueueInv'
  <1>1. /\ queue \in Seq(Tasks) /\ queue' = Append(queue, task)
        /\ Len(queue) \in Nat
    BY DEF TypeOK, Enqueue
  <1>2. /\ queue' \in Seq(Tasks) /\ Len(queue') = Len(queue) + 1 /\ queue' # <<>>
        /\ \A i \in 1..Len(queue) : queue'[i] = queue[i]
        /\ queue'[Len(queue) + 1] = task
    BY <1>1
  <1>3. \A i \in 1..Len(queue') : i \in 1..Len(queue) \/ i = Len(queue) + 1
    BY <1>1, <1>2
  <1>4. epoch \in Nat
    BY DEF TypeOK
  <1>5. HandlesBuilt' /\ CurrentTaskHasDraft' /\ TasksFromThePast'
    BY <1>2, <1>3, <1>4, SMTT(30) DEF QueueInv, HandlesBuilt, CurrentTaskHasDraft, TasksFromThePast
  <1>6. StageMatchesHead'
    <2>1. queue # <<>> => Head(queue') = Head(queue)
      BY <1>1
    <2> QED
      BY <1>2, <2>1 DEF QueueInv, StageMatchesHead, Running, Task
  <1> QED
    BY <1>2, <1>5, <1>6 DEF QueueInv

\* Settling the head leaves a sound queue.
LEMMA SettleKeepsQueue ==
    ASSUME TypeOK, QueueInv, queue # <<>>, Settle, epoch' = epoch,
           bindings' \in Seq(Binding), Len(bindings) \in Nat, Len(bindings') \in Nat,
           Len(bindings) <= Len(bindings'), active # 0 => active' # 0
    PROVE  /\ queue' \in Seq(Tasks) /\ QueueInv'
           /\ stage' \in {"idle", "canvas", "server"}
           /\ request' \in Requests \union {None}
           /\ reply' \in Replies \union {None}
           /\ callers' \in [Callers -> [stage : {"idle", "waiting", "posted"}, binding : Nat,
                                        epoch : Nat, ahead : Nat]]
  <1>1. /\ queue \in Seq(Tasks) /\ queue' = Tail(queue) /\ stage' = "idle"
        /\ request' = None /\ reply' = None
    BY DEF TypeOK, Settle
  <1>2. /\ queue' \in Seq(Tasks)
        /\ Len(queue') = Len(queue) - 1
        /\ \A i \in 1..Len(queue') : queue'[i] = queue[i + 1] /\ i + 1 \in 1..Len(queue)
    BY <1>1, HeadTailProperties, LenProperties, EmptySeq
  <1>3. ASSUME NEW i \in 1..Len(queue')
        PROVE  /\ queue'[i].kind # "attach" => queue'[i].binding \in 1..Len(bindings')
               /\ queue'[i].kind # "attach" /\ queue'[i].epoch = epoch' => active' # 0
               /\ queue'[i].epoch <= epoch'
    <2>1. i + 1 \in 1..Len(queue) /\ queue'[i] = queue[i + 1]
      BY <1>2
    <2>2. queue'[i].kind # "attach" => queue'[i].binding \in 1..Len(bindings)
      BY <2>1 DEF QueueInv, HandlesBuilt
    <2>3. 1..Len(bindings) \subseteq 1..Len(bindings')
      OBVIOUS
    <2>4. queue'[i].kind # "attach" /\ queue'[i].epoch = epoch' => active' # 0
      BY <2>1 DEF QueueInv, CurrentTaskHasDraft
    <2>5. queue'[i].epoch <= epoch'
      BY <2>1 DEF QueueInv, TasksFromThePast
    <2> QED
      BY <2>2, <2>3, <2>4, <2>5
  <1>4. HandlesBuilt' /\ CurrentTaskHasDraft' /\ TasksFromThePast' /\ StageMatchesHead'
    BY <1>1, <1>3 DEF HandlesBuilt, CurrentTaskHasDraft, TasksFromThePast, StageMatchesHead
  <1>5. callers' \in [Callers -> [stage : {"idle", "waiting", "posted"}, binding : Nat,
                                  epoch : Nat, ahead : Nat]]
    <2>1. ASSUME NEW c \in Callers
          PROVE  [callers[c] EXCEPT !.ahead = IF @ > 0 THEN @ - 1 ELSE 0]
                   \in [stage : {"idle", "waiting", "posted"}, binding : Nat,
                        epoch : Nat, ahead : Nat]
      <3>1. callers[c] \in [stage : {"idle", "waiting", "posted"}, binding : Nat,
                            epoch : Nat, ahead : Nat]
        BY DEF TypeOK
      <3>2. (IF callers[c].ahead > 0 THEN callers[c].ahead - 1 ELSE 0) \in Nat
        BY <3>1
      <3> QED
        BY <3>1, <3>2
    <2> QED
      BY <2>1 DEF Settle
  <1> QED
    BY <1>1, <1>2, <1>4, <1>5 DEF QueueInv

-----------------------------------------------------------------------------
(* Steps that leave the draft and the queue alone *)

USE DEF authorityVars, serverVars, draftVars, queueVars, callerVars

\* What a step must keep when neither the draft nor the queue changes.
LEMMA QueueUntouched ==
    ASSUME QueueInv, UNCHANGED <<epoch, bindings, active, queue, stage, request, reply>>
    PROVE  QueueInv'
  BY DEF QueueInv, HandlesBuilt, CurrentTaskHasDraft, TasksFromThePast, StageMatchesHead,
         Running, Task

\* Authority and binding stay as they were when no step touches them.
LEMMA BindingUntouched ==
    ASSUME AuthorityIsolated, ActiveBindingUsesCurrentAuth,
           UNCHANGED <<epoch, auth, bindings, active, history, conflict>>
    PROVE  AuthorityIsolated' /\ ActiveBindingUsesCurrentAuth'
  BY DEF AuthorityIsolated, ActiveBindingUsesCurrentAuth

\* Refresh, turn and create wait for the queue they found.
LEMMA WaitInv ==
    ASSUME IInv, Refresh \/ PrepareTurn \/ Create
    PROVE  IInv'
  <1>1. PICK caller \in Callers : Wait(caller)
    BY DEF Refresh, PrepareTurn, Create, Callers
  <1>2. used' \in [Operations -> Nat]
    BY SpendType DEF IInv, TypeOK, Refresh, PrepareTurn, Create, Operations
  <1>3. callers' \in [Callers -> [stage : {"idle", "waiting", "posted"}, binding : Nat,
                                  epoch : Nat, ahead : Nat]]
    <2>1. active \in Nat /\ epoch \in Nat /\ Len(queue) \in Nat
      BY DEF IInv, TypeOK
    <2> QED
      BY <1>1, <2>1 DEF Wait, IInv, TypeOK
  <1>4. TypeOK'
    BY <1>1, <1>2, <1>3 DEF IInv, TypeOK, Wait
  <1> QED
    BY <1>1, <1>4, QueueUntouched, BindingUntouched DEF IInv, Wait

LEMMA ReturnType ==
    ASSUME TypeOK, NEW caller \in Callers, Return(caller)
    PROVE  callers' \in [Callers -> [stage : {"idle", "waiting", "posted"}, binding : Nat,
                                     epoch : Nat, ahead : Nat]]
  BY DEF TypeOK, Return, Idle

\* A turn resumes, a creation is posted or fails.
LEMMA ResumeInv ==
    ASSUME IInv, ResumeTurn \/ PostCreate \/ CreateFails
    PROVE  IInv'
  <1>1. callers' \in [Callers -> [stage : {"idle", "waiting", "posted"}, binding : Nat,
                                  epoch : Nat, ahead : Nat]]
    <2>1. Return("turn") \/ Return("create") =>
            callers' \in [Callers -> [stage : {"idle", "waiting", "posted"}, binding : Nat,
                                     epoch : Nat, ahead : Nat]]
      BY ReturnType DEF IInv, Callers
    <2>2. ASSUME callers' = [callers EXCEPT !["create"].stage = "posted"]
          PROVE  callers' \in [Callers -> [stage : {"idle", "waiting", "posted"}, binding : Nat,
                                          epoch : Nat, ahead : Nat]]
      BY <2>2 DEF IInv, TypeOK
    <2> QED
      BY <2>1, <2>2 DEF ResumeTurn, PostCreate, CreateFails, Return
  <1>2. turn' \in [draft : Drafts, generation : Nat] \union {None}
    <2>1. active # 0 => bindings[active] \in Binding
      BY DEF IInv, TypeOK
    <2> QED
      BY <2>1 DEF IInv, TypeOK, ResumeTurn, PostCreate, CreateFails, Binding
  <1>3. TypeOK'
    BY <1>1, <1>2 DEF IInv, TypeOK, ResumeTurn, PostCreate, CreateFails
  <1> QED
    BY <1>3, QueueUntouched, BindingUntouched DEF IInv, ResumeTurn, PostCreate, CreateFails

\* Typing into a form and settling it.
LEMMA FormInv ==
    ASSUME IInv, SettleForm \/ \E kind \in {"form", "style"} : EditForm(kind)
    PROVE  IInv'
  <1>1. used' \in [Operations -> Nat]
    BY SpendType DEF IInv, TypeOK, SettleForm, EditForm, Operations
  <1>2. TypeOK'
    BY <1>1 DEF IInv, TypeOK, SettleForm, EditForm
  <1> QED
    BY <1>2, QueueUntouched, BindingUntouched DEF IInv, SettleForm, EditForm

-----------------------------------------------------------------------------
(* Calls that queue a task *)

LEMMA DispatchInv ==
    ASSUME IInv, NEW c \in Commands, Dispatch(c)
    PROVE  IInv'
  <1> DEFINE task == [kind |-> "edit", binding |-> active, epoch |-> epoch, command |-> c]
  <1>1. active \in 1..Len(bindings) /\ active \in Nat /\ epoch \in Nat
    BY DEF IInv, TypeOK, Dispatch
  <1>2. task \in Tasks
    BY <1>1 DEF Tasks, EditTask
  <1>3. queue' \in Seq(Tasks) /\ QueueInv'
    BY <1>1, <1>2, EnqueueKeepsQueue DEF IInv, Dispatch
  <1>4. used' \in [Operations -> Nat]
    BY SpendType DEF IInv, TypeOK, Dispatch, Operations
  <1>5. TypeOK'
    BY <1>3, <1>4 DEF IInv, TypeOK, Dispatch
  <1> QED
    BY <1>3, <1>5, BindingUntouched DEF IInv, Dispatch

LEMMA AttachInv ==
    ASSUME IInv, NEW d \in Drafts, Attach(d)
    PROVE  IInv'
  <1> DEFINE task == [kind |-> "attach", draft |-> d, epoch |-> epoch, by |-> "host"]
  <1>1. task \in Tasks
    BY DEF IInv, TypeOK, Tasks, AttachTask
  <1>2. queue' \in Seq(Tasks) /\ QueueInv'
    BY <1>1, EnqueueKeepsQueue DEF IInv, Attach
  <1>3. used' \in [Operations -> Nat]
    BY SpendType DEF IInv, TypeOK, Attach, Operations
  <1>4. TypeOK'
    BY <1>2, <1>3 DEF IInv, TypeOK, Attach
  <1> QED
    BY <1>2, <1>4, BindingUntouched DEF IInv, Attach

LEMMA ApplyHistoryInv ==
    ASSUME IInv, NEW action \in {"undo", "redo"}, ApplyHistory(action)
    PROVE  IInv'
  <1> DEFINE task == [kind |-> action, binding |-> active, epoch |-> epoch,
                      target |-> Peek(history, action)]
  <1>1. active \in 1..Len(bindings) /\ active \in Nat /\ epoch \in Nat
    BY DEF IInv, TypeOK, ApplyHistory
  <1>2. Peek(history, action) \in Content
    BY PeekType DEF IInv, TypeOK, ApplyHistory
  <1>3. task \in Tasks
    BY <1>1, <1>2 DEF Tasks, HistoryTask
  <1>4. queue' \in Seq(Tasks) /\ QueueInv'
    BY <1>1, <1>3, EnqueueKeepsQueue DEF IInv, ApplyHistory
  <1>5. used' \in [Operations -> Nat]
    BY SpendType DEF IInv, TypeOK, ApplyHistory, Operations
  <1>6. TypeOK'
    BY <1>4, <1>5 DEF IInv, TypeOK, ApplyHistory
  <1> QED
    BY <1>4, <1>6, BindingUntouched DEF IInv, ApplyHistory

\* A refresh that finds its binding still active queues another read of it.
LEMMA ResumeRefreshInv ==
    ASSUME IInv, ResumeRefresh
    PROVE  IInv'
  <1> DEFINE captured == callers["refresh"].binding
             task == [kind |-> "attach", draft |-> bindings[captured].draft,
                      epoch |-> epoch, by |-> "refresh"]
  <1>1. callers' \in [Callers -> [stage : {"idle", "waiting", "posted"}, binding : Nat,
                                  epoch : Nat, ahead : Nat]]
    BY ReturnType DEF IInv, ResumeRefresh, Callers
  <1>2. queue' \in Seq(Tasks) /\ QueueInv'
    <2>1. CASE captured # 0 /\ captured = active /\ ~EditPending
      <3>1. bindings[captured] \in Binding
        BY <2>1 DEF IInv, TypeOK
      <3>2. task \in Tasks
        BY <3>1 DEF IInv, TypeOK, Tasks, AttachTask, Binding
      <3>3. Enqueue(task)
        BY <2>1 DEF ResumeRefresh
      <3> QED
        BY <3>2, <3>3, EnqueueKeepsQueue DEF IInv, ResumeRefresh
    <2>2. CASE ~(captured # 0 /\ captured = active /\ ~EditPending)
      BY <2>2, QueueUntouched DEF IInv, TypeOK, ResumeRefresh
    <2> QED
      BY <2>1, <2>2
  <1>3. TypeOK'
    BY <1>1, <1>2 DEF IInv, TypeOK, ResumeRefresh
  <1> QED
    BY <1>2, <1>3, BindingUntouched DEF IInv, ResumeRefresh

\* A created draft has one revision and is attached like any other.
LEMMA CreateAnsweredInv ==
    ASSUME IInv, NEW d \in Drafts, CreateAnswered(d)
    PROVE  IInv'
  <1> DEFINE task == [kind |-> "attach", draft |-> d, epoch |-> epoch, by |-> "create"]
  <1>1. callers' \in [Callers -> [stage : {"idle", "waiting", "posted"}, binding : Nat,
                                  epoch : Nat, ahead : Nat]]
    BY ReturnType DEF IInv, CreateAnswered, Callers
  <1>2. server' \in [Drafts -> Seq(Revision)]
    <2>1. [content |-> {}, by |-> "studio"] \in Revision
      BY EmptyContent DEF Revision
    <2>2. <<[content |-> {}, by |-> "studio"]>> \in Seq(Revision)
      BY <2>1
    <2> QED
      BY <2>2 DEF IInv, TypeOK, CreateAnswered
  <1>3. queue' \in Seq(Tasks) /\ QueueInv'
    <2>1. CASE callers["create"].epoch = epoch
      <3>1. task \in Tasks
        BY DEF IInv, TypeOK, Tasks, AttachTask
      <3>2. Enqueue(task)
        BY <2>1 DEF CreateAnswered
      <3> QED
        BY <3>1, <3>2, EnqueueKeepsQueue DEF IInv, CreateAnswered
    <2>2. CASE callers["create"].epoch # epoch
      BY <2>2, QueueUntouched DEF IInv, TypeOK, CreateAnswered
    <2> QED
      BY <2>1, <2>2
  <1>4. TypeOK'
    BY <1>1, <1>2, <1>3 DEF IInv, TypeOK, CreateAnswered
  <1> QED
    BY <1>3, <1>4, BindingUntouched DEF IInv, CreateAnswered

-----------------------------------------------------------------------------
(* The principal and the session *)

\* A sign-out detaches the draft: every queued task now belongs to the past.
LEMMA RevokeAuthorityInv ==
    ASSUME IInv, RevokeAuthority
    PROVE  IInv'
  <1>1. used' \in [Operations -> Nat]
    BY SpendType DEF IInv, TypeOK, RevokeAuthority, Operations
  <1>2. TypeOK'
    <2>1. /\ history' \in [undo : Seq(Content), redo : Seq(Content)]
          /\ history'.undo # <<>>
      BY EmptyContent, BaselineType DEF RevokeAuthority
    <2>2. active' \in 0..Len(bindings')
      BY DEF IInv, TypeOK, RevokeAuthority
    <2>3. dirty' \in {"clean", "form", "style"}
      BY DEF IInv, TypeOK, RevokeAuthority
    <2>4. epoch' \in Nat /\ auth' \in Nat /\ conflict' \in BOOLEAN
      <3>1. epoch \in Nat /\ auth \in Nat
        BY DEF IInv, TypeOK
      <3>2. epoch' \in Nat /\ auth' \in Nat
        BY <3>1 DEF RevokeAuthority
      <3>3. conflict' \in BOOLEAN
        BY DEF RevokeAuthority
      <3> QED
        BY <3>2, <3>3
    <2> QED
      BY <1>1, <2>1, <2>2, <2>3, <2>4 DEF IInv, TypeOK, RevokeAuthority
  <1>3. \A i \in 1..Len(queue) : queue[i].epoch \in Nat
    <2>1. ASSUME NEW i \in 1..Len(queue) PROVE queue[i].epoch \in Nat
      <3>1. queue[i] \in Tasks
        BY DEF IInv, TypeOK
      <3> QED
        BY <3>1 DEF Tasks, EditTask, HistoryTask, AttachTask
    <2> QED
      BY <2>1
  <1>4. TasksFromThePast' /\ \A i \in 1..Len(queue) : queue[i].epoch # epoch'
    BY <1>3 DEF IInv, TypeOK, QueueInv, TasksFromThePast, RevokeAuthority
  <1>5. QueueInv'
    BY <1>4 DEF IInv, QueueInv, HandlesBuilt, CurrentTaskHasDraft, StageMatchesHead,
                Running, Task, RevokeAuthority
  <1>6. AuthorityIsolated' /\ ActiveBindingUsesCurrentAuth'
    BY DEF RevokeAuthority, AuthorityIsolated, ActiveBindingUsesCurrentAuth
  <1> QED
    BY <1>2, <1>5, <1>6 DEF IInv

\* A new session of the same principal is handed to the active binding.
LEMMA ReplaceAuthInv ==
    ASSUME IInv, ReplaceAuth
    PROVE  IInv'
  <1>1. used' \in [Operations -> Nat]
    BY SpendType DEF IInv, TypeOK, ReplaceAuth, Operations
  <1>2. bindings \in Seq(Binding) /\ auth' \in Nat /\ Len(bindings) \in Nat
    BY DEF IInv, TypeOK, ReplaceAuth
  <1>3. ASSUME NEW b \in 1..Len(bindings)
        PROVE  (IF b = active THEN [bindings[b] EXCEPT !.auth = auth'] ELSE bindings[b])
                 \in Binding
    <2>1. bindings[b] \in Binding
      BY <1>2
    <2> QED
      BY <1>2, <2>1 DEF Binding
  <1>4. bindings' = [b \in 1..Len(bindings) |->
                       IF b = active THEN [bindings[b] EXCEPT !.auth = auth'] ELSE bindings[b]]
    BY <1>2 DEF ReplaceAuth
  <1>5. bindings' \in Seq(Binding) /\ Len(bindings') = Len(bindings)
    BY <1>2, <1>3, <1>4
  <1>6. TypeOK'
    BY <1>1, <1>2, <1>5 DEF IInv, TypeOK, ReplaceAuth
  <1>7. QueueInv'
    BY <1>5 DEF IInv, QueueInv, HandlesBuilt, CurrentTaskHasDraft, TasksFromThePast,
                StageMatchesHead, Running, Task, ReplaceAuth
  <1>8. active # 0 => active \in 1..Len(bindings) /\ bindings[active] \in Binding
    BY DEF IInv, TypeOK
  <1>9. active # 0 => bindings'[active].epoch = bindings[active].epoch
                      /\ bindings'[active].auth = auth'
    BY <1>4, <1>8 DEF Binding
  <1> QED
    BY <1>6, <1>7, <1>9 DEF IInv, AuthorityIsolated, ActiveBindingUsesCurrentAuth, ReplaceAuth

-----------------------------------------------------------------------------
(* The head of the queue *)

\* A task that settles without touching the draft.
LEMMA SettledAloneInv ==
    ASSUME IInv, queue # <<>>, Settle, used' \in [Operations -> Nat],
           UNCHANGED <<authorityVars, serverVars, draftVars, turn, dirty>>,
           historyBusy' \in BOOLEAN
    PROVE  IInv'
  <1>1. bindings' \in Seq(Binding) /\ Len(bindings) \in Nat /\ Len(bindings') \in Nat
    BY DEF IInv, TypeOK
  <1>2. TypeOK' /\ QueueInv'
    BY <1>1, SettleKeepsQueue DEF IInv, TypeOK
  <1> QED
    BY <1>2, BindingUntouched DEF IInv

LEMMA RefusedEditInv ==
    ASSUME IInv, RefuseEdit \/ RefuseStyle \/ WithdrawEdit
    PROVE  IInv'
  <1>1. queue # <<>>
    BY DEF IInv, QueueInv, StageMatchesHead, RefuseEdit, RefuseStyle, WithdrawEdit, Running
  <1>2. used' \in [Operations -> Nat]
    BY SpendType DEF IInv, TypeOK, RefuseEdit, RefuseStyle, WithdrawEdit, Operations
  <1> QED
    BY <1>1, <1>2, SettledAloneInv
    DEF IInv, TypeOK, RefuseEdit, RefuseStyle, WithdrawEdit

LEMMA RefuseAttachInv ==
    ASSUME IInv, RefuseAttach
    PROVE  IInv'
  BY SettledAloneInv DEF IInv, TypeOK, RefuseAttach, Running

\* What the head of the queue is.
LEMMA HeadOfQueue ==
    ASSUME IInv, queue # <<>>
    PROVE  /\ Task \in Tasks
           /\ Task.kind # "attach" => Task.binding \in 1..Len(bindings)
           /\ Task.kind # "attach" /\ Task.epoch = epoch => active # 0
  <1>1. queue \in Seq(Tasks) /\ 1 \in 1..Len(queue) /\ Task = queue[1]
    BY EmptySeq DEF IInv, TypeOK, Task
  <1> QED
    BY <1>1 DEF IInv, QueueInv, HandlesBuilt, CurrentTaskHasDraft

LEMMA HeadIsEdit ==
    ASSUME IInv, Running({"edit"})
    PROVE  Task \in EditTask
  <1>1. Task \in Tasks /\ Task.kind = "edit"
    BY HeadOfQueue DEF Running, Task
  <1> QED
    BY <1>1 DEF Tasks, EditTask, HistoryTask, AttachTask

LEMMA HeadIsHistory ==
    ASSUME IInv, Running({"undo", "redo"})
    PROVE  Task \in HistoryTask
  <1>1. Task \in Tasks /\ Task.kind \in {"undo", "redo"}
    BY HeadOfQueue DEF Running, Task
  <1> QED
    BY <1>1 DEF Tasks, EditTask, HistoryTask, AttachTask

LEMMA HeadIsAttach ==
    ASSUME IInv, Running({"attach"})
    PROVE  Task \in AttachTask
  <1>1. Task \in Tasks /\ Task.kind = "attach"
    BY HeadOfQueue DEF Running, Task
  <1> QED
    BY <1>1 DEF Tasks, EditTask, HistoryTask, AttachTask

LEMMA SuccessType ==
    ASSUME IInv, reply # None, reply.ok
    PROVE  reply.generation \in Nat /\ reply.content \in Content /\ queue # <<>>
  BY DEF IInv, TypeOK, QueueInv, StageMatchesHead, Replies

\* A task that sends its request keeps the queue as it is.
LEMMA SentInv ==
    ASSUME IInv, queue # <<>>, stage' = "server", request' \in Requests,
           UNCHANGED <<authorityVars, serverVars, draftVars, queue, reply, callerVars, dirty, used>>,
           reply = None
    PROVE  IInv'
  <1>1. TypeOK'
    BY DEF IInv, TypeOK
  <1>2. QueueInv'
    BY DEF IInv, QueueInv, HandlesBuilt, CurrentTaskHasDraft, TasksFromThePast,
           StageMatchesHead
  <1> QED
    BY <1>1, <1>2, BindingUntouched DEF IInv

LEMMA StartEditInv ==
    ASSUME IInv, StartEdit
    PROVE  IInv'
  <1>1. /\ queue # <<>> /\ request = None /\ reply = None
        /\ Task \in EditTask /\ active \in 1..Len(bindings)
    BY HeadIsEdit, HeadOfQueue
    DEF IInv, QueueInv, StageMatchesHead, StartEdit, Running, Task, Authorized, EditTask
  <1>2. CASE IsStyle(Task.command)
    <2>1. /\ stage' = "canvas"
          /\ UNCHANGED <<authorityVars, serverVars, draftVars, queue, request, reply, callerVars,
                         dirty, used>>
      BY <1>2 DEF StartEdit
    <2>2. TypeOK'
      BY <2>1 DEF IInv, TypeOK
    <2>3. QueueInv'
      BY <1>1, <1>2, <2>1
      DEF IInv, QueueInv, HandlesBuilt, CurrentTaskHasDraft, TasksFromThePast,
          StageMatchesHead, StartEdit, Running, Task, IsStyle
    <2> QED
      BY <2>1, <2>2, <2>3, BindingUntouched DEF IInv
  <1>3. CASE ~IsStyle(Task.command)
    <2>1. bindings[active] \in Binding /\ history \in [undo : Seq(Content), redo : Seq(Content)]
          /\ history.undo # <<>>
      BY <1>1 DEF IInv, TypeOK
    <2>2. Applied(Top(history), Task.command) \in Content
      BY <1>1, <2>1, TopType, AppliedType DEF EditTask
    <2>3. request' \in Requests
      BY <1>3, <2>1, <2>2 DEF StartEdit, Requests, Writes, Binding
    <2> QED
      BY <1>1, <1>3, <2>3, SentInv DEF StartEdit
  <1> QED
    BY <1>2, <1>3

LEMMA SendStyleInv ==
    ASSUME IInv, SendStyle
    PROVE  IInv'
  <1>1. /\ queue # <<>> /\ reply = None /\ Running({"edit"}) /\ IsStyle(Task.command)
    BY DEF IInv, QueueInv, StageMatchesHead, SendStyle, Running
  <1>2. Task \in EditTask /\ active \in 1..Len(bindings)
    BY <1>1, HeadIsEdit, HeadOfQueue DEF IInv, TypeOK, SendStyle, Authorized, EditTask
  <1>3. bindings[active] \in Binding /\ Task.command.target \in Styles
    BY <1>1, <1>2 DEF IInv, TypeOK, EditTask, Commands, IsStyle
  <1>4. request' \in Requests
    BY <1>3 DEF SendStyle, Requests, Writes, Binding
  <1> QED
    BY <1>1, <1>4, SentInv DEF SendStyle

LEMMA StartAttachInv ==
    ASSUME IInv, StartAttach
    PROVE  IInv'
  <1>1. queue # <<>> /\ reply = None /\ Task \in AttachTask
    BY HeadIsAttach DEF IInv, QueueInv, StageMatchesHead, StartAttach, Running
  <1>2. request' \in Requests
    BY <1>1 DEF StartAttach, Requests, Reads, AttachTask
  <1> QED
    BY <1>1, <1>2, SentInv DEF StartAttach

LEMMA StartHistoryInv ==
    ASSUME IInv, StartHistory
    PROVE  IInv'
  <1>1. queue # <<>> /\ reply = None /\ Task \in HistoryTask
        /\ Task.binding \in 1..Len(bindings)
    BY HeadIsHistory, HeadOfQueue
    DEF IInv, QueueInv, StageMatchesHead, StartHistory, Running, Task, HistoryTask
  <1>2. bindings[Task.binding] \in Binding
    BY <1>1 DEF IInv, TypeOK
  <1>3. request' \in Requests
    BY <1>1, <1>2 DEF StartHistory, Requests, Writes, HistoryTask, Binding
  <1> QED
    BY <1>1, <1>3, SentInv DEF StartHistory

\* Remembering the accepted generation changes nothing else of a binding.
LEMMA AcceptGenerationKeepsBindings ==
    ASSUME IInv, Task.binding \in 1..Len(bindings), reply.generation \in Nat,
           AcceptGeneration
    PROVE  /\ bindings' \in Seq(Binding) /\ Len(bindings') = Len(bindings)
           /\ \A b \in 1..Len(bindings) : bindings'[b].auth = bindings[b].auth
                                          /\ bindings'[b].epoch = bindings[b].epoch
  <1>1. bindings \in Seq(Binding)
    BY DEF IInv, TypeOK
  <1> DEFINE accepted == [bindings[Task.binding] EXCEPT !.generation = reply.generation]
  <1>2. bindings[Task.binding] \in Binding
    BY <1>1
  <1>3. /\ accepted \in Binding /\ accepted.auth = bindings[Task.binding].auth
        /\ accepted.epoch = bindings[Task.binding].epoch
    BY <1>2 DEF Binding
  <1>4. bindings' = [bindings EXCEPT ![Task.binding] = accepted]
    BY DEF AcceptGeneration
  <1> HIDE DEF accepted
  <1> QED
    BY <1>1, <1>3, <1>4, ExceptSeq

\* What an answered edit, undo or redo leaves: the same binding is active, the
\* history is a history, and with no binding it is still the empty baseline.
LEMMA SettledWithDraftInv ==
    ASSUME IInv, queue # <<>>, Settle,
           bindings' \in Seq(Binding), Len(bindings') = Len(bindings),
           \A b \in 1..Len(bindings) : bindings'[b].auth = bindings[b].auth
                                       /\ bindings'[b].epoch = bindings[b].epoch,
           history' \in [undo : Seq(Content), redo : Seq(Content)], history'.undo # <<>>,
           conflict' \in BOOLEAN, historyBusy' \in BOOLEAN,
           active = 0 => history' = history /\ conflict' = conflict,
           UNCHANGED <<authorityVars, serverVars, active, turn, dirty, used>>
    PROVE  IInv'
  <1>1. /\ Len(bindings) \in Nat /\ Len(bindings') \in Nat /\ Len(bindings) <= Len(bindings')
        /\ active \in 0..Len(bindings)
    BY DEF IInv, TypeOK
  <1>2. /\ queue' \in Seq(Tasks) /\ QueueInv'
        /\ stage' \in {"idle", "canvas", "server"}
        /\ request' \in Requests \union {None}
        /\ reply' \in Replies \union {None}
        /\ callers' \in [Callers -> [stage : {"idle", "waiting", "posted"}, binding : Nat,
                                     epoch : Nat, ahead : Nat]]
    BY <1>1, SettleKeepsQueue DEF IInv
  <1>3. TypeOK'
    BY <1>1, <1>2 DEF IInv, TypeOK
  <1>4. AuthorityIsolated' /\ ActiveBindingUsesCurrentAuth'
    BY <1>1 DEF IInv, AuthorityIsolated, ActiveBindingUsesCurrentAuth
  <1> QED
    BY <1>2, <1>3, <1>4 DEF IInv

LEMMA FailEditInv ==
    ASSUME IInv, AbandonStyle \/ FailEdit
    PROVE  IInv'
  <1>1. Running({"edit"}) /\ queue # <<>>
    BY DEF IInv, QueueInv, StageMatchesHead, AbandonStyle, FailEdit, Running
  <1>2. Task.kind # "attach" /\ Task.binding \in 1..Len(bindings)
    BY <1>1, HeadOfQueue DEF Running, Task
  <1>3. conflict' \in BOOLEAN /\ (active = 0 => conflict' = conflict)
    <2>1. /\ conflict \in BOOLEAN
          /\ conflict' = (conflict \/ (Authorized /\ Task.binding = active))
      BY DEF IInv, TypeOK, AbandonStyle, FailEdit, MarkEditConflict
    <2>2. conflict' \in BOOLEAN
      BY <2>1
    <2>3. active = 0 => Task.binding # active
      BY <1>2
    <2>4. active = 0 => conflict' = conflict
      BY <2>1, <2>3
    <2> QED
      BY <2>2, <2>4
  <1> QED
    BY <1>1, <1>3, SettledWithDraftInv DEF IInv, TypeOK, AbandonStyle, FailEdit

LEMMA FinishEditInv ==
    ASSUME IInv, FinishEdit
    PROVE  IInv'
  <1>1. /\ queue # <<>> /\ Task \in EditTask /\ Task.binding \in 1..Len(bindings)
        /\ Authorized => active # 0
    BY HeadIsEdit, HeadOfQueue DEF FinishEdit, Running, Task, EditTask, Authorized
  <1>2. reply.generation \in Nat /\ reply.content \in Content
    BY SuccessType DEF FinishEdit
  <1>3. /\ history \in [undo : Seq(Content), redo : Seq(Content)] /\ history.undo # <<>>
    BY DEF IInv, TypeOK
  <1>4. Applied(Top(history), Task.command) \in Content
    BY <1>1, <1>3, TopType, AppliedType DEF EditTask
  <1>5. /\ history' \in [undo : Seq(Content), redo : Seq(Content)] /\ history'.undo # <<>>
        /\ active = 0 => history' = history
    <2>1. CASE ~Authorized
      BY <1>3, <2>1 DEF FinishEdit
    <2>2. CASE Authorized /\ IsStyle(Task.command)
      BY <1>1, <1>2, <1>3, <2>2, ReplaceStateType DEF FinishEdit
    <2>3. CASE Authorized /\ ~IsStyle(Task.command)
      <3> DEFINE pushed == Push(history, Applied(Top(history), Task.command))
      <3>1. /\ pushed \in [undo : Seq(Content), redo : Seq(Content)] /\ pushed.undo # <<>>
        BY <1>3, <1>4, PushType
      <3>2. history' = ReplaceState(pushed, reply.content)
        BY <2>3 DEF FinishEdit
      <3> HIDE DEF pushed
      <3> QED
        BY <1>1, <1>2, <2>3, <3>1, <3>2, ReplaceStateType
    <2> QED
      BY <2>1, <2>2, <2>3
  <1> QED
    BY <1>1, <1>2, <1>5, AcceptGenerationKeepsBindings, SettledWithDraftInv
    DEF IInv, TypeOK, FinishEdit

LEMMA FinishHistoryInv ==
    ASSUME IInv, FinishHistory
    PROVE  IInv'
  <1>1. /\ queue # <<>> /\ Task.binding \in 1..Len(bindings) /\ active # 0
    BY HeadOfQueue DEF FinishHistory, Running, Task, Authorized
  <1>2. reply.generation \in Nat /\ reply.content \in Content
    BY SuccessType DEF FinishHistory
  <1> DEFINE moved == Moved(history, Task.kind)
  <1>3. /\ moved \in [undo : Seq(Content), redo : Seq(Content)] /\ moved.undo # <<>>
    BY MovedType DEF IInv, TypeOK
  <1>4. history' = ReplaceState(moved, reply.content)
    BY DEF FinishHistory
  <1> HIDE DEF moved
  <1>5. /\ history' \in [undo : Seq(Content), redo : Seq(Content)] /\ history'.undo # <<>>
    BY <1>2, <1>3, <1>4, ReplaceStateType
  <1> QED
    BY <1>1, <1>2, <1>5, AcceptGenerationKeepsBindings, SettledWithDraftInv
    DEF IInv, TypeOK, FinishHistory

LEMMA FailHistoryInv ==
    ASSUME IInv, FailHistory
    PROVE  IInv'
  <1>1. /\ queue # <<>> /\ Task.binding \in 1..Len(bindings)
    BY HeadOfQueue DEF FailHistory, Running, Task
  <1>2. /\ bindings' \in Seq(Binding) /\ Len(bindings') = Len(bindings)
        /\ \A b \in 1..Len(bindings) : bindings'[b].auth = bindings[b].auth
                                       /\ bindings'[b].epoch = bindings[b].epoch
    <2>1. CASE UNCHANGED bindings
      BY <2>1 DEF IInv, TypeOK
    <2>2. CASE reply # None /\ reply.ok /\ AcceptGeneration
      BY <1>1, <2>2, SuccessType, AcceptGenerationKeepsBindings
    <2> QED
      BY <2>1, <2>2 DEF FailHistory
  <1>3. conflict' \in BOOLEAN /\ (active = 0 => conflict' = conflict)
    <2>1. conflict \in BOOLEAN /\ conflict' = (conflict \/ (Authorized /\ active # 0))
      BY DEF IInv, TypeOK, FailHistory
    <2>2. conflict' \in BOOLEAN
      BY <2>1
    <2>3. active = 0 => conflict' = conflict
      BY <2>1
    <2> QED
      BY <2>2, <2>3
  <1> QED
    BY <1>1, <1>2, <1>3, SettledWithDraftInv DEF IInv, TypeOK, FailHistory

\* The new binding carries the current session and the epoch its read was asked
\* for under, which the second check of the code found to be the current one.
LEMMA FinishAttachInv ==
    ASSUME IInv, FinishAttach
    PROVE  IInv'
  <1> DEFINE new == [draft |-> Task.draft, generation |-> reply.generation,
                     auth |-> auth, epoch |-> Task.epoch]
  <1>1. queue # <<>> /\ Task \in AttachTask /\ Task.epoch = epoch
    BY HeadIsAttach DEF FinishAttach, Running, Acceptable, Authorized
  <1>2. reply.generation \in Nat /\ reply.content \in Content
    BY SuccessType DEF FinishAttach
  <1>3. new \in Binding
    BY <1>1, <1>2 DEF IInv, TypeOK, Binding, AttachTask
  <1>4. /\ bindings \in Seq(Binding) /\ Len(bindings) \in Nat
        /\ bindings' = Append(bindings, new) /\ active' = Len(bindings) + 1
    BY DEF IInv, TypeOK, FinishAttach
  <1>5. /\ bindings' \in Seq(Binding) /\ Len(bindings') = Len(bindings) + 1
        /\ bindings'[active'] = new
    BY <1>3, <1>4
  <1>6. active' \in 0..Len(bindings') /\ active' # 0
    BY <1>4, <1>5
  <1>7. /\ history' \in [undo : Seq(Content), redo : Seq(Content)] /\ history'.undo # <<>>
    <2>1. history' = Baseline(reply.content) \/ history' = ReplaceState(history, reply.content)
      BY DEF FinishAttach
    <2> QED
      BY <1>2, <2>1, BaselineType, ReplaceStateType, ZenonT(60) DEF IInv, TypeOK
  <1>8. /\ queue' \in Seq(Tasks) /\ QueueInv'
        /\ stage' \in {"idle", "canvas", "server"}
        /\ request' \in Requests \union {None}
        /\ reply' \in Replies \union {None}
        /\ callers' \in [Callers -> [stage : {"idle", "waiting", "posted"}, binding : Nat,
                                     epoch : Nat, ahead : Nat]]
    <2>1. Len(bindings') \in Nat /\ Len(bindings) <= Len(bindings')
      BY <1>4, <1>5
    <2> QED
      BY <1>1, <1>4, <1>5, <1>6, <2>1, SettleKeepsQueue DEF IInv, FinishAttach
  <1>9. TypeOK'
    BY <1>5, <1>6, <1>7, <1>8 DEF IInv, TypeOK, FinishAttach
  <1>10. AuthorityIsolated' /\ ActiveBindingUsesCurrentAuth'
    BY <1>1, <1>5, <1>6 DEF AuthorityIsolated, ActiveBindingUsesCurrentAuth, FinishAttach
  <1> QED
    BY <1>8, <1>9, <1>10 DEF IInv

-----------------------------------------------------------------------------
(* The server and the network *)

\* An answer to the request on the wire keeps the queue sound.
LEMMA AnswerKeepsQueue ==
    ASSUME QueueInv, request # None, NEW r, Answer(r),
           UNCHANGED <<epoch, bindings, active>>
    PROVE  QueueInv'
  BY DEF QueueInv, HandlesBuilt, CurrentTaskHasDraft, TasksFromThePast, StageMatchesHead,
         Running, Task, Answer

LEMMA FailedType == Failed \in Replies
  BY DEF Failed, Replies

LEMMA LatestType ==
    ASSUME TypeOK, NEW d \in Drafts, server[d] # <<>>
    PROVE  Latest(d) \in Content /\ Generation(d) \in Nat
  <1>1. server[d] \in Seq(Revision) /\ Len(server[d]) \in Nat \ {0}
    BY EmptySeq DEF TypeOK
  <1>2. server[d][Len(server[d])] \in Revision
    BY <1>1
  <1> QED
    BY <1>1, <1>2 DEF Latest, Generation, Last, Revision

\* A write the server accepts is one more revision.
LEMMA StoreType ==
    ASSUME TypeOK, NEW r \in Writes, Accepts(r), NEW by \in {"studio", "late"},
           Store(r, by)
    PROVE  server' \in [Drafts -> Seq(Revision)] /\ Written(r) \in Content
  <1>1. r.draft \in Drafts /\ server[r.draft] # <<>> /\ server[r.draft] \in Seq(Revision)
    BY DEF TypeOK, Writes, Accepts
  <1>2. Written(r) \in Content
    <2>1. CASE r.op = "put"
      BY <2>1 DEF Written, Writes
    <2>2. CASE r.op = "style"
      <3>1. r.style \in Styles /\ Latest(r.draft) \in Content
        BY <1>1, <2>2, LatestType DEF Writes
      <3> QED
        BY <2>2, <3>1 DEF Written, WithStyle, Content
    <2> QED
      BY <2>1, <2>2 DEF Writes
  <1>3. Append(server[r.draft], [content |-> Written(r), by |-> by]) \in Seq(Revision)
    BY <1>1, <1>2 DEF Revision
  <1> QED
    BY <1>1, <1>2, <1>3 DEF TypeOK, Store

LEMMA ServerGetInv ==
    ASSUME IInv, ServerGet
    PROVE  IInv'
  <1>1. request.draft \in Drafts
    BY DEF IInv, TypeOK, ServerGet, Requests, Reads, Writes
  <1>2. reply' \in Replies
    <2>1. CASE server[request.draft] = <<>>
      BY <2>1, FailedType DEF ServerGet, Answer
    <2>2. CASE server[request.draft] # <<>>
      BY <1>1, <2>2, LatestType DEF IInv, ServerGet, Answer, Replies
    <2> QED
      BY <2>1, <2>2
  <1>3. TypeOK'
    BY <1>2 DEF IInv, TypeOK, ServerGet, Answer
  <1> QED
    BY <1>3, AnswerKeepsQueue, BindingUntouched DEF IInv, ServerGet

LEMMA ServerPutInv ==
    ASSUME IInv, ServerPut
    PROVE  IInv'
  <1>1. request \in Writes /\ request.draft \in Drafts
    BY DEF IInv, TypeOK, ServerPut, Requests, Reads, Writes
  <1>2. reply' \in Replies /\ server' \in [Drafts -> Seq(Revision)]
    <2>1. CASE Accepts(request)
      <3>1. Generation(request.draft) \in Nat
        BY <1>1, <2>1, LatestType DEF IInv, Accepts
      <3>2. server' \in [Drafts -> Seq(Revision)] /\ Written(request) \in Content
        BY <1>1, <2>1, StoreType DEF IInv, ServerPut
      <3>3. reply' = [ok |-> TRUE, generation |-> Generation(request.draft) + 1,
                      content |-> Written(request)]
        BY <2>1 DEF ServerPut, Answer
      <3>4. Generation(request.draft) + 1 \in Nat
        BY <3>1
      <3>5. reply' \in Replies
        BY <3>2, <3>3, <3>4 DEF Replies
      <3> QED
        BY <3>2, <3>5
    <2>2. CASE ~Accepts(request)
      <3>1. reply' = Failed /\ server' = server
        BY <2>2 DEF ServerPut, Answer
      <3>2. server \in [Drafts -> Seq(Revision)]
        BY DEF IInv, TypeOK
      <3> QED
        BY <3>1, <3>2, FailedType
    <2> QED
      BY <2>1, <2>2
  <1>3. TypeOK'
    BY <1>2 DEF IInv, TypeOK, ServerPut, Answer
  <1>4. QueueInv'
    <2>1. PICK r : Answer(r)
      BY DEF ServerPut
    <2> QED
      BY <2>1, AnswerKeepsQueue DEF IInv, ServerPut
  <1> QED
    BY <1>3, <1>4, BindingUntouched DEF IInv, ServerPut

LEMMA LoseInv ==
    ASSUME IInv, LoseRequest \/ LoseReply
    PROVE  IInv'
  <1>1. used' \in [Operations -> Nat] /\ reply' \in Replies
    BY SpendType, FailedType DEF IInv, TypeOK, LoseRequest, LoseReply, Answer, Operations
  <1>2. request # None /\ Answer(Failed)
    BY DEF IInv, QueueInv, StageMatchesHead, LoseRequest, LoseReply
  <1>3. late' \subseteq Writes
    BY DEF IInv, TypeOK, LoseRequest, LoseReply, Requests, Reads
  <1>4. TypeOK'
    BY <1>1, <1>3 DEF IInv, TypeOK, LoseRequest, LoseReply, Answer
  <1> QED
    BY <1>2, <1>4, AnswerKeepsQueue, BindingUntouched DEF IInv, LoseRequest, LoseReply

LEMMA LateWriteInv ==
    ASSUME IInv, LateWrite
    PROVE  IInv'
  <1>1. PICK r \in late : /\ late' = late \ {r}
                          /\ IF Accepts(r) THEN Store(r, "late") ELSE UNCHANGED server
    BY DEF LateWrite
  <1>2. r \in Writes /\ late' \subseteq Writes
    BY <1>1 DEF IInv, TypeOK
  <1>3. server' \in [Drafts -> Seq(Revision)]
    BY <1>1, <1>2, StoreType DEF IInv, TypeOK
  <1>4. TypeOK'
    BY <1>2, <1>3 DEF IInv, TypeOK, LateWrite
  <1> QED
    BY <1>4, QueueUntouched, BindingUntouched DEF IInv, LateWrite

LEMMA OtherWriteInv ==
    ASSUME IInv, NEW d \in Drafts, NEW c \in Commands, OtherWrite(d, c)
    PROVE  IInv'
  <1>1. used' \in [Operations -> Nat]
    BY SpendType DEF IInv, TypeOK, OtherWrite, Operations
  <1>2. server' \in [Drafts -> Seq(Revision)]
    <2>1. Applied(Latest(d), c) \in Content
      BY LatestType, AppliedType DEF IInv, OtherWrite
    <2>2. [content |-> Applied(Latest(d), c), by |-> "other"] \in Revision
      BY <2>1 DEF Revision
    <2>3. server[d] \in Seq(Revision)
      BY DEF IInv, TypeOK
    <2>4. Append(server[d], [content |-> Applied(Latest(d), c), by |-> "other"]) \in Seq(Revision)
      BY <2>2, <2>3
    <2> QED
      BY <2>4 DEF IInv, TypeOK, OtherWrite
  <1>3. TypeOK'
    BY <1>1, <1>2 DEF IInv, TypeOK, OtherWrite
  <1> QED
    BY <1>3, QueueUntouched, BindingUntouched DEF IInv, OtherWrite

-----------------------------------------------------------------------------
(* Every step, and the theorems *)

LEMMA StutterInv == IInv /\ UNCHANGED vars => IInv'
  <1> SUFFICES ASSUME IInv, UNCHANGED vars PROVE IInv'
    OBVIOUS
  <1>1. TypeOK'
    BY DEF IInv, TypeOK, vars
  <1> QED
    BY <1>1, QueueUntouched, BindingUntouched DEF IInv, vars

LEMMA NextInv == IInv /\ [Next]_vars => IInv'
  <1> SUFFICES ASSUME IInv, [Next]_vars PROVE IInv'
    OBVIOUS
  <1>1. CASE Call
    BY <1>1, DispatchInv, AttachInv, ApplyHistoryInv, WaitInv, FormInv, RevokeAuthorityInv,
       ReplaceAuthInv, RefusedEditInv
    DEF Call
  <1>2. CASE Resume
    BY <1>2, ResumeRefreshInv, ResumeInv, CreateAnsweredInv DEF Resume
  <1>3. CASE RunQueue
    BY <1>3, RefusedEditInv, StartEditInv, SendStyleInv, FailEditInv, FinishEditInv,
       StartAttachInv, FinishAttachInv, RefuseAttachInv, StartHistoryInv, FinishHistoryInv,
       FailHistoryInv
    DEF RunQueue
  <1>4. CASE Respond
    BY <1>4, ServerGetInv, ServerPutInv DEF Respond
  <1>5. CASE Network
    BY <1>5, LoseInv, LateWriteInv, OtherWriteInv DEF Network
  <1>6. CASE UNCHANGED vars
    BY <1>6, StutterInv
  <1> QED
    BY <1>1, <1>2, <1>3, <1>4, <1>5, <1>6 DEF Next

\* The invariant holds throughout every behaviour.
THEOREM Invariance == Spec => []IInv
  BY InitIInv, NextInv, PTL DEF Spec

\* Every handle stays an index of the bindings built so far, and every stack,
\* task, request and reply holds what the code can put there.
THEOREM TypeCorrect == Spec => []TypeOK
  <1>1. IInv => TypeOK
    BY DEF IInv
  <1> QED
    BY <1>1, Invariance, PTL

\* However reads, edits, undos and sign-outs interleave, nothing a former
\* principal asked for becomes visible to the next.
THEOREM AuthorityIsolation == Spec => []AuthorityIsolated
  <1>1. IInv => AuthorityIsolated
    BY DEF IInv
  <1> QED
    BY <1>1, Invariance, PTL

\* The active binding always sends with the current session.
THEOREM CurrentSession == Spec => []ActiveBindingUsesCurrentAuth
  <1>1. IInv => ActiveBindingUsesCurrentAuth
    BY DEF IInv
  <1> QED
    BY <1>1, Invariance, PTL

\* Both together, with the types, as the runs check them.
THEOREM CurrentAuthority == Spec => []OnlyCurrentAuthority
  <1>1. IInv => OnlyCurrentAuthority
    BY DEF IInv, OnlyCurrentAuthority
  <1> QED
    BY <1>1, Invariance, PTL

-----------------------------------------------------------------------------

\* A step that ends or replaces the active draft found no unsaved form, or is a
\* change of principal.
LEMMA FormStep ==
    ASSUME TypeOK, [Next]_vars, dirty # "clean", active' # active
    PROVE  epoch' # epoch
  <1>1. epoch \in Nat
    BY DEF TypeOK
  <1>2. ~ UNCHANGED active
    OBVIOUS
  <1>3. ~ FinishAttach
    BY DEF FinishAttach, Acceptable
  <1>4. RevokeAuthority
    <2>1. CASE Call
      BY <1>2, <2>1
      DEF Call, Dispatch, Attach, ApplyHistory, Refresh, PrepareTurn, Create, Wait, EditForm,
          SettleForm, ReplaceAuth, WithdrawEdit
    <2>2. CASE Resume
      BY <1>2, <2>2 DEF Resume, ResumeRefresh, ResumeTurn, PostCreate, CreateAnswered, CreateFails
    <2>3. CASE RunQueue
      BY <1>2, <1>3, <2>3
      DEF RunQueue, RefuseEdit, StartEdit, SendStyle, AbandonStyle, RefuseStyle, FinishEdit,
          FailEdit, StartAttach, RefuseAttach, StartHistory, FinishHistory, FailHistory
    <2>4. CASE Respond \/ Network
      BY <1>2, <2>4
      DEF Respond, ServerGet, ServerPut, Network, LoseRequest, LoseReply, LateWrite, OtherWrite
    <2>5. CASE UNCHANGED vars
      BY <1>2, <2>5 DEF vars
    <2> QED
      BY <2>1, <2>2, <2>3, <2>4, <2>5 DEF Next
  <1> QED
    BY <1>1, <1>4 DEF RevokeAuthority

\* An unsaved form keeps its draft under every interleaving.
THEOREM UnsavedForm == Spec => UnsavedFormKeepsDraft
  <1>1. TypeOK /\ [Next]_vars => [dirty # "clean" /\ active' # active => epoch' # epoch]_vars
    BY FormStep
  <1> QED
    BY <1>1, TypeCorrect, PTL DEF Spec, UnsavedFormKeepsDraft

(***************************************************************************)
(* The screen shows the revision the next write names, a write of unknown  *)
(* outcome is flagged, no draft holds another's content, and without undo  *)
(* each follows one lineage.                                               *)
(*                                                                         *)
(* An undo goes out through the binding that was active when it was        *)
(* pressed; when another was attached since, its answer is adopted into    *)
(* the wrong composition (the run cross_draft_undo).  What is proved here  *)
(* is therefore proved of the behaviours in which every undo or redo that  *)
(* leaves does so through the active binding, and for the lineage of       *)
(* those without undo.                                                     *)
(***************************************************************************)
\* The restriction: an undo or redo is sent through the active binding.
UndoOfActiveDraft ==
    Running({"undo", "redo"}) /\ stage = "idle" /\ stage' = "server" => Task.binding = active

Bound == bindings[active]

ContentAt(d, g) == server[d][g].content

\* A binding names a revision the server has.
BindingsObserved ==
    \A b \in 1..Len(bindings) :
        bindings[b].generation \in 1..Generation(bindings[b].draft)

\* The screen shows the revision the active binding names.
ScreenObserved ==
    active # 0 => Top(history) = ContentAt(Bound.draft, Bound.generation)

\* A write under way is of the active binding, or nothing is attached.
SentByActive ==
    stage # "idle" =>
        /\ queue # <<>>
        /\ Task.kind # "attach" => active = 0 \/ (Authorized /\ Task.binding = active)

\* The request on the wire is the head's.
RequestIsHeads ==
    request # None =>
        IF Task.kind = "attach" THEN request.op = "get" /\ request.draft = Task.draft
        ELSE /\ request.op # "get" /\ request.draft = bindings[Task.binding].draft
             /\ Task.kind # "edit" => request.op = "put" /\ request.content = Task.target

NoStudioAbove(d, generation) ==
    \A g \in generation + 1 .. Generation(d) : server[d][g].by # "studio"

\* A good answer names a revision the server has, the newest this session wrote.
ReplyIsServers ==
    reply # None /\ reply.ok =>
        /\ reply.generation \in 1..Generation(request.draft)
        /\ reply.content = ContentAt(request.draft, reply.generation)
        /\ NoStudioAbove(request.draft, reply.generation)
        /\ request.op = "put" => reply.content = request.content

\* What this session wrote above the generation it knows is being answered, or
\* the conflict is flagged.
OutcomeKnown ==
    active # 0 /\ ~conflict =>
        \/ reply # None /\ Task.kind # "attach" /\ Task.binding = active
        \/ NoStudioAbove(Bound.draft, Bound.generation)

Observation ==
    /\ BindingsObserved
    /\ ScreenObserved
    /\ SentByActive
    /\ RequestIsHeads
    /\ ReplyIsServers
    /\ OutcomeKnown

\* Content of a draft: no other draft's mark.
Own(content, d) == content \intersect Drafts \subseteq {d}

OwnStacks(h, d) ==
    /\ \A i \in 1..Len(h.undo) : Own(h.undo[i], d)
    /\ \A i \in 1..Len(h.redo) : Own(h.redo[i], d)

HistoryIsOwn == active # 0 => OwnStacks(history, Bound.draft)

TargetsAreOwn ==
    \A i \in 1..Len(queue) :
        queue[i].kind \in {"undo", "redo"}
        => Own(queue[i].target, bindings[queue[i].binding].draft)

WritesAreOwn ==
    /\ request # None /\ request.op = "put" => Own(request.content, request.draft)
    /\ \A r \in late : r.op = "put" => Own(r.content, r.draft)

\* Nothing stored, on the stacks, in a queued undo, on the wire or still under
\* way is of another draft than the one it is for.
EverythingIsOwn == NoForeignContent /\ HistoryIsOwn /\ TargetsAreOwn /\ WritesAreOwn

NoHistoryQueued == \A i \in 1..Len(queue) : queue[i].kind \in {"edit", "attach"}

\* A write on the wire or under way is one command away from the revision it names.
Continues(r) ==
    r.op = "put" =>
        /\ r.generation \in 1..Generation(r.draft)
        /\ \E c \in Commands : r.content = Applied(ContentAt(r.draft, r.generation), c)

WritesContinue ==
    /\ request # None => Continues(request)
    /\ \A r \in late : Continues(r)

-----------------------------------------------------------------------------
(* How the server's drafts grow *)

USE DEF authorityVars, serverVars, draftVars, queueVars, callerVars

\* A step keeps every revision the server has and may add some.
Grows ==
    \A d \in Drafts : /\ Generation(d) <= Generation(d)'
                      /\ \A g \in 1..Generation(d) : server'[d][g] = server[d][g]

\* A step adds no revision of this session to a draft that exists.
StudioWritesNothing ==
    \A d \in Drafts : server[d] # <<>> =>
        \A g \in Generation(d) + 1 .. Generation(d)' : server'[d][g].by # "studio"

LEMMA GenerationType ==
    ASSUME TypeOK
    PROVE  \A d \in Drafts : /\ server[d] \in Seq(Revision)
                             /\ Generation(d) \in Nat
                             /\ server[d] = <<>> <=> Generation(d) = 0
                             /\ server[d] # <<>> => Latest(d) = ContentAt(d, Generation(d))
  BY EmptySeq DEF TypeOK, Generation, Latest, ContentAt, Last

LEMMA Unwritten ==
    ASSUME TypeOK, UNCHANGED server
    PROVE  Grows /\ StudioWritesNothing
  <1>1. \A d \in Drafts : Generation(d) \in Nat /\ Generation(d)' = Generation(d)
    BY GenerationType DEF Generation
  <1> QED
    BY <1>1 DEF Grows, StudioWritesNothing

\* A revision is added on top of those of one draft.
LEMMA Appended ==
    ASSUME TypeOK, NEW d \in Drafts, NEW r \in Revision,
           server' = [server EXCEPT ![d] = Append(@, r)]
    PROVE  /\ Grows
           /\ Generation(d)' = Generation(d) + 1
           /\ server'[d][Generation(d) + 1] = r
           /\ \A other \in Drafts \ {d} : server'[other] = server[other]
  <1>1. server \in [Drafts -> Seq(Revision)]
    BY DEF TypeOK
  <1>2. /\ server'[d] = Append(server[d], r)
        /\ \A other \in Drafts \ {d} : server'[other] = server[other]
    BY <1>1
  <1>3. /\ server[d] \in Seq(Revision) /\ Generation(d) \in Nat
        /\ Generation(d) = Len(server[d])
    BY <1>1, GenerationType DEF Generation
  <1>4. /\ Generation(d)' = Generation(d) + 1 /\ server'[d][Generation(d) + 1] = r
        /\ \A g \in 1..Generation(d) : server'[d][g] = server[d][g]
    BY <1>2, <1>3 DEF Generation
  <1>5. \A other \in Drafts \ {d} : Generation(other) \in Nat /\ Generation(other)' = Generation(other)
    BY <1>2, GenerationType DEF Generation
  <1> QED
    BY <1>2, <1>3, <1>4, <1>5 DEF Grows

LEMMA AppendedByAnother ==
    ASSUME TypeOK, NEW d \in Drafts, NEW r \in Revision, r.by # "studio",
           server' = [server EXCEPT ![d] = Append(@, r)]
    PROVE  Grows /\ StudioWritesNothing
  <1>1. /\ Grows /\ Generation(d)' = Generation(d) + 1 /\ server'[d][Generation(d) + 1] = r
        /\ \A other \in Drafts \ {d} : server'[other] = server[other]
    BY Appended
  <1>2. \A other \in Drafts : Generation(other) \in Nat
    BY GenerationType
  <1>3. ASSUME NEW other \in Drafts, NEW g \in Generation(other) + 1 .. Generation(other)'
        PROVE  server'[other][g].by # "studio"
    <2>1. CASE other = d
      <3>1. g = Generation(d) + 1
        BY <1>1, <1>2, <1>3, <2>1
      <3> QED
        BY <1>1, <2>1, <3>1
    <2>2. CASE other # d
      <3>1. Generation(other)' = Generation(other)
        BY <1>1, <2>2 DEF Generation
      <3> QED
        BY <1>2, <1>3, <3>1
    <2> QED
      BY <2>1, <2>2
  <1> QED
    BY <1>1, <1>3 DEF StudioWritesNothing

\* What was known of a draft stays known as it grows.
LEMMA StaysKnown ==
    ASSUME TypeOK, TypeOK', Grows, StudioWritesNothing,
           NEW d \in Drafts, NEW g \in 1..Generation(d)
    PROVE  /\ g \in 1..Generation(d)'
           /\ ContentAt(d, g)' = ContentAt(d, g)
           /\ NoStudioAbove(d, g) => NoStudioAbove(d, g)'
  <1>1. /\ Generation(d) \in Nat /\ Generation(d)' \in Nat /\ Generation(d) <= Generation(d)'
        /\ server[d] # <<>>
    <2>1. Generation(d) \in Nat /\ server[d] # <<>>
      BY GenerationType
    <2>2. Generation(d)' \in Nat
      BY DEF TypeOK, Generation
    <2> QED
      BY <2>1, <2>2 DEF Grows
  <1>2. ASSUME NoStudioAbove(d, g), NEW f \in g + 1 .. Generation(d)'
        PROVE  server'[d][f].by # "studio"
    <2>1. CASE f <= Generation(d)
      <3>1. f \in 1..Generation(d) /\ f \in g + 1 .. Generation(d)
        BY <1>1, <2>1
      <3> QED
        BY <1>2, <3>1 DEF NoStudioAbove, Grows
    <2>2. CASE f > Generation(d)
      <3>1. f \in Generation(d) + 1 .. Generation(d)'
        BY <1>1, <2>2
      <3> QED
        BY <1>1, <3>1 DEF StudioWritesNothing
    <2> QED
      BY <1>1, <2>1, <2>2
  <1>3. NoStudioAbove(d, g) => NoStudioAbove(d, g)'
    BY <1>2 DEF NoStudioAbove
  <1> QED
    BY <1>1, <1>3 DEF Grows, ContentAt

-----------------------------------------------------------------------------
(* What a step does to the observation *)

LEMMA BindingDraft ==
    ASSUME TypeOK
    PROVE  /\ Len(bindings) \in Nat /\ active \in Nat
           /\ \A b \in 1..Len(bindings) : bindings[b] \in Binding /\ bindings[b].draft \in Drafts
           /\ active # 0 => active \in 1..Len(bindings)
  <1>1. bindings \in Seq(Binding) /\ Len(bindings) \in Nat /\ active \in 0..Len(bindings)
    BY DEF TypeOK
  <1>2. \A b \in 1..Len(bindings) : bindings[b] \in Binding
    BY <1>1
  <1>3. \A b \in 1..Len(bindings) : bindings[b].draft \in Drafts
    BY <1>2 DEF Binding
  <1>4. active \in Nat /\ (active # 0 => active \in 1..Len(bindings))
    BY <1>1
  <1> QED
    BY <1>1, <1>2, <1>3, <1>4

LEMMA RequestDraft ==
    ASSUME TypeOK, request # None
    PROVE  request \in Requests /\ request.draft \in Drafts
  BY DEF TypeOK, Requests, Reads, Writes

\* Bindings that are rebound to another session name the same revisions.
SameRevisions ==
    /\ Len(bindings') = Len(bindings)
    /\ \A b \in 1..Len(bindings) : /\ bindings'[b].draft = bindings[b].draft
                                   /\ bindings'[b].generation = bindings[b].generation

\* A step that leaves the head of the queue waiting, whatever is queued behind
\* it and whoever else writes.
LEMMA HeadStillWaits ==
    ASSUME IInv, IInv', Observation, Grows, StudioWritesNothing, SameRevisions,
           UNCHANGED <<epoch, active, conflict, history, stage, request, reply>>,
           queue # <<>> => queue' # <<>> /\ Task' = Task
    PROVE  Observation'
  <1>1. /\ Len(bindings) \in Nat
        /\ \A b \in 1..Len(bindings) : bindings[b].draft \in Drafts
        /\ active # 0 => active \in 1..Len(bindings)
    BY BindingDraft DEF IInv
  <1>2. TypeOK /\ TypeOK'
    BY DEF IInv
  <1>3. BindingsObserved'
    <2>1. ASSUME NEW b \in 1..Len(bindings)
          PROVE  bindings'[b].generation \in 1..Len(server'[bindings'[b].draft])
      <3>1. PICK d \in Drafts : d = bindings[b].draft
        BY <1>1
      <3>2. PICK g \in 1..Generation(d) : g = bindings[b].generation
        BY <3>1 DEF Observation, BindingsObserved
      <3>3. g \in 1..Generation(d)'
        BY <1>2, StaysKnown
      <3> QED
        BY <3>1, <3>2, <3>3 DEF SameRevisions, Generation
    <2> QED
      BY <2>1 DEF BindingsObserved, SameRevisions, Generation
  <1>4. active # 0 => /\ active \in 1..Len(bindings)
                      /\ bindings'[active].draft = Bound.draft
                      /\ bindings'[active].generation = Bound.generation
                      /\ Bound.draft \in Drafts
                      /\ Bound.generation \in 1..Generation(Bound.draft)
    BY <1>1 DEF SameRevisions, Bound, Observation, BindingsObserved
  <1>5. active # 0 =>
          /\ ContentAt(Bound.draft, Bound.generation)' = ContentAt(Bound.draft, Bound.generation)
          /\ Bound'.draft = Bound.draft /\ Bound'.generation = Bound.generation
          /\ NoStudioAbove(Bound.draft, Bound.generation)
               => NoStudioAbove(Bound.draft, Bound.generation)'
    <2> SUFFICES ASSUME active # 0
                 PROVE  /\ ContentAt(Bound.draft, Bound.generation)' = ContentAt(Bound.draft, Bound.generation)
                        /\ Bound'.draft = Bound.draft /\ Bound'.generation = Bound.generation
                        /\ NoStudioAbove(Bound.draft, Bound.generation)
                             => NoStudioAbove(Bound.draft, Bound.generation)'
      OBVIOUS
    <2>1. PICK d \in Drafts : d = Bound.draft
      BY <1>4
    <2>2. PICK g \in 1..Generation(d) : g = Bound.generation
      BY <1>4, <2>1
    <2>3. /\ server'[d][g].content = server[d][g].content
          /\ NoStudioAbove(d, g) => NoStudioAbove(d, g)'
      BY <1>2, StaysKnown DEF ContentAt
    <2>4. Bound'.draft = d /\ Bound'.generation = g
      BY <1>4, <2>1, <2>2 DEF Bound
    <2> QED
      BY <2>1, <2>2, <2>3, <2>4 DEF ContentAt, NoStudioAbove, Generation
  <1>6. ScreenObserved'
    BY <1>5 DEF Observation, ScreenObserved
  <1>7. SentByActive'
    BY DEF Observation, SentByActive, Authorized
  <1>8. queue # <<>> /\ Task.kind # "attach" => Task.binding \in 1..Len(bindings)
    BY HeadOfQueue
  <1>9. request # None => queue # <<>>
    BY DEF IInv, QueueInv, StageMatchesHead
  <1>10. RequestIsHeads'
    BY <1>8, <1>9 DEF Observation, RequestIsHeads, SameRevisions
  <1>11. ReplyIsServers'
    <2> SUFFICES ASSUME reply # None, reply.ok
                 PROVE  /\ reply.generation \in 1..Generation(request.draft)'
                        /\ reply.content = ContentAt(request.draft, reply.generation)'
                        /\ NoStudioAbove(request.draft, reply.generation)'
                        /\ request.op = "put" => reply.content = request.content
      BY DEF ReplyIsServers
    <2>1. request # None
      BY DEF IInv, QueueInv, StageMatchesHead
    <2>2. PICK d \in Drafts : d = request.draft
      BY <1>2, <2>1, RequestDraft
    <2>3. PICK g \in 1..Generation(d) : g = reply.generation
      BY <2>2 DEF Observation, ReplyIsServers
    <2>4. /\ g \in 1..Generation(d)' /\ server'[d][g].content = server[d][g].content
          /\ NoStudioAbove(d, g) => NoStudioAbove(d, g)'
      BY <1>2, StaysKnown DEF ContentAt
    <2> QED
      BY <2>2, <2>3, <2>4 DEF Observation, ReplyIsServers, ContentAt
  <1>12. OutcomeKnown'
    BY <1>5, <1>9 DEF Observation, OutcomeKnown, IInv, QueueInv, StageMatchesHead
  <1> QED
    BY <1>3, <1>6, <1>7, <1>10, <1>11, <1>12 DEF Observation

LEMMA EnqueuedBehindHead ==
    ASSUME TypeOK, NEW task, queue' = Append(queue, task), queue # <<>>
    PROVE  queue' # <<>> /\ Task' = Task
  <1>1. queue \in Seq(Tasks \union {task})
    BY SeqMonotonic DEF TypeOK
  <1>2. Len(queue) \in Nat \ {0}
    BY <1>1, EmptySeq
  <1>3. Len(queue') = Len(queue) + 1 /\ queue'[1] = queue[1]
    BY <1>1, <1>2
  <1> QED
    BY <1>2, <1>3 DEF Task

\* Waiting, resuming, typing and stuttering.
LEMMA QuietStep ==
    ASSUME IInv, IInv', Observation,
           \/ Refresh \/ PrepareTurn \/ Create \/ ResumeTurn \/ PostCreate \/ CreateFails
           \/ SettleForm \/ (\E kind \in {"form", "style"} : EditForm(kind))
           \/ UNCHANGED vars
    PROVE  Observation'
  <1>1. UNCHANGED <<epoch, server, bindings, active, conflict, history, queue, stage, request, reply>>
    BY DEF Refresh, PrepareTurn, Create, Wait, ResumeTurn, PostCreate, CreateFails, SettleForm,
           EditForm, vars
  <1> QED
    BY <1>1, Unwritten, HeadStillWaits DEF IInv, SameRevisions, Task

\* Queueing a task.
LEMMA QueueingStep ==
    ASSUME IInv, IInv', Observation,
           \/ \E c \in Commands : Dispatch(c)
           \/ \E d \in Drafts : Attach(d)
           \/ \E action \in {"undo", "redo"} : ApplyHistory(action)
           \/ ResumeRefresh
    PROVE  Observation'
  <1>1. UNCHANGED <<epoch, server, bindings, active, conflict, history, stage, request, reply>>
    BY DEF Dispatch, Attach, ApplyHistory, ResumeRefresh
  <1>2. queue' = queue \/ \E task : queue' = Append(queue, task)
    BY DEF Dispatch, Attach, ApplyHistory, ResumeRefresh, Enqueue
  <1>3. queue # <<>> => queue' # <<>> /\ Task' = Task
    BY <1>2, EnqueuedBehindHead DEF IInv, Task
  <1> QED
    BY <1>1, <1>3, Unwritten, HeadStillWaits DEF IInv, SameRevisions

\* A draft that is created had no revision anybody could know of.
LEMMA CreatingStep ==
    ASSUME IInv, IInv', Observation, NEW d \in Drafts, CreateAnswered(d)
    PROVE  Observation'
  <1>1. UNCHANGED <<epoch, bindings, active, conflict, history, stage, request, reply>>
    BY DEF CreateAnswered
  <1>2. queue' = queue \/ \E task : queue' = Append(queue, task)
    BY DEF CreateAnswered, Enqueue
  <1>3. queue # <<>> => queue' # <<>> /\ Task' = Task
    BY <1>2, EnqueuedBehindHead DEF IInv, Task
  <1>4. Grows /\ StudioWritesNothing
    <2>1. server \in [Drafts -> Seq(Revision)] /\ server[d] = <<>>
          /\ server' = [server EXCEPT ![d] = <<[content |-> {}, by |-> "studio"]>>]
      BY DEF IInv, TypeOK, CreateAnswered
    <2>2. \A other \in Drafts \ {d} : server'[other] = server[other]
      BY <2>1
    <2>3. Generation(d) = 0 /\ Generation(d)' = 1
      BY <2>1 DEF Generation
    <2>4. \A other \in Drafts \ {d} : Generation(other)' = Generation(other)
                                      /\ Generation(other) \in Nat
      BY <2>2, GenerationType DEF IInv, Generation
    <2>5. Grows
      BY <2>2, <2>3, <2>4 DEF Grows
    <2>6. StudioWritesNothing
      BY <2>1, <2>4 DEF StudioWritesNothing
    <2> QED
      BY <2>5, <2>6
  <1> QED
    BY <1>1, <1>3, <1>4, HeadStillWaits DEF SameRevisions

\* A new session for the same principal.
LEMMA RebindingStep ==
    ASSUME IInv, IInv', Observation, ReplaceAuth
    PROVE  Observation'
  <1>1. UNCHANGED <<epoch, server, active, conflict, history, queue, stage, request, reply>>
    BY DEF ReplaceAuth
  <1>2. bindings' = [b \in 1..Len(bindings) |->
                       IF b = active THEN [bindings[b] EXCEPT !.auth = auth'] ELSE bindings[b]]
    BY DEF IInv, TypeOK, ReplaceAuth
  <1>3. \A b \in 1..Len(bindings) : bindings'[b].draft = bindings[b].draft
                                    /\ bindings'[b].generation = bindings[b].generation
    <2>1. \A b \in 1..Len(bindings) : bindings[b] \in Binding
      BY BindingDraft DEF IInv
    <2> QED
      BY <1>2, <2>1 DEF Binding
  <1>4. Len(bindings') = Len(bindings)
    <2>1. DOMAIN bindings' = 1..Len(bindings') /\ Len(bindings') \in Nat
      BY DEF IInv, TypeOK
    <2>2. DOMAIN bindings' = 1..Len(bindings) /\ Len(bindings) \in Nat
      BY <1>2 DEF IInv, TypeOK
    <2> QED
      BY <2>1, <2>2
  <1> QED
    BY <1>1, <1>3, <1>4, Unwritten, HeadStillWaits DEF IInv, SameRevisions, Task

\* Other writers, and this session's own write that lands late.
LEMMA OthersWriteStep ==
    ASSUME IInv, IInv', Observation,
           LateWrite \/ \E d \in Drafts, c \in Commands : OtherWrite(d, c)
    PROVE  Observation'
  <1>1. UNCHANGED <<epoch, bindings, active, conflict, history, queue, stage, request, reply>>
    BY DEF LateWrite, OtherWrite
  <1>2. Grows /\ StudioWritesNothing
    <2>1. CASE UNCHANGED server
      BY <2>1, Unwritten DEF IInv
    <2>2. ASSUME NEW r \in late, Accepts(r), Store(r, "late")
          PROVE  Grows /\ StudioWritesNothing
      <3>1. r \in Writes /\ r.draft \in Drafts
        BY DEF IInv, TypeOK, Writes
      <3>2. [content |-> Written(r), by |-> "late"] \in Revision
        BY <2>2, <3>1, StoreType DEF IInv, Revision
      <3> QED
        BY <2>2, <3>1, <3>2, AppendedByAnother DEF IInv, Store
    <2>3. ASSUME NEW d \in Drafts, NEW c \in Commands, OtherWrite(d, c)
          PROVE  Grows /\ StudioWritesNothing
      <3>1. Applied(Latest(d), c) \in Content
        BY <2>3, LatestType, AppliedType DEF IInv, OtherWrite
      <3>2. [content |-> Applied(Latest(d), c), by |-> "other"] \in Revision
        BY <3>1 DEF Revision
      <3> QED
        BY <2>3, <3>2, AppendedByAnother DEF IInv, OtherWrite
    <2> QED
      BY <2>1, <2>2, <2>3 DEF LateWrite
  <1> QED
    BY <1>1, <1>2, HeadStillWaits DEF SameRevisions, Task

\* A sign-out detaches the draft.
LEMMA RevokingStep ==
    ASSUME Observation, RevokeAuthority
    PROVE  Observation'
  <1>1. BindingsObserved'
    BY DEF Observation, BindingsObserved, Generation, RevokeAuthority
  <1>2. active' = 0 /\ ScreenObserved' /\ OutcomeKnown'
    BY DEF RevokeAuthority, ScreenObserved, OutcomeKnown
  <1>3. SentByActive'
    BY <1>2 DEF Observation, SentByActive, Task, RevokeAuthority
  <1>4. RequestIsHeads'
    BY DEF Observation, RequestIsHeads, Task, RevokeAuthority
  <1>5. ReplyIsServers'
    BY DEF Observation, ReplyIsServers, ContentAt, NoStudioAbove, Generation, RevokeAuthority
  <1> QED
    BY <1>1, <1>2, <1>3, <1>4, <1>5 DEF Observation

-----------------------------------------------------------------------------
(* Requests and answers *)

\* The head of the queue waits for something else than before.
LEMMA SendingStep ==
    ASSUME Observation, reply = None, SentByActive', RequestIsHeads',
           UNCHANGED <<epoch, server, bindings, active, conflict, history, queue, reply>>
    PROVE  Observation'
  <1>1. BindingsObserved' /\ ScreenObserved'
    BY DEF Observation, BindingsObserved, ScreenObserved, Bound, ContentAt, Generation
  <1>2. ReplyIsServers'
    BY DEF ReplyIsServers
  <1>3. OutcomeKnown'
    BY DEF Observation, OutcomeKnown, Bound, NoStudioAbove, Generation
  <1> QED
    BY <1>1, <1>2, <1>3 DEF Observation

LEMMA StartEditStep ==
    ASSUME IInv, Observation, StartEdit
    PROVE  Observation'
  <1>1. queue # <<>> /\ Task.kind = "edit" /\ request = None /\ reply = None
        /\ Authorized /\ Task.binding = active
    BY DEF StartEdit, Running, Task, IInv, QueueInv, StageMatchesHead
  <1>2. UNCHANGED <<epoch, server, bindings, active, conflict, history, queue, reply>>
    BY DEF StartEdit
  <1>3. SentByActive'
    BY <1>1, <1>2 DEF SentByActive, Authorized, Task
  <1>4. RequestIsHeads'
    BY <1>1, <1>2 DEF RequestIsHeads, Task, StartEdit
  <1> QED
    BY <1>1, <1>2, <1>3, <1>4, SendingStep

LEMMA SendStyleStep ==
    ASSUME IInv, Observation, SendStyle
    PROVE  Observation'
  <1>1. queue # <<>> /\ Task.kind = "edit" /\ reply = None
        /\ Authorized /\ Task.binding = active
    BY DEF SendStyle, Running, Task, IInv, QueueInv, StageMatchesHead
  <1>2. UNCHANGED <<epoch, server, bindings, active, conflict, history, queue, reply>>
    BY DEF SendStyle
  <1>3. SentByActive'
    BY <1>1, <1>2 DEF SentByActive, Authorized, Task
  <1>4. RequestIsHeads'
    BY <1>1, <1>2 DEF RequestIsHeads, Task, SendStyle
  <1> QED
    BY <1>1, <1>2, <1>3, <1>4, SendingStep

LEMMA StartAttachStep ==
    ASSUME IInv, Observation, StartAttach
    PROVE  Observation'
  <1>1. queue # <<>> /\ Task.kind = "attach" /\ reply = None
    BY DEF StartAttach, Running, Task, IInv, QueueInv, StageMatchesHead
  <1>2. UNCHANGED <<epoch, server, bindings, active, conflict, history, queue, reply>>
    BY DEF StartAttach
  <1>3. SentByActive' /\ RequestIsHeads'
    BY <1>1, <1>2 DEF SentByActive, RequestIsHeads, Task, StartAttach
  <1> QED
    BY <1>1, <1>2, <1>3, SendingStep

\* Here the restriction is used: the code does not compare the binding of an
\* undo with the active one.
LEMMA StartHistoryStep ==
    ASSUME IInv, Observation, StartHistory, UndoOfActiveDraft
    PROVE  Observation'
  <1>1. queue # <<>> /\ Task.kind \in {"undo", "redo"} /\ reply = None
        /\ Authorized /\ Task.binding = active
    BY DEF StartHistory, UndoOfActiveDraft, Running, Task, IInv, QueueInv, StageMatchesHead
  <1>2. UNCHANGED <<epoch, server, bindings, active, conflict, history, queue, reply>>
    BY DEF StartHistory
  <1>3. SentByActive'
    BY <1>1, <1>2 DEF SentByActive, Authorized, Task
  <1>4. RequestIsHeads'
    BY <1>1, <1>2 DEF RequestIsHeads, Task, StartHistory
  <1> QED
    BY <1>1, <1>2, <1>3, <1>4, SendingStep

\* An answer that stores nothing.
LEMMA AnsweringStep ==
    ASSUME Observation, reply' # None, ReplyIsServers',
           UNCHANGED <<epoch, server, bindings, active, conflict, history, queue, stage, request>>
    PROVE  Observation'
  <1>1. BindingsObserved' /\ ScreenObserved'
    BY DEF Observation, BindingsObserved, ScreenObserved, Bound, ContentAt, Generation
  <1>2. SentByActive' /\ RequestIsHeads'
    BY DEF Observation, SentByActive, RequestIsHeads, Authorized, Task
  <1>3. OutcomeKnown'
    BY DEF Observation, OutcomeKnown, Bound, NoStudioAbove, Generation, Task
  <1> QED
    BY <1>1, <1>2, <1>3 DEF Observation

LEMMA FailedAnswer ==
    ASSUME Observation, Answer(Failed),
           UNCHANGED <<epoch, server, bindings, active, conflict, history>>
    PROVE  Observation'
  <1>1. reply' = Failed /\ reply' # None /\ ~reply'.ok
    BY FailedType, NoneAssumption DEF Answer, Failed
  <1>2. ReplyIsServers'
    BY <1>1 DEF ReplyIsServers
  <1> QED
    BY <1>1, <1>2, AnsweringStep DEF Answer

LEMMA LosingStep ==
    ASSUME Observation, LoseRequest \/ LoseReply
    PROVE  Observation'
  BY FailedAnswer DEF LoseRequest, LoseReply

LEMMA ServerGetStep ==
    ASSUME IInv, Observation, ServerGet
    PROVE  Observation'
  <1> DEFINE d == request.draft
  <1>1. d \in Drafts
    BY RequestDraft DEF IInv, ServerGet
  <1>2. UNCHANGED <<epoch, server, bindings, active, conflict, history, queue, stage, request>>
    BY DEF ServerGet, Answer
  <1>3. CASE server[d] = <<>>
    BY <1>2, <1>3, FailedAnswer DEF ServerGet
  <1>4. CASE server[d] # <<>>
    <2>1. reply' = [ok |-> TRUE, generation |-> Generation(d), content |-> Latest(d)]
      BY <1>4 DEF ServerGet, Answer
    <2>2. Generation(d) \in Nat \ {0} /\ Latest(d) = ContentAt(d, Generation(d))
          /\ Latest(d) \in Content
      BY <1>1, <1>4, GenerationType, LatestType DEF IInv
    <2>3. reply' \in Replies
      BY <2>1, <2>2 DEF Replies
    <2>4. reply' # None
      BY <2>3, NoneAssumption
    <2>5. reply'.generation = Generation(d) /\ reply'.content = Latest(d)
      BY <2>1
    <2>6. reply'.generation \in 1..Generation(d)
          /\ reply'.content = ContentAt(d, reply'.generation)
          /\ NoStudioAbove(d, reply'.generation)
      BY <2>2, <2>5 DEF NoStudioAbove
    <2>7. ReplyIsServers'
      BY <1>2, <2>6 DEF ReplyIsServers, ContentAt, NoStudioAbove, Generation, ServerGet
    <2> QED
      BY <1>2, <2>4, <2>7, AnsweringStep
  <1> QED
    BY <1>3, <1>4

\* A write the server accepts: its answer names the revision it added.
LEMMA ServerPutStep ==
    ASSUME IInv, IInv', Observation, ServerPut
    PROVE  Observation'
  <1>0. PICK d \in Drafts : d = request.draft
    BY RequestDraft DEF IInv, ServerPut
  <1>1. request # None /\ request.op # "get" /\ request \in Writes /\ d = request.draft
        /\ queue # <<>> /\ stage = "server"
    BY <1>0
    DEF IInv, TypeOK, ServerPut, Requests, Reads, Writes, QueueInv, StageMatchesHead
  <1>2. UNCHANGED <<epoch, bindings, active, conflict, history, queue, stage, request>>
    BY DEF ServerPut, Answer
  <1>3. CASE ~Accepts(request)
    BY <1>2, <1>3, FailedAnswer DEF ServerPut
  <1>4. CASE Accepts(request)
    <2> DEFINE r == [content |-> Written(request), by |-> "studio"]
    <2>1. /\ server' = [server EXCEPT ![d] = Append(@, r)]
          /\ reply' = [ok |-> TRUE, generation |-> Generation(d) + 1, content |-> Written(request)]
      BY <1>1, <1>4 DEF ServerPut, Answer, Store
    <2>2. Written(request) \in Content
      BY <1>1, <1>4, StoreType DEF IInv, ServerPut
    <2>3. r \in Revision /\ r.content = Written(request)
      BY <2>2 DEF Revision
    <2> HIDE DEF r
    <2>4. /\ Grows /\ Generation(d)' = Generation(d) + 1
          /\ server'[d][Generation(d) + 1] = r
      BY <1>0, <2>1, <2>3, Appended, ZenonT(60) DEF IInv
    <2>5. Generation(d) \in Nat /\ Generation(d) + 1 \in Nat
      <3>1. Generation(d) \in Nat
        BY <1>0, GenerationType DEF IInv
      <3> QED
        BY <3>1
    <2>6. reply' \in Replies
      BY <2>1, <2>2, <2>5 DEF Replies
    <2>7. reply' # None /\ reply'.generation = Generation(d) + 1
          /\ reply'.content = Written(request)
      BY <2>1, <2>6, NoneAssumption
    <2>8. ReplyIsServers'
      <3>1. /\ reply'.generation \in 1..Generation(d)'
            /\ reply'.content = server'[d][reply'.generation].content
        BY <2>3, <2>4, <2>5, <2>7
      <3>2. \A g \in reply'.generation + 1 .. Generation(d)' : server'[d][g].by # "studio"
        BY <2>4, <2>5, <2>7
      <3>3. request.op = "put" => reply'.content = request.content
        BY <2>7 DEF Written
      <3> QED
        BY <1>1, <1>2, <3>1, <3>2, <3>3 DEF ReplyIsServers, ContentAt, NoStudioAbove, Generation
    <2>9. BindingsObserved'
      <3>1. ASSUME NEW b \in 1..Len(bindings)
            PROVE  bindings[b].generation \in 1..Len(server'[bindings[b].draft])
        <4>1. PICK e \in Drafts : e = bindings[b].draft
          BY BindingDraft DEF IInv
        <4>2. bindings[b].generation \in 1..Generation(e) /\ Generation(e) <= Generation(e)'
              /\ Generation(e) \in Nat
          BY <2>4, <4>1, GenerationType DEF IInv, Grows, Observation, BindingsObserved
        <4>3. Generation(e)' \in Nat
          BY DEF IInv, TypeOK, Generation
        <4> QED
          BY <4>1, <4>2, <4>3 DEF Generation
      <3> QED
        BY <1>2, <3>1 DEF BindingsObserved, Generation
    <2>10. ScreenObserved'
      <3> SUFFICES ASSUME active # 0
                   PROVE  Top(history) = server'[Bound.draft][Bound.generation].content
        BY <1>2 DEF ScreenObserved, Bound, ContentAt
      <3>1. active \in 1..Len(bindings) /\ Bound.draft \in Drafts
        BY BindingDraft DEF IInv, Bound
      <3>2. Bound.generation \in 1..Generation(Bound.draft)
        BY <3>1 DEF Bound, Observation, BindingsObserved
      <3> QED
        BY <2>4, <3>1, <3>2 DEF Grows, Observation, ScreenObserved, ContentAt
    <2>11. SentByActive' /\ RequestIsHeads'
      BY <1>2 DEF Observation, SentByActive, RequestIsHeads, Authorized, Task
    <2>12. OutcomeKnown'
      <3>1. Task.kind # "attach"
        BY <1>1 DEF Observation, RequestIsHeads
      <3>2. active = 0 \/ Task.binding = active
        BY <1>1, <3>1 DEF Observation, SentByActive
      <3> QED
        BY <1>2, <2>7, <3>1, <3>2 DEF OutcomeKnown, Task
    <2> QED
      BY <2>8, <2>9, <2>10, <2>11, <2>12 DEF Observation
  <1> QED
    BY <1>3, <1>4

-----------------------------------------------------------------------------
(* The head of the queue settles *)

LEMMA TopOfPush ==
    ASSUME NEW h \in [undo : Seq(Content), redo : Seq(Content)], NEW c \in Content
    PROVE  Top(Push(h, c)) = c
  <1>1. /\ Append(h.undo, c) \in Seq(Content) /\ Len(h.undo) \in Nat
        /\ Len(Append(h.undo, c)) = Len(h.undo) + 1
        /\ Append(h.undo, c)[Len(h.undo) + 1] = c
    OBVIOUS
  <1> QED
    BY <1>1 DEF Top, Push, Last

\* Whatever was on screen, the content the server answered with is.
LEMMA TopOfReplaceState ==
    ASSUME NEW h \in [undo : Seq(Content), redo : Seq(Content)], NEW c \in Content
    PROVE  Top(ReplaceState(h, c)) = c
  BY TopOfPush DEF ReplaceState

LEMMA SettlingStep ==
    ASSUME Settle, BindingsObserved', ScreenObserved',
           active' # 0 /\ ~conflict' => NoStudioAbove(Bound.draft, Bound.generation)'
    PROVE  Observation'
  BY DEF Settle, Observation, SentByActive, RequestIsHeads, ReplyIsServers, OutcomeKnown

\* A task that was refused, withdrawn or failed: nothing of it is on its way, or
\* the conflict is flagged.
LEMMA GivingUpStep ==
    ASSUME Observation, Settle, UNCHANGED <<epoch, server, bindings, active, history>>,
           conflict => conflict',
           active = 0 \/ conflict' \/ reply = None \/ Task.kind = "attach"
    PROVE  Observation'
  <1>1. BindingsObserved' /\ ScreenObserved'
    BY DEF Observation, BindingsObserved, ScreenObserved, Bound, ContentAt, Generation
  <1>2. active' # 0 /\ ~conflict' => NoStudioAbove(Bound.draft, Bound.generation)'
    BY DEF Observation, OutcomeKnown, Bound, NoStudioAbove, Generation
  <1> QED
    BY <1>1, <1>2, SettlingStep

LEMMA RefusingStep ==
    ASSUME IInv, Observation,
           RefuseEdit \/ WithdrawEdit \/ RefuseStyle \/ RefuseAttach
    PROVE  Observation'
  <1>1. reply = None \/ Task.kind = "attach"
    BY DEF IInv, QueueInv, StageMatchesHead, RefuseEdit, WithdrawEdit, RefuseStyle, RefuseAttach,
           Running, Task
  <1>2. Settle /\ UNCHANGED <<epoch, server, bindings, active, history, conflict>>
    BY DEF RefuseEdit, WithdrawEdit, RefuseStyle, RefuseAttach
  <1> QED
    BY <1>1, <1>2, GivingUpStep

LEMMA FailEditStep ==
    ASSUME IInv, Observation, FailEdit \/ AbandonStyle
    PROVE  Observation'
  <1>1. Task.kind = "edit" /\ stage # "idle"
    BY DEF IInv, QueueInv, StageMatchesHead, FailEdit, AbandonStyle, Running, Task
  <1>2. active = 0 \/ (Authorized /\ Task.binding = active)
    BY <1>1 DEF Observation, SentByActive
  <1>3. Settle /\ UNCHANGED <<epoch, server, bindings, active, history>>
        /\ conflict' = (conflict \/ (Authorized /\ Task.binding = active))
    BY DEF FailEdit, AbandonStyle, MarkEditConflict
  <1>4. (conflict => conflict') /\ (active = 0 \/ conflict')
    BY <1>2, <1>3
  <1> QED
    BY <1>3, <1>4, GivingUpStep

\* An accepted write: the binding names the revision the answer names, and with
\* a draft attached its content is on screen.
LEMMA AcceptingStep ==
    ASSUME IInv, Observation, Running({"edit", "undo", "redo"}), reply # None, reply.ok,
           AcceptGeneration, Settle, UNCHANGED <<epoch, server, active>>,
           active # 0 => Top(history') = reply.content
    PROVE  Observation'
  <1>1. /\ Task.kind # "attach" /\ Task.binding \in 1..Len(bindings)
        /\ request # None /\ stage # "idle"
    BY HeadOfQueue DEF Running, Task, IInv, QueueInv, StageMatchesHead
  <1>2. request.draft = bindings[Task.binding].draft
    BY <1>1 DEF Observation, RequestIsHeads
  <1>3. active # 0 => Task.binding = active
    BY <1>1 DEF Observation, SentByActive
  <1>4. \A b \in 1..Len(bindings) : bindings[b] \in Binding
    BY BindingDraft DEF IInv
  <1>5. /\ Len(bindings') = Len(bindings)
        /\ \A b \in 1..Len(bindings) :
             /\ bindings'[b].draft = bindings[b].draft
             /\ bindings'[b].generation =
                  IF b = Task.binding THEN reply.generation ELSE bindings[b].generation
    <2>1. Len(bindings') = Len(bindings)
      BY <1>1, SuccessType, AcceptGenerationKeepsBindings
    <2>2. bindings \in Seq(Binding)
      BY DEF IInv, TypeOK
    <2> QED
      BY <1>1, <1>4, <2>1, <2>2 DEF AcceptGeneration, Binding
  <1>6. /\ reply.generation \in 1..Generation(request.draft)
        /\ reply.content = ContentAt(request.draft, reply.generation)
        /\ NoStudioAbove(request.draft, reply.generation)
    BY DEF Observation, ReplyIsServers
  <1>7. BindingsObserved'
    <2>1. \A b \in 1..Len(bindings) :
            bindings'[b].generation \in 1..Generation(bindings[b].draft)
      BY <1>2, <1>5, <1>6 DEF Observation, BindingsObserved
    <2> QED
      BY <1>5, <2>1 DEF BindingsObserved, Generation
  <1>8. active # 0 => /\ bindings'[active].draft = request.draft
                      /\ bindings'[active].generation = reply.generation
    BY <1>1, <1>2, <1>3, <1>5
  <1>9. ScreenObserved'
    BY <1>6, <1>8 DEF ScreenObserved, Bound, ContentAt, Top
  <1>10. active' # 0 => NoStudioAbove(Bound.draft, Bound.generation)'
    BY <1>6, <1>8 DEF Bound, NoStudioAbove, Generation
  <1> QED
    BY <1>7, <1>9, <1>10, SettlingStep

LEMMA FinishEditStep ==
    ASSUME IInv, Observation, FinishEdit
    PROVE  Observation'
  <1>1. reply.generation \in Nat /\ reply.content \in Content
    BY SuccessType DEF FinishEdit
  <1>2. history \in [undo : Seq(Content), redo : Seq(Content)] /\ history.undo # <<>>
    BY DEF IInv, TypeOK
  <1>3. Task.kind = "edit" /\ Task.command \in Commands /\ stage # "idle"
    BY HeadIsEdit DEF FinishEdit, Running, Task, EditTask, IInv, QueueInv, StageMatchesHead
  <1>4. active # 0 => Authorized
    BY <1>3 DEF Observation, SentByActive
  <1>5. active # 0 => Top(history') = reply.content
    <2>1. CASE ~Authorized
      BY <1>4, <2>1
    <2>2. CASE Authorized /\ IsStyle(Task.command)
      BY <1>1, <1>2, <2>2, TopOfReplaceState DEF FinishEdit
    <2>3. CASE Authorized /\ ~IsStyle(Task.command)
      <3> DEFINE pushed == Push(history, Applied(Top(history), Task.command))
      <3>1. pushed \in [undo : Seq(Content), redo : Seq(Content)]
        BY <1>2, <1>3, TopType, AppliedType, PushType
      <3>2. history' = ReplaceState(pushed, reply.content)
        BY <2>3 DEF FinishEdit
      <3> HIDE DEF pushed
      <3> QED
        BY <1>1, <3>1, <3>2, TopOfReplaceState
    <2> QED
      BY <2>1, <2>2, <2>3
  <1>6. Running({"edit", "undo", "redo"}) /\ reply # None /\ reply.ok /\ AcceptGeneration /\ Settle
        /\ UNCHANGED <<epoch, server, active>>
    BY DEF FinishEdit, Running
  <1> QED
    BY <1>5, <1>6, AcceptingStep

LEMMA FinishHistoryStep ==
    ASSUME IInv, Observation, FinishHistory
    PROVE  Observation'
  <1> DEFINE moved == Moved(history, Task.kind)
  <1>1. reply.generation \in Nat /\ reply.content \in Content
    BY SuccessType DEF FinishHistory
  <1>2. moved \in [undo : Seq(Content), redo : Seq(Content)]
    BY MovedType DEF IInv, TypeOK
  <1>3. history' = ReplaceState(moved, reply.content)
    BY DEF FinishHistory
  <1> HIDE DEF moved
  <1>4. Top(history') = reply.content
    BY <1>1, <1>2, <1>3, TopOfReplaceState
  <1>5. Running({"edit", "undo", "redo"}) /\ reply # None /\ reply.ok /\ AcceptGeneration /\ Settle
        /\ UNCHANGED <<epoch, server, active>>
    BY DEF FinishHistory, Running
  <1> QED
    BY <1>4, <1>5, AcceptingStep

\* An undo or redo that failed flags the attached draft, unless it was answered
\* after a sign-out.
LEMMA FailHistoryStep ==
    ASSUME IInv, Observation, FailHistory
    PROVE  Observation'
  <1>1. /\ Settle /\ UNCHANGED <<epoch, server, active, history>>
        /\ conflict' = (conflict \/ (Authorized /\ active # 0))
        /\ Task.kind # "attach"
    BY DEF FailHistory, Running, Task
  <1>2. stage # "idle" => active = 0 \/ Authorized
    BY <1>1 DEF Observation, SentByActive
  <1>3. CASE stage = "idle" /\ UNCHANGED bindings
    <2>1. reply = None
      BY <1>3 DEF IInv, QueueInv, StageMatchesHead
    <2>2. conflict => conflict'
      BY <1>1
    <2> QED
      BY <1>1, <1>3, <2>1, <2>2, GivingUpStep
  <1>4. CASE reply # None /\ ~reply.ok /\ UNCHANGED bindings
    <2>1. stage # "idle"
      BY <1>4 DEF IInv, QueueInv, StageMatchesHead
    <2>2. (conflict => conflict') /\ (active = 0 \/ conflict')
      BY <1>1, <1>2, <2>1
    <2> QED
      BY <1>1, <1>4, <2>2, GivingUpStep
  <1>5. CASE reply # None /\ reply.ok /\ ~Authorized /\ AcceptGeneration
    <2>1. stage # "idle"
      BY <1>5 DEF IInv, QueueInv, StageMatchesHead
    <2>2. active = 0
      BY <1>2, <1>5, <2>1
    <2>3. Running({"edit", "undo", "redo"})
      BY DEF FailHistory, Running
    <2> QED
      BY <1>1, <1>5, <2>2, <2>3, AcceptingStep
  <1> QED
    BY <1>3, <1>4, <1>5 DEF FailHistory

\* A read that may be adopted: the new binding names what the read returned.
LEMMA FinishAttachStep ==
    ASSUME IInv, Observation, FinishAttach
    PROVE  Observation'
  <1> DEFINE new == [draft |-> Task.draft, generation |-> reply.generation,
                     auth |-> auth, epoch |-> Task.epoch]
  <1>1. /\ Task.kind = "attach" /\ Task \in AttachTask /\ reply # None /\ reply.ok
        /\ request # None /\ Settle /\ UNCHANGED server
    BY HeadIsAttach
    DEF FinishAttach, Running, Task, IInv, QueueInv, StageMatchesHead
  <1>2. request.draft = Task.draft
    BY <1>1 DEF Observation, RequestIsHeads
  <1>3. /\ reply.generation \in 1..Generation(Task.draft)
        /\ reply.content = ContentAt(Task.draft, reply.generation)
        /\ NoStudioAbove(Task.draft, reply.generation)
    BY <1>1, <1>2 DEF Observation, ReplyIsServers
  <1>4. reply.generation \in Nat /\ reply.content \in Content
    BY <1>1, SuccessType
  <1>5. new \in Binding /\ new.draft = Task.draft /\ new.generation = reply.generation
    BY <1>1, <1>4 DEF IInv, TypeOK, Binding, AttachTask
  <1>6. bindings \in Seq(Binding) /\ bindings' = Append(bindings, new)
        /\ active' = Len(bindings) + 1
    BY DEF IInv, TypeOK, FinishAttach
  <1> HIDE DEF new
  <1>7. /\ Len(bindings) \in Nat /\ Len(bindings') = Len(bindings) + 1
        /\ \A b \in 1..Len(bindings) : bindings'[b] = bindings[b]
        /\ bindings'[active'] = new
    BY <1>5, <1>6
  <1>8. BindingsObserved'
    <2>1. ASSUME NEW b \in 1..Len(bindings')
          PROVE  bindings'[b].generation \in 1..Generation(bindings'[b].draft)
      <3>1. CASE b \in 1..Len(bindings)
        BY <1>7, <3>1 DEF Observation, BindingsObserved
      <3>2. CASE b = Len(bindings) + 1
        BY <1>3, <1>5, <1>6, <1>7, <3>2
      <3> QED
        BY <1>7, <3>1, <3>2
    <2> QED
      BY <1>1, <2>1 DEF BindingsObserved, Generation
  <1>9. Top(history') = reply.content
    <2>1. history' = Baseline(reply.content) \/ history' = ReplaceState(history, reply.content)
      BY DEF FinishAttach
    <2>2. Top(Baseline(reply.content)) = reply.content
      BY <1>4 DEF Top, Baseline, Last
    <2>3. Top(ReplaceState(history, reply.content)) = reply.content
      BY <1>4, TopOfReplaceState DEF IInv, TypeOK
    <2> QED
      BY <2>1, <2>2, <2>3
  <1>10. ScreenObserved'
    BY <1>1, <1>3, <1>5, <1>7, <1>9 DEF ScreenObserved, Bound, ContentAt, Top
  <1>11. NoStudioAbove(Bound.draft, Bound.generation)'
    BY <1>1, <1>3, <1>5, <1>7 DEF Bound, NoStudioAbove, Generation
  <1> QED
    BY <1>1, <1>8, <1>10, <1>11, SettlingStep

-----------------------------------------------------------------------------
(* Every step *)

LEMMA InitObservation == Init => Observation
  BY DEF Init, Observation, BindingsObserved, ScreenObserved, SentByActive, RequestIsHeads,
         ReplyIsServers, OutcomeKnown

LEMMA NextObservation ==
    ASSUME IInv, Observation, [Next]_vars, [UndoOfActiveDraft]_vars
    PROVE  Observation'
  <1>1. IInv'
    BY NextInv
  <1>2. CASE Call
    BY <1>1, <1>2, QuietStep, QueueingStep, RevokingStep, RebindingStep, RefusingStep DEF Call
  <1>3. CASE Resume
    BY <1>1, <1>3, QuietStep, QueueingStep, CreatingStep DEF Resume
  <1>4. CASE RunQueue
    <2>1. CASE StartHistory
      <3>1. stage' # stage
        BY <2>1 DEF StartHistory
      <3>2. UndoOfActiveDraft
        BY <3>1 DEF vars
      <3> QED
        BY <2>1, <3>2, StartHistoryStep
    <2> QED
      BY <1>4, <2>1, RefusingStep, StartEditStep, SendStyleStep, FailEditStep, FinishEditStep,
         StartAttachStep, FinishAttachStep, FinishHistoryStep, FailHistoryStep
      DEF RunQueue
  <1>5. CASE Respond
    BY <1>1, <1>5, ServerGetStep, ServerPutStep DEF Respond
  <1>6. CASE Network
    BY <1>1, <1>6, LosingStep, OthersWriteStep DEF Network
  <1>7. CASE UNCHANGED vars
    BY <1>1, <1>7, QuietStep
  <1> QED
    BY <1>2, <1>3, <1>4, <1>5, <1>6, <1>7 DEF Next

LEMMA ObservationHolds == Spec /\ [][UndoOfActiveDraft]_vars => []Observation
  <1>1. IInv /\ Observation /\ [Next]_vars /\ [UndoOfActiveDraft]_vars => Observation'
    BY NextObservation
  <1> QED
    BY <1>1, InitObservation, Invariance, PTL DEF Spec

-----------------------------------------------------------------------------
(* What the observation gives *)

LEMMA KnownBetweenTasks == IInv /\ Observation => ObservedOrInConflict
  <1> SUFFICES ASSUME IInv, Observation PROVE ObservedOrInConflict
    OBVIOUS
  <1>1. active # 0 => active \in 1..Len(bindings)
    BY BindingDraft DEF IInv
  <1>2. CompositionIsObserved
    BY <1>1 DEF Observation, BindingsObserved, ScreenObserved, CompositionIsObserved, Bound,
                ContentAt
  <1>3. stage = "idle" => reply = None
    BY DEF IInv, QueueInv, StageMatchesHead
  <1>4. UnknownOutcomeIsConflict
    BY <1>3 DEF Observation, OutcomeKnown, UnknownOutcomeIsConflict, Bound, NoStudioAbove
  <1> QED
    BY <1>2, <1>4 DEF ObservedOrInConflict

\* Between two tasks the screen shows the revision the next write names, and
\* what this session wrote without learning of it is flagged, however edits,
\* reads, other writers, lost answers and sign-outs interleave (#runDraftEdit,
\* observe, markConflict).
THEOREM Observed == Spec /\ [][UndoOfActiveDraft]_vars => []ObservedOrInConflict
  BY KnownBetweenTasks, ObservationHolds, Invariance, PTL

LEMMA TurnStep ==
    ASSUME IInv, Observation, [Next]_vars, turn' # turn, turn' # None, stage = "idle"
    PROVE  \A g \in turn'.generation + 1 .. Generation(turn'.draft) :
             server[turn'.draft][g].by # "studio"
  <1>1. ~ UNCHANGED turn
    OBVIOUS
  <1>2. ResumeTurn
    <2>1. CASE Call
      BY <1>1, <2>1
      DEF Call, Dispatch, Attach, ApplyHistory, Refresh, PrepareTurn, Create, Wait, EditForm,
          SettleForm, RevokeAuthority, ReplaceAuth, WithdrawEdit
    <2>2. CASE Resume
      BY <1>1, <2>2 DEF Resume, ResumeRefresh, PostCreate, CreateAnswered, CreateFails
    <2>3. CASE RunQueue
      BY <1>1, <2>3
      DEF RunQueue, RefuseEdit, StartEdit, SendStyle, AbandonStyle, RefuseStyle, FinishEdit,
          FailEdit, StartAttach, FinishAttach, RefuseAttach, StartHistory, FinishHistory,
          FailHistory
    <2>4. CASE Respond \/ Network
      BY <1>1, <2>4
      DEF Respond, ServerGet, ServerPut, Network, LoseRequest, LoseReply, LateWrite, OtherWrite
    <2>5. CASE UNCHANGED vars
      BY <1>1, <2>5 DEF vars
    <2> QED
      BY <2>1, <2>2, <2>3, <2>4, <2>5 DEF Next
  <1>3. /\ active # 0 /\ ~conflict
        /\ turn' = [draft |-> Bound.draft, generation |-> Bound.generation]
    BY <1>2 DEF ResumeTurn, EditPending, Bound
  <1>4. reply = None
    BY DEF IInv, QueueInv, StageMatchesHead
  <1>5. NoStudioAbove(Bound.draft, Bound.generation)
    BY <1>3, <1>4 DEF Observation, OutcomeKnown
  <1> QED
    BY <1>3, <1>5 DEF NoStudioAbove

\* A captured turn names the newest revision this session wrote (prepareTurn).
THEOREM TurnsSeeOwnWrites == Spec /\ [][UndoOfActiveDraft]_vars => TurnSeesOwnWrites
  <1>1. IInv /\ Observation /\ [Next]_vars
        => [turn' # turn /\ turn' # None /\ stage = "idle" =>
              \A g \in turn'.generation + 1 .. Generation(turn'.draft) :
                server[turn'.draft][g].by # "studio"]_vars
    BY TurnStep
  <1> QED
    BY <1>1, ObservationHolds, Invariance, PTL DEF Spec, TurnSeesOwnWrites

-----------------------------------------------------------------------------
(* Undo and redo *)

\* What the stack offers is what moving it puts on screen.
LEMMA MovedToPeek ==
    ASSUME NEW h \in [undo : Seq(Content), redo : Seq(Content)], h.undo # <<>>,
           NEW action, CanMove(h, action)
    PROVE  Top(Moved(h, action)) = Peek(h, action)
  <1>1. CASE action = "undo"
    <2>1. h.undo \in Seq(Content) /\ Len(h.undo) \in Nat /\ Len(h.undo) > 1
      BY <1>1 DEF CanMove
    <2>2. /\ Front(h.undo) \in Seq(Content) /\ Len(Front(h.undo)) = Len(h.undo) - 1
          /\ Front(h.undo)[Len(h.undo) - 1] = h.undo[Len(h.undo) - 1]
      BY <2>1 DEF Front
    <2>3. Moved(h, action).undo = Front(h.undo)
      BY <1>1, <2>1 DEF Moved, Undone
    <2> QED
      BY <1>1, <2>2, <2>3 DEF Top, Last, Peek
  <1>2. CASE action # "undo"
    <2>1. h.redo # <<>> /\ Last(h.redo) \in Content /\ h.undo \in Seq(Content)
      BY <1>2 DEF CanMove, Last
    <2>2. Moved(h, action).undo = Append(h.undo, Last(h.redo))
      BY <1>2, <2>1 DEF Moved, Redone
    <2>3. Last(Append(h.undo, Last(h.redo))) = Last(h.redo)
      <3>1. \A s \in Seq(Content) : \A c \in Content : Last(Append(s, c)) = c
        BY DEF Last
      <3> QED
        BY <2>1, <3>1
    <2> QED
      BY <1>2, <2>2, <2>3 DEF Top, Peek
  <1> QED
    BY <1>1, <1>2

LEMMA HistoryStep ==
    ASSUME IInv, Observation, [Next]_vars, historyBusy, ~historyBusy', history' # history,
           CanMove(history, Task.kind), Task.target = Peek(history, Task.kind)
    PROVE  history' = Moved(history, Task.kind)
  <1>1. ~ UNCHANGED historyBusy /\ ~ UNCHANGED history
    OBVIOUS
  <1>2. FinishHistory
    <2>1. CASE Call
      BY <1>1, <2>1
      DEF Call, Dispatch, Attach, ApplyHistory, Refresh, PrepareTurn, Create, Wait, EditForm,
          SettleForm, RevokeAuthority, ReplaceAuth, WithdrawEdit
    <2>2. CASE Resume
      BY <1>1, <2>2 DEF Resume, ResumeRefresh, ResumeTurn, PostCreate, CreateAnswered, CreateFails
    <2>3. CASE RunQueue
      BY <1>1, <2>3
      DEF RunQueue, RefuseEdit, StartEdit, SendStyle, AbandonStyle, RefuseStyle, FinishEdit,
          FailEdit, StartAttach, FinishAttach, RefuseAttach, StartHistory, FailHistory
    <2>4. CASE Respond \/ Network
      BY <1>1, <2>4
      DEF Respond, ServerGet, ServerPut, Network, LoseRequest, LoseReply, LateWrite, OtherWrite
    <2>5. CASE UNCHANGED vars
      BY <1>1, <2>5 DEF vars
    <2> QED
      BY <2>1, <2>2, <2>3, <2>4, <2>5 DEF Next
  <1>3. Task.kind \in {"undo", "redo"} /\ reply # None /\ reply.ok /\ request # None
    BY <1>2 DEF FinishHistory, Running, Task, IInv, QueueInv, StageMatchesHead
  <1>4. request.op = "put" /\ request.content = Task.target
    BY <1>3 DEF Observation, RequestIsHeads
  <1>5. reply.content = Task.target
    BY <1>3, <1>4 DEF Observation, ReplyIsServers
  <1>6. Top(Moved(history, Task.kind)) = reply.content
    BY <1>5, MovedToPeek DEF IInv, TypeOK
  <1>7. history' = ReplaceState(Moved(history, Task.kind), reply.content)
    BY <1>2 DEF FinishHistory
  <1> QED
    BY <1>6, <1>7 DEF ReplaceState

\* An undo or redo whose target is still the next state moves the history by
\* exactly one revision, and leaves what is on screen observed and whose it is
\* unchanged (applyHistory, replaceDraftHistory).
THEOREM ExactHistory == Spec /\ [][UndoOfActiveDraft]_vars => HistoryIsExact
  <1>1. IInv /\ Observation /\ [Next]_vars
        => [historyBusy /\ ~historyBusy' /\ history' # history /\ CanMove(history, Task.kind)
              /\ Task.target = Peek(history, Task.kind)
            => history' = Moved(history, Task.kind)]_vars
    BY HistoryStep
  <1>2. Spec /\ [][UndoOfActiveDraft]_vars => UndisturbedHistoryIsExact
    BY <1>1, ObservationHolds, Invariance, PTL DEF Spec, UndisturbedHistoryIsExact
  <1> QED
    BY <1>2, CurrentAuthority, Observed, PTL DEF HistoryIsExact

-----------------------------------------------------------------------------
(* Whose content it is *)

\* A command neither adds nor removes a draft's mark.
LEMMA AppliedMark ==
    ASSUME NEW content \in Content, NEW c \in Commands
    PROVE  Applied(content, c) \intersect Drafts = content \intersect Drafts
  <1>1. c.name = "addLayer" \/ c.name = "removeLayer" => c.target \in Layers
    BY DEF Commands
  <1>2. c.name = "addLayer" \/ c.name = "removeLayer" \/ (c.name = "setMapStyle" /\ c.target \in Styles)
    BY DEF Commands
  <1> QED
    BY <1>1, <1>2, MarksAssumption DEF Applied, WithStyle

\* The stacks of a composition built from one draft.
LEMMA OwnBaseline ==
    ASSUME NEW d, NEW content, Own(content, d)
    PROVE  OwnStacks(Baseline(content), d)
  <1>1. /\ Baseline(content).undo = <<content>> /\ Baseline(content).redo = <<>>
        /\ Len(<<content>>) = 1 /\ Len(<<>>) = 0 /\ <<content>>[1] = content
    BY DEF Baseline
  <1> QED
    BY <1>1 DEF OwnStacks

LEMMA OwnPush ==
    ASSUME NEW h \in [undo : Seq(Content), redo : Seq(Content)], NEW d, NEW content \in Content,
           OwnStacks(h, d), Own(content, d)
    PROVE  OwnStacks(Push(h, content), d)
  <1>1. /\ h.undo \in Seq(Content) /\ Len(h.undo) \in Nat
        /\ Len(Append(h.undo, content)) = Len(h.undo) + 1
        /\ Append(h.undo, content)[Len(h.undo) + 1] = content
        /\ \A i \in 1..Len(h.undo) : Append(h.undo, content)[i] = h.undo[i]
    OBVIOUS
  <1>2. /\ Push(h, content).undo = Append(h.undo, content)
        /\ Push(h, content).redo = <<>> /\ Len(<<>>) = 0
    BY DEF Push
  <1>3. \A i \in 1..Len(h.undo) + 1 : i \in 1..Len(h.undo) \/ i = Len(h.undo) + 1
    BY <1>1
  <1> QED
    BY <1>1, <1>2, <1>3 DEF OwnStacks

LEMMA OwnReplaceState ==
    ASSUME NEW h \in [undo : Seq(Content), redo : Seq(Content)], NEW d, NEW content \in Content,
           OwnStacks(h, d), Own(content, d)
    PROVE  OwnStacks(ReplaceState(h, content), d)
  BY OwnPush DEF ReplaceState

LEMMA OwnTop ==
    ASSUME NEW h \in [undo : Seq(Content), redo : Seq(Content)], h.undo # <<>>, NEW d,
           OwnStacks(h, d)
    PROVE  Own(Top(h), d)
  <1>1. h.undo \in Seq(Content) /\ Len(h.undo) \in 1..Len(h.undo)
    BY EmptySeq
  <1> QED
    BY <1>1 DEF OwnStacks, Top, Last

LEMMA OwnPeek ==
    ASSUME NEW h \in [undo : Seq(Content), redo : Seq(Content)], NEW d, NEW action,
           OwnStacks(h, d), CanMove(h, action)
    PROVE  Own(Peek(h, action), d)
  <1>1. CASE action = "undo"
    <2>1. Len(h.undo) \in Nat /\ Len(h.undo) > 1
      BY <1>1 DEF CanMove
    <2>2. Len(h.undo) - 1 \in 1..Len(h.undo)
      BY <2>1
    <2> QED
      BY <1>1, <2>2 DEF OwnStacks, Peek
  <1>2. CASE action # "undo"
    <2>1. h.redo \in Seq(Content) /\ h.redo # <<>>
      BY <1>2 DEF CanMove
    <2>2. Len(h.redo) \in 1..Len(h.redo)
      BY <2>1, EmptySeq
    <2> QED
      BY <1>2, <2>2 DEF OwnStacks, Peek, Last
  <1> QED
    BY <1>1, <1>2

\* Undo and redo only move content from one stack to the other.
LEMMA OwnMoved ==
    ASSUME NEW h \in [undo : Seq(Content), redo : Seq(Content)], NEW d, NEW action,
           OwnStacks(h, d)
    PROVE  OwnStacks(Moved(h, action), d)
  <1>1. h.undo \in Seq(Content) /\ h.redo \in Seq(Content)
        /\ Len(h.undo) \in Nat /\ Len(h.redo) \in Nat
    OBVIOUS
  <1>2. ASSUME NEW s \in Seq(Content), NEW e \in Content, Own(e, d),
               \A i \in 1..Len(s) : Own(s[i], d)
        PROVE  \A i \in 1..Len(Append(s, e)) : Own(Append(s, e)[i], d)
    <2>1. Len(s) \in Nat /\ Len(Append(s, e)) = Len(s) + 1 /\ Append(s, e)[Len(s) + 1] = e
          /\ \A i \in 1..Len(s) : Append(s, e)[i] = s[i]
      OBVIOUS
    <2>2. \A i \in 1..Len(s) + 1 : i \in 1..Len(s) \/ i = Len(s) + 1
      BY <2>1
    <2> QED
      BY <1>2, <2>1, <2>2
  <1>3. ASSUME NEW s \in Seq(Content), s # <<>>, \A i \in 1..Len(s) : Own(s[i], d)
        PROVE  \A i \in 1..Len(Front(s)) : Own(Front(s)[i], d)
    <2>1. Len(s) \in Nat \ {0}
      BY <1>3, EmptySeq
    <2> DEFINE f == SubSeq(s, 1, Len(s) - 1)
    <2>2. Front(s) = f
      BY DEF Front
    <2>3. Len(f) = Len(s) - 1 /\ \A i \in 1..Len(s) - 1 : f[i] = s[i]
      <3>1. PICK n \in Nat : n = Len(s) - 1
        BY <2>1
      <3>2. \A i \in 1..n : s[i] \in Content
        BY <2>1, <3>1
      <3>3. /\ Len(f) = IF 1 <= n THEN n - 1 + 1 ELSE 0
            /\ \A i \in 1 .. n - 1 + 1 : f[i] = s[1 + i - 1]
        BY <3>1, <3>2, SubSeqProperties
      <3> HIDE DEF f
      <3>4. n - 1 + 1 = n /\ Len(f) = n
        BY <3>3
      <3>5. \A i \in 1..n : 1 + i - 1 = i
        OBVIOUS
      <3> QED
        BY <3>1, <3>3, <3>4, <3>5
    <2> HIDE DEF f
    <2>4. \A i \in 1..Len(s) - 1 : i \in 1..Len(s)
      BY <2>1
    <2> QED
      BY <1>3, <2>2, <2>3, <2>4
  <1>4. CASE action = "undo" /\ Len(h.undo) > 1
    <2>1. h.undo # <<>> /\ Top(h) \in Content /\ Own(Top(h), d)
      <3>1. h.undo # <<>>
        BY <1>1, <1>4, EmptySeq
      <3> QED
        BY <3>1, OwnTop, TopType
    <2>2. Moved(h, action) = [undo |-> Front(h.undo), redo |-> Append(h.redo, Top(h))]
      BY <1>4 DEF Moved, Undone
    <2>3. \A i \in 1..Len(Front(h.undo)) : Own(Front(h.undo)[i], d)
      BY <1>1, <1>3, <2>1 DEF OwnStacks
    <2>4. \A i \in 1..Len(Append(h.redo, Top(h))) : Own(Append(h.redo, Top(h))[i], d)
      BY <1>1, <1>2, <2>1 DEF OwnStacks
    <2> QED
      BY <2>2, <2>3, <2>4 DEF OwnStacks
  <1>5. CASE action # "undo" /\ h.redo # <<>>
    <2>1. Len(h.redo) \in 1..Len(h.redo)
      BY <1>1, <1>5, EmptySeq
    <2>2. Last(h.redo) \in Content /\ Own(Last(h.redo), d)
      BY <1>1, <2>1 DEF OwnStacks, Last
    <2>3. Moved(h, action) = [undo |-> Append(h.undo, Last(h.redo)), redo |-> Front(h.redo)]
      BY <1>5 DEF Moved, Redone
    <2>4. \A i \in 1..Len(Front(h.redo)) : Own(Front(h.redo)[i], d)
      BY <1>1, <1>3, <1>5 DEF OwnStacks
    <2>5. \A i \in 1..Len(Append(h.undo, Last(h.redo))) : Own(Append(h.undo, Last(h.redo))[i], d)
      BY <1>1, <1>2, <2>2 DEF OwnStacks
    <2> QED
      BY <2>3, <2>4, <2>5 DEF OwnStacks
  <1>6. CASE \/ action = "undo" /\ ~(Len(h.undo) > 1)
             \/ action # "undo" /\ h.redo = <<>>
    <2>1. Moved(h, action) = h
      BY <1>6 DEF Moved, Undone, Redone
    <2> QED
      BY <2>1
  <1> QED
    BY <1>4, <1>5, <1>6

\* A binding is never turned to another draft.
LEMMA DraftsStay ==
    ASSUME IInv, [Next]_vars
    PROVE  /\ Len(bindings) <= Len(bindings')
           /\ \A b \in 1..Len(bindings) : bindings'[b].draft = bindings[b].draft
  <1>1. /\ bindings \in Seq(Binding) /\ Len(bindings) \in Nat
        /\ \A b \in 1..Len(bindings) : bindings[b] \in Binding
    BY BindingDraft DEF IInv, TypeOK
  <1>2. CASE UNCHANGED bindings
    BY <1>1, <1>2
  <1>3. CASE ReplaceAuth
    <2>1. bindings' = [b \in 1..Len(bindings) |->
                         IF b = active THEN [bindings[b] EXCEPT !.auth = auth'] ELSE bindings[b]]
      BY <1>1, <1>3 DEF ReplaceAuth
    <2>2. \A b \in 1..Len(bindings) : bindings'[b].draft = bindings[b].draft
      BY <1>1, <2>1 DEF Binding
    <2>3. Len(bindings') = Len(bindings)
      <3>1. IInv'
        BY NextInv
      <3>2. DOMAIN bindings' = 1..Len(bindings') /\ Len(bindings') \in Nat
        BY <3>1 DEF IInv, TypeOK
      <3>3. DOMAIN bindings' = 1..Len(bindings)
        BY <2>1
      <3> QED
        BY <1>1, <3>2, <3>3
    <2> QED
      BY <1>1, <2>2, <2>3
  <1>4. CASE Running({"edit", "undo", "redo"}) /\ reply # None /\ reply.ok /\ AcceptGeneration
    <2>1. Task.kind # "attach" /\ Task.binding \in 1..Len(bindings)
      BY <1>4, HeadOfQueue DEF Running, Task
    <2>2. Len(bindings') = Len(bindings)
      BY <1>4, <2>1, SuccessType, AcceptGenerationKeepsBindings
    <2>3. \A b \in 1..Len(bindings) : bindings'[b].draft = bindings[b].draft
      BY <1>1, <1>4, <2>1 DEF AcceptGeneration, Binding
    <2> QED
      BY <1>1, <2>2, <2>3
  <1>5. CASE FinishAttach
    <2>1. \E b : bindings' = Append(bindings, b)
      BY <1>5 DEF FinishAttach
    <2>2. PICK new : bindings' = Append(bindings, new)
      BY <2>1
    <2>3. bindings \in Seq(Binding \union {new})
      BY <1>1, SeqMonotonic
    <2> QED
      BY <1>1, <2>2, <2>3
  <1>6. CASE Call /\ ~ReplaceAuth
    BY <1>2, <1>6
    DEF Call, Dispatch, Attach, ApplyHistory, Refresh, PrepareTurn, Create, Wait, EditForm,
        SettleForm, RevokeAuthority, WithdrawEdit
  <1>7. CASE Resume
    BY <1>2, <1>7 DEF Resume, ResumeRefresh, ResumeTurn, PostCreate, CreateAnswered, CreateFails
  <1>8. CASE FinishEdit \/ FinishHistory \/ FailHistory
    BY <1>2, <1>4, <1>8 DEF FinishEdit, FinishHistory, FailHistory, Running
  <1>9. CASE \/ RefuseEdit \/ StartEdit \/ SendStyle \/ AbandonStyle \/ RefuseStyle \/ FailEdit
             \/ StartAttach \/ RefuseAttach \/ StartHistory
    BY <1>2, <1>9
    DEF RefuseEdit, StartEdit, SendStyle, AbandonStyle, RefuseStyle, FailEdit, StartAttach,
        RefuseAttach, StartHistory
  <1>10. CASE Respond \/ Network \/ UNCHANGED vars
    BY <1>2, <1>10
    DEF Respond, ServerGet, ServerPut, Network, LoseRequest, LoseReply, LateWrite, OtherWrite, vars
  <1> QED
    BY <1>3, <1>5, <1>6, <1>7, <1>8, <1>9, <1>10 DEF Next, RunQueue

\* How a step changes the queue.
LEMMA QueueStep ==
    ASSUME IInv, [Next]_vars
    PROVE  \/ queue' = queue
           \/ queue # <<>> /\ queue' = Tail(queue)
           \/ \E task \in Tasks : task.kind \in {"edit", "attach"} /\ queue' = Append(queue, task)
           \/ \E action \in {"undo", "redo"} : ApplyHistory(action)
  <1>1. CASE Call
    <2>1. ASSUME NEW c \in Commands, Dispatch(c)
          PROVE  \E task \in Tasks : task.kind \in {"edit", "attach"} /\ queue' = Append(queue, task)
      <3>1. [kind |-> "edit", binding |-> active, epoch |-> epoch, command |-> c] \in Tasks
        BY BindingDraft DEF IInv, TypeOK, Tasks, EditTask
      <3> QED
        BY <2>1, <3>1 DEF Dispatch, Enqueue
    <2>2. ASSUME NEW d \in Drafts, Attach(d)
          PROVE  \E task \in Tasks : task.kind \in {"edit", "attach"} /\ queue' = Append(queue, task)
      <3>1. [kind |-> "attach", draft |-> d, epoch |-> epoch, by |-> "host"] \in Tasks
        BY DEF IInv, TypeOK, Tasks, AttachTask
      <3> QED
        BY <2>2, <3>1 DEF Attach, Enqueue
    <2>3. CASE \/ Refresh \/ PrepareTurn \/ Create \/ SettleForm \/ RevokeAuthority \/ ReplaceAuth
               \/ \E kind \in {"form", "style"} : EditForm(kind)
      BY <2>3 DEF Refresh, PrepareTurn, Create, Wait, SettleForm, RevokeAuthority, ReplaceAuth,
                  EditForm
    <2>4. CASE WithdrawEdit
      BY <2>4 DEF WithdrawEdit, Settle, Running
    <2> QED
      BY <1>1, <2>1, <2>2, <2>3, <2>4 DEF Call
  <1>2. CASE Resume
    <2>1. CASE ResumeRefresh
      <3> DEFINE captured == callers["refresh"].binding
      <3>1. CASE captured # 0 /\ captured = active /\ ~EditPending
        <4>1. bindings[captured].draft \in Drafts
          BY <3>1, BindingDraft DEF IInv
        <4>2. [kind |-> "attach", draft |-> bindings[captured].draft, epoch |-> epoch,
               by |-> "refresh"] \in Tasks
          BY <4>1 DEF IInv, TypeOK, Tasks, AttachTask
        <4> QED
          BY <2>1, <3>1, <4>2 DEF ResumeRefresh, Enqueue
      <3>2. CASE ~(captured # 0 /\ captured = active /\ ~EditPending)
        BY <2>1, <3>2 DEF ResumeRefresh
      <3> QED
        BY <3>1, <3>2
    <2>2. ASSUME NEW d \in Drafts, CreateAnswered(d)
          PROVE  \/ queue' = queue
                 \/ \E task \in Tasks : task.kind \in {"edit", "attach"} /\ queue' = Append(queue, task)
      <3>1. [kind |-> "attach", draft |-> d, epoch |-> epoch, by |-> "create"] \in Tasks
        BY DEF IInv, TypeOK, Tasks, AttachTask
      <3> QED
        BY <2>2, <3>1 DEF CreateAnswered, Enqueue
    <2>3. CASE ResumeTurn \/ PostCreate \/ CreateFails
      BY <2>3 DEF ResumeTurn, PostCreate, CreateFails
    <2> QED
      BY <1>2, <2>1, <2>2, <2>3 DEF Resume
  <1>3. CASE RunQueue
    <2>1. CASE StartEdit \/ SendStyle \/ StartAttach \/ StartHistory
      BY <2>1 DEF StartEdit, SendStyle, StartAttach, StartHistory
    <2>2. CASE \/ RefuseEdit \/ FinishEdit \/ FailEdit \/ FinishAttach \/ RefuseAttach
               \/ FinishHistory \/ FailHistory
      BY <2>2 DEF RefuseEdit, FinishEdit, FailEdit, FinishAttach, RefuseAttach, FinishHistory,
                  FailHistory, Settle, Running
    <2>3. CASE AbandonStyle \/ RefuseStyle
      BY <2>3 DEF AbandonStyle, RefuseStyle, Settle, IInv, QueueInv, StageMatchesHead, Running
    <2> QED
      BY <1>3, <2>1, <2>2, <2>3 DEF RunQueue
  <1>4. CASE Respond \/ Network
    BY <1>4 DEF Respond, ServerGet, ServerPut, Network, LoseRequest, LoseReply, LateWrite,
                OtherWrite, Answer
  <1>5. CASE UNCHANGED vars
    BY <1>5 DEF vars
  <1> QED
    BY <1>1, <1>2, <1>3, <1>4, <1>5 DEF Next

LEMMA ReplyIsOwn ==
    ASSUME IInv, Observation, NoForeignContent, reply # None, reply.ok
    PROVE  Own(reply.content, request.draft)
  <1>1. PICK d \in Drafts : d = request.draft
    BY RequestDraft DEF IInv, QueueInv, StageMatchesHead
  <1>2. reply.generation \in 1..Generation(d) /\ reply.content = ContentAt(d, reply.generation)
    BY <1>1 DEF Observation, ReplyIsServers
  <1> QED
    BY <1>1, <1>2 DEF NoForeignContent, ContentAt, Own

\* Another revision of the draft's own keeps every draft's content its own.
LEMMA OwnGrows ==
    ASSUME TypeOK, NoForeignContent, NEW d \in Drafts, NEW r \in Revision, Own(r.content, d),
           server' = [server EXCEPT ![d] = Append(@, r)]
    PROVE  NoForeignContent'
  <1>1. /\ Grows /\ Generation(d)' = Generation(d) + 1 /\ server'[d][Generation(d) + 1] = r
        /\ \A other \in Drafts \ {d} : server'[other] = server[other]
    BY Appended
  <1>2. Generation(d) \in Nat
    BY GenerationType
  <1>3. ASSUME NEW e \in Drafts, NEW g \in 1 .. Len(server'[e])
        PROVE  server'[e][g].content \intersect Drafts \subseteq {e}
    <2>1. CASE e # d
      BY <1>1, <1>3, <2>1 DEF NoForeignContent, Generation
    <2>2. CASE e = d /\ g = Generation(d) + 1
      BY <1>1, <2>2 DEF Own
    <2>3. CASE e = d /\ g # Generation(d) + 1
      <3>1. g \in 1..Generation(d)
        BY <1>1, <1>2, <1>3, <2>3 DEF Generation
      <3> QED
        BY <1>1, <2>3, <3>1 DEF NoForeignContent, Grows
    <2> QED
      BY <2>1, <2>2, <2>3
  <1> QED
    BY <1>3 DEF NoForeignContent, Generation

LEMMA LatestIsOwn ==
    ASSUME TypeOK, NoForeignContent, NEW d \in Drafts, server[d] # <<>>
    PROVE  Latest(d) \in Content /\ Own(Latest(d), d)
  <1>1. Latest(d) \in Content /\ Latest(d) = ContentAt(d, Generation(d))
        /\ Generation(d) \in Nat \ {0}
    BY LatestType, GenerationType
  <1> QED
    BY <1>1 DEF NoForeignContent, ContentAt, Own

LEMMA WrittenIsOwn ==
    ASSUME TypeOK, NoForeignContent, NEW r \in Writes, Accepts(r),
           r.op = "put" => Own(r.content, r.draft)
    PROVE  Own(Written(r), r.draft)
  <1>1. CASE r.op = "put"
    BY <1>1 DEF Written
  <1>2. CASE r.op = "style"
    <2>1. r.draft \in Drafts /\ r.style \in Styles /\ server[r.draft] # <<>>
      BY <1>2 DEF Writes, Accepts
    <2>2. Own(Latest(r.draft), r.draft)
      BY <2>1, LatestIsOwn
    <2>3. Written(r) = (Latest(r.draft) \ Styles) \union {r.style}
      BY <1>2 DEF Written, WithStyle
    <2> QED
      BY <2>1, <2>2, <2>3, MarksAssumption DEF Own
  <1> QED
    BY <1>1, <1>2 DEF Writes

\* What the server accepts is of the draft it is for.
LEMMA ServerOwnStep ==
    ASSUME IInv, NoForeignContent, WritesAreOwn, [Next]_vars
    PROVE  NoForeignContent'
  <1>1. ASSUME UNCHANGED server
        PROVE  NoForeignContent'
    BY <1>1 DEF NoForeignContent, Generation
  <1>2. ASSUME NEW d \in Drafts, CreateAnswered(d)
        PROVE  NoForeignContent'
    <2>1. /\ server \in [Drafts -> Seq(Revision)] /\ server[d] = <<>>
          /\ server' = [server EXCEPT ![d] = <<[content |-> {}, by |-> "studio"]>>]
      BY <1>2 DEF IInv, TypeOK, CreateAnswered
    <2>2. \A other \in Drafts \ {d} : server'[other] = server[other]
      BY <2>1
    <2>3. Len(server'[d]) = 1 /\ server'[d][1].content = {}
      BY <2>1
    <2> QED
      BY <2>2, <2>3 DEF NoForeignContent, Generation
  <1>3. ASSUME NEW r \in Writes, Accepts(r), r.op = "put" => Own(r.content, r.draft),
               NEW by \in {"studio", "late"}, Store(r, by)
        PROVE  NoForeignContent'
    <2>1. PICK d \in Drafts : d = r.draft
      BY DEF Writes
    <2>2. [content |-> Written(r), by |-> by] \in Revision
      BY <1>3, StoreType DEF IInv, Revision
    <2>3. Own(Written(r), d)
      BY <1>3, <2>1, WrittenIsOwn DEF IInv
    <2> QED
      BY <1>3, <2>1, <2>2, <2>3, OwnGrows DEF IInv, Store
  <1>4. CASE ServerPut
    <2>1. request \in Writes /\ (request.op = "put" => Own(request.content, request.draft))
      BY <1>4 DEF IInv, TypeOK, ServerPut, Requests, Reads, Writes, WritesAreOwn
    <2> QED
      BY <1>1, <1>3, <1>4, <2>1 DEF ServerPut
  <1>5. CASE LateWrite
    <2>1. PICK r \in late : IF Accepts(r) THEN Store(r, "late") ELSE UNCHANGED server
      BY <1>5 DEF LateWrite
    <2>2. r \in Writes /\ (r.op = "put" => Own(r.content, r.draft))
      BY DEF IInv, TypeOK, WritesAreOwn
    <2> QED
      BY <1>1, <1>3, <2>1, <2>2
  <1>6. ASSUME NEW d \in Drafts, NEW c \in Commands, OtherWrite(d, c)
        PROVE  NoForeignContent'
    <2>1. Latest(d) \in Content /\ Own(Latest(d), d)
      BY <1>6, LatestIsOwn DEF IInv, OtherWrite
    <2>2. Applied(Latest(d), c) \in Content /\ Own(Applied(Latest(d), c), d)
      BY <2>1, AppliedType, AppliedMark DEF Own
    <2>3. [content |-> Applied(Latest(d), c), by |-> "other"] \in Revision
      BY <2>2 DEF Revision
    <2> QED
      BY <1>6, <2>2, <2>3, OwnGrows DEF IInv, OtherWrite
  <1>7. CASE Call
    BY <1>1, <1>7
    DEF Call, Dispatch, Attach, ApplyHistory, Refresh, PrepareTurn, Create, Wait, EditForm,
        SettleForm, RevokeAuthority, ReplaceAuth, WithdrawEdit
  <1>8. CASE ResumeRefresh \/ ResumeTurn \/ PostCreate \/ CreateFails
    BY <1>1, <1>8 DEF ResumeRefresh, ResumeTurn, PostCreate, CreateFails
  <1>9. CASE RunQueue
    BY <1>1, <1>9
    DEF RunQueue, RefuseEdit, StartEdit, SendStyle, AbandonStyle, RefuseStyle, FinishEdit,
        FailEdit, StartAttach, FinishAttach, RefuseAttach, StartHistory, FinishHistory,
        FailHistory
  <1>10. CASE ServerGet \/ LoseRequest \/ LoseReply \/ UNCHANGED vars
    BY <1>1, <1>10 DEF ServerGet, LoseRequest, LoseReply, vars
  <1> QED
    BY <1>2, <1>4, <1>5, <1>6, <1>7, <1>8, <1>9, <1>10 DEF Next, Resume, Respond, Network

\* What comes onto the screen is of the active draft: the head's answer is of
\* the draft it was sent to, and that is the active one.
LEMMA HistoryOwnStep ==
    ASSUME IInv, Observation, NoForeignContent, HistoryIsOwn, [Next]_vars
    PROVE  HistoryIsOwn'
  <1>1. /\ history \in [undo : Seq(Content), redo : Seq(Content)] /\ history.undo # <<>>
        /\ active # 0 => active \in 1..Len(bindings)
    BY BindingDraft DEF IInv, TypeOK
  <1>2. active # 0 => bindings'[active].draft = Bound.draft
    BY <1>1, DraftsStay DEF Bound
  <1>3. ASSUME UNCHANGED <<history, active>>
        PROVE  HistoryIsOwn'
    BY <1>2, <1>3 DEF HistoryIsOwn, Bound, OwnStacks
  <1>4. CASE RevokeAuthority
    BY <1>4 DEF RevokeAuthority, HistoryIsOwn
  <1>5. ASSUME Running({"edit", "undo", "redo"}), reply # None, reply.ok, active # 0
        PROVE  /\ Authorized /\ reply.content \in Content
               /\ Own(reply.content, Bound.draft)
    <2>1. Task.kind # "attach" /\ request # None /\ stage # "idle"
      BY <1>5 DEF Running, Task, IInv, QueueInv, StageMatchesHead
    <2>2. Authorized /\ request.draft = Bound.draft
      BY <1>5, <2>1 DEF Observation, SentByActive, RequestIsHeads, Bound
    <2> QED
      BY <1>5, <2>2, ReplyIsOwn, SuccessType
  <1>6. CASE FinishEdit
    <2> SUFFICES ASSUME active # 0 PROVE OwnStacks(history', Bound.draft)
      BY <1>2, <1>6 DEF FinishEdit, HistoryIsOwn, Bound, OwnStacks
    <2>1. Authorized /\ reply.content \in Content /\ Own(reply.content, Bound.draft)
      BY <1>5, <1>6 DEF FinishEdit, Running
    <2>2. OwnStacks(history, Bound.draft)
      BY DEF HistoryIsOwn
    <2>3. CASE IsStyle(Task.command)
      BY <1>1, <1>6, <2>1, <2>2, <2>3, OwnReplaceState DEF FinishEdit
    <2>4. CASE ~IsStyle(Task.command)
      <3> DEFINE applied == Applied(Top(history), Task.command)
                 pushed == Push(history, applied)
      <3>1. Task.command \in Commands
        BY <1>6, HeadIsEdit DEF FinishEdit, Running, Task, EditTask
      <3>2. Top(history) \in Content /\ Own(Top(history), Bound.draft)
        BY <1>1, <2>2, TopType, OwnTop
      <3>3. applied \in Content /\ Own(applied, Bound.draft)
        BY <3>1, <3>2, AppliedType, AppliedMark DEF Own
      <3>4. history' = ReplaceState(pushed, reply.content)
        BY <1>6, <2>1, <2>4 DEF FinishEdit
      <3> HIDE DEF applied
      <3>5. pushed \in [undo : Seq(Content), redo : Seq(Content)] /\ OwnStacks(pushed, Bound.draft)
        BY <1>1, <2>2, <3>3, PushType, OwnPush
      <3> HIDE DEF pushed
      <3> QED
        BY <2>1, <3>4, <3>5, OwnReplaceState
    <2> QED
      BY <2>3, <2>4
  <1>7. CASE FinishHistory
    <2> SUFFICES ASSUME active # 0 PROVE OwnStacks(history', Bound.draft)
      BY <1>2, <1>7 DEF FinishHistory, HistoryIsOwn, Bound, OwnStacks
    <2> DEFINE moved == Moved(history, Task.kind)
    <2>1. reply.content \in Content /\ Own(reply.content, Bound.draft)
      BY <1>5, <1>7 DEF FinishHistory, Running
    <2>2. moved \in [undo : Seq(Content), redo : Seq(Content)] /\ OwnStacks(moved, Bound.draft)
      BY <1>1, MovedType, OwnMoved DEF HistoryIsOwn
    <2>3. history' = ReplaceState(moved, reply.content)
      BY <1>7 DEF FinishHistory
    <2> HIDE DEF moved
    <2> QED
      BY <2>1, <2>2, <2>3, OwnReplaceState
  <1>8. CASE FinishAttach
    <2>1. /\ Task.kind = "attach" /\ reply # None /\ reply.ok /\ request # None
      BY <1>8 DEF FinishAttach, Running, Task, IInv, QueueInv, StageMatchesHead
    <2>2. request.draft = Task.draft
      BY <2>1 DEF Observation, RequestIsHeads
    <2>3. reply.content \in Content /\ Own(reply.content, Task.draft)
      BY <2>1, <2>2, ReplyIsOwn, SuccessType
    <2>4. bindings'[active'].draft = Task.draft
      <3> DEFINE new == [draft |-> Task.draft, generation |-> reply.generation,
                         auth |-> auth, epoch |-> Task.epoch]
      <3>1. bindings' = Append(bindings, new) /\ active' = Len(bindings) + 1
            /\ new.draft = Task.draft
        BY <1>8 DEF FinishAttach
      <3> HIDE DEF new
      <3>2. bindings \in Seq(Binding \union {new}) /\ Len(bindings) \in Nat
        BY SeqMonotonic DEF IInv, TypeOK
      <3> QED
        BY <3>1, <3>2
    <2>5. \/ history' = Baseline(reply.content)
          \/ /\ history' = ReplaceState(history, reply.content)
             /\ active # 0 /\ Bound.draft = Task.draft
      BY <1>8 DEF FinishAttach, Bound
    <2>6. OwnStacks(history', Task.draft)
      BY <1>1, <2>3, <2>5, OwnBaseline, OwnReplaceState DEF HistoryIsOwn
    <2> QED
      BY <2>4, <2>6 DEF HistoryIsOwn, Bound, OwnStacks
  <1>9. CASE Call /\ ~RevokeAuthority
    BY <1>3, <1>9
    DEF Call, Dispatch, Attach, ApplyHistory, Refresh, PrepareTurn, Create, Wait, EditForm,
        SettleForm, ReplaceAuth, WithdrawEdit
  <1>10. CASE Resume
    BY <1>3, <1>10 DEF Resume, ResumeRefresh, ResumeTurn, PostCreate, CreateAnswered, CreateFails
  <1>11. CASE \/ RefuseEdit \/ StartEdit \/ SendStyle \/ AbandonStyle \/ RefuseStyle \/ FailEdit
              \/ StartAttach \/ RefuseAttach \/ StartHistory \/ FailHistory
    BY <1>3, <1>11
    DEF RefuseEdit, StartEdit, SendStyle, AbandonStyle, RefuseStyle, FailEdit, StartAttach,
        RefuseAttach, StartHistory, FailHistory
  <1>12. CASE Respond \/ Network \/ UNCHANGED vars
    BY <1>3, <1>12
    DEF Respond, ServerGet, ServerPut, Network, LoseRequest, LoseReply, LateWrite, OtherWrite, vars
  <1> QED
    BY <1>4, <1>6, <1>7, <1>8, <1>9, <1>10, <1>11, <1>12 DEF Next, RunQueue

\* An undo that is queued names a state of the active draft.
LEMMA TargetsOwnStep ==
    ASSUME IInv, HistoryIsOwn, TargetsAreOwn, [Next]_vars
    PROVE  TargetsAreOwn'
  <1>1. /\ queue \in Seq(Tasks) /\ Len(queue) \in Nat
        /\ \A i \in 1..Len(queue) :
             queue[i].kind \in {"undo", "redo"} => queue[i].binding \in 1..Len(bindings)
    BY DEF IInv, TypeOK, QueueInv, HandlesBuilt
  <1>2. \A i \in 1..Len(queue) :
          queue[i].kind \in {"undo", "redo"}
          => Own(queue[i].target, bindings'[queue[i].binding].draft)
    BY <1>1, DraftsStay DEF TargetsAreOwn
  <1>3. CASE queue' = queue
    BY <1>2, <1>3 DEF TargetsAreOwn
  <1>4. CASE queue # <<>> /\ queue' = Tail(queue)
    <2>1. Len(queue') = Len(queue) - 1
          /\ \A i \in 1..Len(queue') : queue'[i] = queue[i + 1] /\ i + 1 \in 1..Len(queue)
      BY <1>1, <1>4, HeadTailProperties, LenProperties, EmptySeq
    <2> QED
      BY <1>2, <2>1 DEF TargetsAreOwn
  <1>5. ASSUME NEW task, queue' = Append(queue, task),
               task.kind \in {"undo", "redo"} => Own(task.target, bindings'[task.binding].draft)
        PROVE  TargetsAreOwn'
    <2>0. queue \in Seq(Tasks \union {task})
      BY <1>1, SeqMonotonic
    <2>1. /\ Len(queue') = Len(queue) + 1 /\ queue'[Len(queue) + 1] = task
          /\ \A i \in 1..Len(queue) : queue'[i] = queue[i]
      BY <1>1, <1>5, <2>0
    <2>2. \A i \in 1..Len(queue') : i \in 1..Len(queue) \/ i = Len(queue) + 1
      BY <1>1, <2>1
    <2> QED
      BY <1>2, <1>5, <2>1, <2>2 DEF TargetsAreOwn
  <1>6. ASSUME NEW action \in {"undo", "redo"}, ApplyHistory(action)
        PROVE  TargetsAreOwn'
    <2>1. Own(Peek(history, action), Bound.draft) /\ active # 0
      BY <1>6, OwnPeek DEF IInv, TypeOK, ApplyHistory, HistoryIsOwn
    <2>2. bindings'[active].draft = Bound.draft
      BY <1>6 DEF ApplyHistory, Bound
    <2>3. queue' = Append(queue, [kind |-> action, binding |-> active, epoch |-> epoch,
                                  target |-> Peek(history, action)])
      BY <1>6 DEF ApplyHistory, Enqueue
    <2> QED
      BY <1>5, <2>1, <2>2, <2>3
  <1> QED
    BY <1>3, <1>4, <1>5, <1>6, QueueStep

\* A composition that is sent is the active draft's, or a queued undo's target.
LEMMA WritesOwnStep ==
    ASSUME IInv, HistoryIsOwn, TargetsAreOwn, WritesAreOwn, [Next]_vars
    PROVE  WritesAreOwn'
  <1>1. CASE StartEdit /\ ~IsStyle(Task.command)
    <2>1. Task.command \in Commands /\ active # 0
      BY <1>1, HeadIsEdit, HeadOfQueue DEF StartEdit, Running, Task, EditTask, Authorized
    <2>2. Top(history) \in Content /\ Own(Top(history), Bound.draft)
      BY <2>1, TopType, OwnTop DEF IInv, TypeOK, HistoryIsOwn
    <2>3. Own(Applied(Top(history), Task.command), Bound.draft)
      BY <2>1, <2>2, AppliedMark DEF Own
    <2>4. /\ request' = [op |-> "put", draft |-> Bound.draft, generation |-> Bound.generation,
                         content |-> Applied(Top(history), Task.command)]
          /\ late' = late
      BY <1>1 DEF StartEdit, Bound
    <2> QED
      BY <2>3, <2>4 DEF WritesAreOwn
  <1>2. CASE StartHistory
    <2>1. queue # <<>> /\ Task.kind \in {"undo", "redo"}
      BY <1>2 DEF StartHistory, Running, Task
    <2>2. 1 \in 1..Len(queue) /\ Task = queue[1]
      BY <2>1, EmptySeq DEF IInv, TypeOK, Task
    <2>3. Own(Task.target, bindings[Task.binding].draft)
      BY <2>1, <2>2 DEF TargetsAreOwn
    <2>4. /\ request' = [op |-> "put", draft |-> bindings[Task.binding].draft,
                         generation |-> bindings[Task.binding].generation,
                         content |-> Task.target]
          /\ late' = late
      BY <1>2 DEF StartHistory
    <2> QED
      BY <2>3, <2>4 DEF WritesAreOwn
  <1>3. CASE SendStyle \/ StartAttach
    <2>1. request'.op # "put" /\ late' = late
      BY <1>3 DEF SendStyle, StartAttach
    <2> QED
      BY <2>1 DEF WritesAreOwn
  <1>4. CASE request' \in {request, None} /\ late' \subseteq late
    BY <1>4 DEF WritesAreOwn
  <1>5. CASE LoseRequest
    BY <1>5 DEF LoseRequest, Answer, WritesAreOwn
  <1>6. CASE StartEdit /\ IsStyle(Task.command)
    BY <1>4, <1>6 DEF StartEdit
  <1>7. CASE \/ RefuseEdit \/ AbandonStyle \/ RefuseStyle \/ FinishEdit \/ FailEdit
             \/ FinishAttach \/ RefuseAttach \/ FinishHistory \/ FailHistory
    BY <1>4, <1>7
    DEF RefuseEdit, AbandonStyle, RefuseStyle, FinishEdit, FailEdit, FinishAttach, RefuseAttach,
        FinishHistory, FailHistory, Settle
  <1>8. CASE Call
    BY <1>4, <1>8
    DEF Call, Dispatch, Attach, ApplyHistory, Refresh, PrepareTurn, Create, Wait, EditForm,
        SettleForm, RevokeAuthority, ReplaceAuth, WithdrawEdit, Settle
  <1>9. CASE Resume
    BY <1>4, <1>9 DEF Resume, ResumeRefresh, ResumeTurn, PostCreate, CreateAnswered, CreateFails
  <1>10. CASE Respond \/ UNCHANGED vars
    BY <1>4, <1>10 DEF Respond, ServerGet, ServerPut, Answer, vars
  <1>11. CASE LoseReply \/ LateWrite \/ \E d \in Drafts, c \in Commands : OtherWrite(d, c)
    BY <1>4, <1>11 DEF LoseReply, LateWrite, OtherWrite, Answer
  <1> QED
    BY <1>1, <1>2, <1>3, <1>5, <1>6, <1>7, <1>8, <1>9, <1>10, <1>11 DEF Next, RunQueue, Network

LEMMA InitOwn == Init => EverythingIsOwn
  <1> SUFFICES ASSUME Init PROVE EverythingIsOwn
    OBVIOUS
  <1>1. \A d \in Drafts : \/ Len(server[d]) = 0
                          \/ Len(server[d]) = 1 /\ server[d][1].content = {d}
    BY DEF Init
  <1>2. NoForeignContent
    <2>1. ASSUME NEW d \in Drafts, NEW g \in 1..Len(server[d])
          PROVE  server[d][g].content = {d}
      <3>1. CASE Len(server[d]) = 0
        BY <2>1, <3>1
      <3>2. CASE Len(server[d]) = 1
        <4>1. g = 1
          BY <2>1, <3>2
        <4> QED
          BY <1>1, <2>1, <3>2, <4>1
      <3> QED
        BY <1>1, <2>1, <3>1, <3>2
    <2> QED
      BY <2>1 DEF NoForeignContent, Generation
  <1>3. HistoryIsOwn /\ TargetsAreOwn /\ WritesAreOwn
    BY DEF Init, HistoryIsOwn, TargetsAreOwn, WritesAreOwn
  <1> QED
    BY <1>2, <1>3 DEF EverythingIsOwn

\* No draft ever holds the original content of another, nor does the screen, the
\* redo stack or a write under way, whatever is attached, undone, lost or late,
\* as long as every undo goes out through the active binding (#applyToDraft,
\* replaceDraftHistory); the run cross_draft_undo shows the undo that does not.
THEOREM OwnContent == Spec /\ [][UndoOfActiveDraft]_vars => []NoForeignContent
  <1>1. IInv /\ Observation /\ EverythingIsOwn /\ [Next]_vars => EverythingIsOwn'
    BY ServerOwnStep, HistoryOwnStep, TargetsOwnStep, WritesOwnStep DEF EverythingIsOwn
  <1>2. EverythingIsOwn => NoForeignContent
    BY DEF EverythingIsOwn
  <1> QED
    BY <1>1, <1>2, InitOwn, ObservationHolds, Invariance, PTL DEF Spec

-----------------------------------------------------------------------------
(* Without undo: the draft follows one lineage *)

\* With no undo in the budget none is ever queued.
LEMMA NoHistoryStep ==
    ASSUME IInv, NoHistoryQueued, [Next]_vars, Budget["history"] = 0
    PROVE  NoHistoryQueued' /\ [UndoOfActiveDraft]_vars
  <1>1. ~ \E action \in {"undo", "redo"} : ApplyHistory(action)
    <2>1. used["history"] \in Nat
      BY DEF IInv, TypeOK, Operations
    <2> QED
      BY <2>1 DEF ApplyHistory, Spend
  <1>2. queue \in Seq(Tasks) /\ Len(queue) \in Nat
    BY DEF IInv, TypeOK
  <1>3. ASSUME queue' = queue
        PROVE  NoHistoryQueued'
    BY <1>3 DEF NoHistoryQueued
  <1>4. ASSUME queue # <<>>, queue' = Tail(queue)
        PROVE  NoHistoryQueued'
    <2>1. Len(queue') = Len(queue) - 1
          /\ \A i \in 1..Len(queue') : queue'[i] = queue[i + 1] /\ i + 1 \in 1..Len(queue)
      BY <1>2, <1>4, HeadTailProperties, LenProperties, EmptySeq
    <2> QED
      BY <2>1 DEF NoHistoryQueued
  <1>5. ASSUME NEW task \in Tasks, task.kind \in {"edit", "attach"}, queue' = Append(queue, task)
        PROVE  NoHistoryQueued'
    <2>1. /\ Len(queue') = Len(queue) + 1 /\ queue'[Len(queue) + 1] = task
          /\ \A i \in 1..Len(queue) : queue'[i] = queue[i]
      BY <1>2, <1>5
    <2>2. \A i \in 1..Len(queue') : i \in 1..Len(queue) \/ i = Len(queue) + 1
      BY <1>2, <2>1
    <2> QED
      BY <1>5, <2>1, <2>2 DEF NoHistoryQueued
  <1>6. NoHistoryQueued'
    BY <1>1, <1>3, <1>4, <1>5, QueueStep
  <1>7. ~ Running({"undo", "redo"})
    <2>1. queue # <<>> => Len(queue) \in Nat \ {0} /\ Head(queue) = queue[1]
      BY <1>2, EmptySeq
    <2> QED
      BY <2>1 DEF Running, NoHistoryQueued
  <1>8. UndoOfActiveDraft
    BY <1>7 DEF UndoOfActiveDraft
  <1> QED
    BY <1>6, <1>8

LEMMA NoHistoryHolds ==
    ASSUME Budget["history"] = 0
    PROVE  Spec => []NoHistoryQueued /\ [][UndoOfActiveDraft]_vars
  <1>1. Init => NoHistoryQueued
    BY DEF Init, NoHistoryQueued
  <1>2. IInv /\ NoHistoryQueued /\ [Next]_vars => NoHistoryQueued' /\ [UndoOfActiveDraft]_vars
    BY NoHistoryStep
  <1> QED
    BY <1>1, <1>2, Invariance, PTL DEF Spec

\* Where undo is never used the screen is observed without any restriction.
THEOREM ObservedWithoutUndo ==
    ASSUME Budget["history"] = 0
    PROVE  Spec => []ObservedOrInConflict
  BY NoHistoryHolds, Observed, PTL

-----------------------------------------------------------------------------
(* Writes continue the draft *)

\* What the server stores of a write that continues the draft is one command
\* away from the newest revision.
LEMMA WrittenContinues ==
    ASSUME TypeOK, NEW r \in Writes, Accepts(r), Continues(r)
    PROVE  \E c \in Commands : Written(r) = Applied(Latest(r.draft), c)
  <1>1. CASE r.op = "put"
    <2>1. r.generation = Generation(r.draft) /\ r.draft \in Drafts /\ server[r.draft] # <<>>
      BY DEF Accepts, Writes
    <2>2. Latest(r.draft) = ContentAt(r.draft, Generation(r.draft))
      BY <2>1, GenerationType
    <2> QED
      BY <1>1, <2>1, <2>2 DEF Continues, Written
  <1>2. CASE r.op = "style"
    <2> DEFINE c == [name |-> "setMapStyle", target |-> r.style]
    <2>1. c \in Commands
      BY <1>2 DEF Writes, Commands
    <2>2. Written(r) = Applied(Latest(r.draft), c)
      BY <1>2 DEF Written, Applied
    <2> QED
      BY <2>1, <2>2
  <1> QED
    BY <1>1, <1>2 DEF Writes

\* Another revision, one command away from the newest, keeps the lineage.
LEMMA LineageGrows ==
    ASSUME TypeOK, OneLineage, NEW d \in Drafts, server[d] # <<>>, NEW c \in Commands,
           NEW by \in {"studio", "late", "other"},
           server' = [server EXCEPT ![d] = Append(@, [content |-> Applied(Latest(d), c), by |-> by])]
    PROVE  OneLineage' /\ Grows
  <1> DEFINE r == [content |-> Applied(Latest(d), c), by |-> by]
  <1>1. Latest(d) \in Content /\ Latest(d) = ContentAt(d, Generation(d))
        /\ Generation(d) \in Nat \ {0}
    BY LatestType, GenerationType
  <1>2. r \in Revision /\ r.content = Applied(Latest(d), c)
    BY <1>1, AppliedType DEF Revision
  <1> HIDE DEF r
  <1>3. /\ Grows /\ Generation(d)' = Generation(d) + 1 /\ server'[d][Generation(d) + 1] = r
        /\ \A other \in Drafts \ {d} : server'[other] = server[other]
    BY <1>2, Appended DEF r
  <1>4. \A g \in 1..Generation(d) : server'[d][g] = server[d][g]
    BY <1>3 DEF Grows
  <1>5. Applied(Latest(d), c) \intersect Drafts \subseteq {d}
    <2>1. Latest(d) \intersect Drafts \subseteq {d}
      BY <1>1 DEF OneLineage, NoForeignContent, ContentAt
    <2> QED
      BY <1>1, <2>1, AppliedMark
  <1>6. NoLostUpdate'
    <2>1. ASSUME NEW e \in Drafts, NEW g \in 1 .. Len(server'[e]) - 1
          PROVE  \E k \in Commands : server'[e][g + 1].content = Applied(server'[e][g].content, k)
      <3>1. CASE e # d
        BY <1>3, <2>1, <3>1 DEF OneLineage, NoLostUpdate, OneCommandApart, Generation
      <3>2. CASE e = d /\ g = Generation(d)
        BY <1>1, <1>2, <1>3, <1>4, <3>2 DEF ContentAt
      <3>3. CASE e = d /\ g # Generation(d)
        <4>1. g \in 1 .. Generation(d) - 1 /\ g \in 1..Generation(d) /\ g + 1 \in 1..Generation(d)
          BY <1>1, <1>3, <2>1, <3>3 DEF Generation
        <4> QED
          BY <1>4, <3>3, <4>1 DEF OneLineage, NoLostUpdate, OneCommandApart
      <3> QED
        BY <3>1, <3>2, <3>3
    <2> QED
      BY <2>1 DEF NoLostUpdate, OneCommandApart, Generation
  <1>7. NoForeignContent'
    <2>1. server' = [server EXCEPT ![d] = Append(@, r)]
      BY DEF r
    <2> QED
      BY <1>2, <1>5, <2>1, OwnGrows DEF IInv, OneLineage, Own
  <1> QED
    BY <1>3, <1>6, <1>7 DEF OneLineage

\* A step adds at most one revision, and that one continues its draft.
LEMMA ServerStep ==
    ASSUME IInv, OneLineage, WritesContinue, [Next]_vars
    PROVE  OneLineage' /\ Grows
  <1>1. ASSUME UNCHANGED server
        PROVE  OneLineage' /\ Grows
    <2>1. OneLineage'
      BY <1>1 DEF OneLineage, NoLostUpdate, NoForeignContent, OneCommandApart, Generation
    <2> QED
      BY <1>1, <2>1, Unwritten DEF IInv
  <1>2. ASSUME NEW d \in Drafts, CreateAnswered(d)
        PROVE  OneLineage' /\ Grows
    <2>1. /\ server \in [Drafts -> Seq(Revision)] /\ server[d] = <<>>
          /\ server' = [server EXCEPT ![d] = <<[content |-> {}, by |-> "studio"]>>]
      BY <1>2 DEF IInv, TypeOK, CreateAnswered
    <2>2. \A other \in Drafts \ {d} : server'[other] = server[other]
      BY <2>1
    <2>3. Len(server[d]) = 0 /\ Len(server'[d]) = 1 /\ server'[d][1].content = {}
      BY <2>1
    <2>4. \A other \in Drafts \ {d} : Generation(other) \in Nat /\ Generation(other)' = Generation(other)
      BY <2>2, GenerationType DEF IInv, Generation
    <2>5. Grows
      BY <2>2, <2>3, <2>4 DEF Grows, Generation
    <2>6. NoLostUpdate'
      BY <2>2, <2>3, SMTT(30) DEF OneLineage, NoLostUpdate, OneCommandApart, Generation
    <2>7. NoForeignContent'
      BY <2>2, <2>3 DEF OneLineage, NoForeignContent, Generation
    <2> QED
      BY <2>5, <2>6, <2>7 DEF OneLineage
  <1>3. ASSUME NEW r \in Writes, Accepts(r), Continues(r), NEW by \in {"studio", "late"}, Store(r, by)
        PROVE  OneLineage' /\ Grows
    <2>1. PICK d \in Drafts : d = r.draft
      BY DEF Writes
    <2>2. server[d] # <<>>
      BY <1>3, <2>1 DEF Accepts
    <2>3. PICK c \in Commands : Written(r) = Applied(Latest(d), c)
      BY <1>3, <2>1, WrittenContinues DEF IInv
    <2>4. server' = [server EXCEPT ![d] = Append(@, [content |-> Applied(Latest(d), c), by |-> by])]
      BY <1>3, <2>1, <2>3 DEF Store
    <2> QED
      BY <2>2, <2>4, LineageGrows DEF IInv
  <1>4. CASE ServerPut
    <2>1. request \in Writes /\ Continues(request)
      BY <1>4 DEF IInv, TypeOK, ServerPut, Requests, Reads, Writes, WritesContinue
    <2> QED
      BY <1>1, <1>3, <1>4, <2>1 DEF ServerPut
  <1>5. CASE LateWrite
    <2>1. PICK r \in late : IF Accepts(r) THEN Store(r, "late") ELSE UNCHANGED server
      BY <1>5 DEF LateWrite
    <2>2. r \in Writes /\ Continues(r)
      BY DEF IInv, TypeOK, WritesContinue
    <2> QED
      BY <1>1, <1>3, <2>1, <2>2
  <1>6. ASSUME NEW d \in Drafts, NEW c \in Commands, OtherWrite(d, c)
        PROVE  OneLineage' /\ Grows
    <2>1. server[d] # <<>>
          /\ server' = [server EXCEPT ![d] = Append(@, [content |-> Applied(Latest(d), c), by |-> "other"])]
      BY <1>6 DEF OtherWrite
    <2> QED
      BY <2>1, LineageGrows DEF IInv
  <1>7. CASE Call
    <2>1. UNCHANGED server
      BY <1>7
      DEF Call, Dispatch, Attach, ApplyHistory, Refresh, PrepareTurn, Create, Wait, EditForm,
          SettleForm, RevokeAuthority, ReplaceAuth, WithdrawEdit
    <2> QED
      BY <1>1, <2>1
  <1>8. CASE Resume
    <2>1. CASE ResumeRefresh \/ ResumeTurn \/ PostCreate \/ CreateFails
      BY <1>1, <2>1 DEF ResumeRefresh, ResumeTurn, PostCreate, CreateFails
    <2> QED
      BY <1>2, <1>8, <2>1 DEF Resume
  <1>9. CASE RunQueue
    <2>1. UNCHANGED server
      BY <1>9
      DEF RunQueue, RefuseEdit, StartEdit, SendStyle, AbandonStyle, RefuseStyle, FinishEdit,
          FailEdit, StartAttach, FinishAttach, RefuseAttach, StartHistory, FinishHistory,
          FailHistory
    <2> QED
      BY <1>1, <2>1
  <1>10. CASE ServerGet \/ LoseRequest \/ LoseReply \/ UNCHANGED vars
    <2>1. UNCHANGED server
      BY <1>10 DEF ServerGet, LoseRequest, LoseReply, vars
    <2> QED
      BY <1>1, <2>1
  <1> QED
    BY <1>4, <1>5, <1>6, <1>7, <1>8, <1>9, <1>10 DEF Next, Respond, Network

\* What is on the wire after a step was there before, or continues the draft the
\* screen shows.
LEMMA WireStep ==
    ASSUME IInv, Observation, NoHistoryQueued, [Next]_vars
    PROVE  /\ \/ request' = request \/ request' = None
              \/ UNCHANGED server /\ Continues(request')
           /\ late' \subseteq late \union (IF request = None THEN {} ELSE {request})
  <1>1. CASE StartEdit
    <2>1. UNCHANGED <<server, late>>
      BY <1>1 DEF StartEdit
    <2>2. CASE IsStyle(Task.command)
      BY <1>1, <2>1, <2>2 DEF StartEdit
    <2>3. CASE ~IsStyle(Task.command)
      <3>1. Task.command \in Commands /\ active # 0
        BY <1>1, HeadIsEdit, HeadOfQueue
        DEF StartEdit, Running, Task, EditTask, Authorized
      <3>2. request' = [op |-> "put", draft |-> Bound.draft, generation |-> Bound.generation,
                        content |-> Applied(Top(history), Task.command)]
        BY <1>1, <2>3 DEF StartEdit, Bound
      <3>3. /\ Bound.generation \in 1..Generation(Bound.draft)
            /\ Top(history) = ContentAt(Bound.draft, Bound.generation)
        BY <3>1, BindingDraft DEF IInv, Observation, BindingsObserved, ScreenObserved, Bound
      <3>4. request'.generation \in 1..Generation(request'.draft)
            /\ request'.content = Applied(ContentAt(request'.draft, request'.generation), Task.command)
        BY <3>2, <3>3
      <3>5. Continues(request')
        BY <3>1, <3>4 DEF Continues
      <3> QED
        BY <2>1, <3>5
    <2> QED
      BY <2>2, <2>3
  <1>2. CASE SendStyle \/ StartAttach
    <2>1. UNCHANGED <<server, late>> /\ request'.op # "put"
      BY <1>2 DEF SendStyle, StartAttach
    <2> QED
      BY <2>1 DEF Continues
  <1>3. ~StartHistory
    <2>1. queue # <<>> => Len(queue) \in Nat \ {0} /\ Head(queue) = queue[1]
      BY EmptySeq DEF IInv, TypeOK
    <2> QED
      BY <2>1 DEF StartHistory, Running, NoHistoryQueued
  <1>4. CASE \/ RefuseEdit \/ AbandonStyle \/ RefuseStyle \/ FinishEdit \/ FailEdit
             \/ FinishAttach \/ RefuseAttach \/ FinishHistory \/ FailHistory
    BY <1>4
    DEF RefuseEdit, AbandonStyle, RefuseStyle, FinishEdit, FailEdit, FinishAttach, RefuseAttach,
        FinishHistory, FailHistory, Settle
  <1>5. CASE Call
    BY <1>5
    DEF Call, Dispatch, Attach, ApplyHistory, Refresh, PrepareTurn, Create, Wait, EditForm,
        SettleForm, RevokeAuthority, ReplaceAuth, WithdrawEdit, Settle
  <1>6. CASE Resume
    BY <1>6 DEF Resume, ResumeRefresh, ResumeTurn, PostCreate, CreateAnswered, CreateFails
  <1>7. CASE Respond
    BY <1>7 DEF Respond, ServerGet, ServerPut, Answer
  <1>8. CASE Network
    BY <1>8 DEF Network, LoseRequest, LoseReply, LateWrite, OtherWrite, Answer
  <1>9. CASE UNCHANGED vars
    BY <1>9 DEF vars
  <1> QED
    BY <1>1, <1>2, <1>3, <1>4, <1>5, <1>6, <1>7, <1>8, <1>9 DEF Next, RunQueue

LEMMA LineageStep ==
    ASSUME IInv, IInv', Observation, NoHistoryQueued, OneLineage, WritesContinue, [Next]_vars
    PROVE  OneLineage' /\ WritesContinue'
  <1>1. OneLineage' /\ Grows
    BY ServerStep
  <1>2. ASSUME NEW r \in Requests, Continues(r)
        PROVE  r.op = "put" =>
                 /\ r.generation \in 1..Len(server'[r.draft])
                 /\ \E c \in Commands :
                      r.content = Applied(server'[r.draft][r.generation].content, c)
    <2> SUFFICES ASSUME r.op = "put"
                 PROVE  /\ r.generation \in 1..Len(server'[r.draft])
                        /\ \E c \in Commands :
                             r.content = Applied(server'[r.draft][r.generation].content, c)
      OBVIOUS
    <2>1. PICK d \in Drafts : d = r.draft
      BY DEF Requests, Reads, Writes
    <2>2. Generation(d) \in Nat /\ Len(server'[d]) \in Nat
      BY GenerationType, SMTT(30) DEF IInv, TypeOK
    <2>3. r.generation \in 1..Generation(d) /\ Generation(d) <= Len(server'[d])
          /\ server'[d][r.generation] = server[d][r.generation]
      BY <1>1, <1>2, <2>1 DEF Grows, Continues, Generation
    <2> QED
      BY <1>2, <2>1, <2>2, <2>3 DEF Continues, ContentAt
  <1>3. request' # None => Continues(request)' \/ request' # request
    <2>1. request' # None /\ request' = request => request \in Requests /\ Continues(request)
      BY DEF IInv, TypeOK, WritesContinue
    <2> QED
      BY <1>2, <2>1 DEF Continues, ContentAt, Generation
  <1>4. request' # None /\ request' # request => Continues(request)'
    <2>1. request' # None /\ request' # request => UNCHANGED server /\ Continues(request')
      BY WireStep
    <2> QED
      BY <2>1 DEF Continues, ContentAt, Generation
  <1>5. ASSUME NEW r \in late'
        PROVE  Continues(r)'
    <2>1. r \in Requests /\ Continues(r)
      <3>1. r \in late \/ (request # None /\ r = request)
        BY WireStep
      <3> QED
        BY <3>1 DEF IInv, TypeOK, Requests, WritesContinue
    <2> QED
      BY <1>2, <2>1 DEF Continues, ContentAt, Generation
  <1> QED
    BY <1>1, <1>3, <1>4, <1>5 DEF WritesContinue

LEMMA InitLineage == Init => OneLineage /\ WritesContinue
  <1> SUFFICES ASSUME Init PROVE OneLineage /\ WritesContinue
    OBVIOUS
  <1>1. \A d \in Drafts : \/ Len(server[d]) = 0
                          \/ Len(server[d]) = 1 /\ server[d][1].content = {d}
    BY DEF Init
  <1>2. NoLostUpdate
    <2>1. ASSUME NEW d \in Drafts, NEW g \in 1 .. Len(server[d]) - 1
          PROVE  FALSE
      <3>1. CASE Len(server[d]) = 0
        BY <2>1, <3>1
      <3>2. CASE Len(server[d]) = 1
        BY <2>1, <3>2
      <3> QED
        BY <1>1, <2>1, <3>1, <3>2
    <2> QED
      BY <2>1 DEF NoLostUpdate, Generation
  <1>3. NoForeignContent
    BY InitOwn DEF EverythingIsOwn
  <1> QED
    BY <1>2, <1>3 DEF Init, OneLineage, WritesContinue

\* Where undo is never used, every revision of a draft is the one below it and
\* one command, whoever wrote it, and no draft holds another's content: however
\* stale, lost, late or foreign the writes are, the generation check and the
\* content they were computed from belong together (replaceDraft).
THEOREM Lineage ==
    ASSUME Budget["history"] = 0
    PROVE  Spec => []OneLineage
  <1>1. IInv /\ IInv' /\ Observation /\ NoHistoryQueued /\ OneLineage /\ WritesContinue /\ [Next]_vars
        => OneLineage' /\ WritesContinue'
    BY LineageStep
  <1> QED
    BY <1>1, InitLineage, NoHistoryHolds, ObservationHolds, Invariance, PTL DEF Spec
=============================================================================
