-------------------------------- MODULE Chat --------------------------------
(* <honua-studio-chat>: the assistant console. It keeps the transcript       *)
(* (message-reducer.ts), the model's history, the activity log's account of   *)
(* every turn, and any number of turns in flight: streamed by its transport,  *)
(* or run by an attached agent session or by a host's adapter.                *)
EXTENDS Integers, Sequences, FiniteSetsExt

CONSTANTS
  None,
  Notes,         \* the annotation chips a canvas can add
  Hosted,        \* the message ids a host's conversation may carry
  ApiSends,      \* TRUE: sendMessage() is also called by programs, not only by the composer
  MaxTurns,      \* bound: turns started
  MaxEvents,     \* bound: notes attached and events applied before the end of a turn
  MaxSwitches    \* bound: attached and detached sessions, adapters, disconnections

VARIABLES
  chat,          \* #state: ChatState
  messageSeq,    \* #messageSeq
  history,       \* #history: what the transport is sent, [role, of]
  turns,         \* assistant message id -> the turn that #runAssistantTurn runs
  active,        \* the turn whose controller is #activeAbort, or None
  session,       \* #agentSession, or None
  adapter,       \* agentSessionAdapter is set
  agentPending,  \* #agentSessionPending
  agentMessage,  \* #agentMessageId, or None
  spent          \* the bounds used so far

chatVars == <<chat, messageSeq, history, turns, active, session, adapter, agentPending,
              agentMessage, spent>>

(***************************************************************************)
(* message-reducer.ts                                                      *)
(***************************************************************************)
Statuses == {"streaming", "complete", "cancelled", "error"}
CallStatuses == {"none", "pending", "complete", "error"}
StreamEvents == {"textDelta", "toolCallStart", "toolCallStop"}
EndEvents == {"messageStop", "error"}

\* One tool call stands for a message's list; `wrote` holds the turns whose text it shows.
Message(id, role, status, notes, hosted) ==
  [id |-> id, role |-> role, status |-> status, notes |-> notes, call |-> "none",
   wrote |-> {}, hosted |-> hosted]

UpdateMessage(messages, id, updated) ==
  [i \in DOMAIN messages |-> IF messages[i].id = id THEN updated[i] ELSE messages[i]]

UpdateCall(message, status) ==
  IF message.call = "none" THEN message ELSE [message EXCEPT !.call = status]

ApplyAiEvent(message, event, turn) ==
  CASE event = "textDelta"     -> [message EXCEPT !.wrote = @ \cup {turn}]
    [] event = "toolCallStart" -> [message EXCEPT !.call = "pending"]
    [] event = "toolCallStop"  -> UpdateCall(message, "complete")
    [] event = "messageStop"   -> [message EXCEPT !.status = "complete"]
    [] event = "error"         -> [message EXCEPT !.status = "error"]

UserMessageSent(s, id) ==
  [s EXCEPT !.messages = Append(@, Message(id, "user", "complete", s.pending, FALSE)),
            !.pending = {}]

AssistantTurnStarted(s, id) ==
  [s EXCEPT !.messages = Append(@, Message(id, "assistant", "streaming", {}, FALSE)),
            !.streaming = TRUE]

AiEvent(s, id, event, turn) ==
  LET updated == [i \in DOMAIN s.messages |-> ApplyAiEvent(s.messages[i], event, turn)] IN
  [s EXCEPT !.messages = UpdateMessage(@, id, updated), !.streaming = @ /\ event \notin EndEvents]

ToolResult(s, id, ok) ==
  LET status == IF ok THEN "complete" ELSE "error"
      updated == [i \in DOMAIN s.messages |-> UpdateCall(s.messages[i], status)]
  IN [s EXCEPT !.messages = UpdateMessage(@, id, updated)]

TurnCancelled(s, id) ==
  LET updated == [i \in DOMAIN s.messages |->
        [s.messages[i] EXCEPT !.status = IF @ = "streaming" THEN "cancelled" ELSE @]]
  IN [s EXCEPT !.messages = UpdateMessage(@, id, updated), !.streaming = FALSE]

(***************************************************************************)
(* A turn, and its account in the activity log                             *)
(***************************************************************************)
\* `log` is what the activity log says of a turn after assistant_turn_started.
Turn(agent) == [agent |-> agent, running |-> TRUE, aborted |-> FALSE, settled |-> FALSE,
                detached |-> FALSE, log |-> <<>>]

Running(t) == t \in DOMAIN turns /\ turns[t].running

NextMessageId(after, messages) ==
  Min({n \in (after + 1)..(after + 1 + Len(messages)) :
         \A i \in DOMAIN messages : messages[i].id # n})

Spend(kind, bound) ==
  /\ spent[kind] < bound
  /\ spent' = [spent EXCEPT ![kind] = @ + 1]

HasAgent == session # None \/ adapter

\* sendMessage(), then #runAssistantTurn() to its first await. The composer is disabled while a
\* turn streams; a program's call is refused only when an agent session has the turn.
Send ==
  /\ Cardinality(DOMAIN turns) < MaxTurns
  /\ ~agentPending
  /\ HasAgent \/ ~ApiSends => ~chat.streaming
  /\ LET user == NextMessageId(messageSeq, chat.messages)
         sent == UserMessageSent(chat, user)
         reply == NextMessageId(user, sent.messages)
     IN /\ chat' = AssistantTurnStarted(sent, reply)
        /\ messageSeq' = reply
        /\ history' = IF HasAgent THEN history ELSE Append(history, [role |-> "user", of |-> reply])
        /\ turns' = [t \in DOMAIN turns \cup {reply} |-> IF t = reply THEN Turn(HasAgent) ELSE turns[t]]
        /\ active' = reply
        /\ agentMessage' = IF HasAgent THEN reply ELSE agentMessage
  /\ UNCHANGED <<session, adapter, agentPending, spent>>

\* An event of the transport's stream; frames of a chunk already read follow an abort too.
StreamYields(t, event) ==
  /\ Running(t) /\ ~turns[t].agent /\ ~turns[t].settled
  /\ Spend("events", MaxEvents)
  /\ chat' = AiEvent(chat, t, event, t)
  /\ UNCHANGED <<messageSeq, history, turns, active, session, adapter, agentPending, agentMessage>>

StreamStops(t) ==
  /\ Running(t) /\ ~turns[t].agent /\ ~turns[t].settled
  /\ chat' = AiEvent(chat, t, "messageStop", t)
  /\ history' = Append(history, [role |-> "assistant", of |-> t])
  /\ turns' = [turns EXCEPT ![t].settled = TRUE, ![t].log = Append(@, "complete")]
  /\ UNCHANGED <<messageSeq, active, session, adapter, agentPending, agentMessage, spent>>

\* An error event: the proxy's own, or a frame whose payload cannot be parsed.
StreamReportsError(t) ==
  /\ Running(t) /\ ~turns[t].agent /\ ~turns[t].settled
  /\ chat' = AiEvent(chat, t, "error", t)
  /\ turns' = [turns EXCEPT ![t].settled = TRUE, ![t].log = Append(@, "error")]
  /\ UNCHANGED <<messageSeq, history, active, session, adapter, agentPending, agentMessage, spent>>

\* The finally block both kinds of turn share: a turn nothing settled is cancelled.
Unsettled(s, turn, id) == IF turn.settled THEN s ELSE TurnCancelled(s, id)
LoggedAnyway(turn) ==  \* Mutated: whatever settled the turn
  [turn EXCEPT !.running = FALSE, !.log = Append(@, "cancelled")]
Closed(turn) ==
  [turn EXCEPT !.running = FALSE,
               !.log = IF turn.settled THEN @ ELSE Append(@, "cancelled")]

Released(t) == active' = IF active = t THEN None ELSE active

StreamEnds(t) ==
  /\ Running(t) /\ ~turns[t].agent
  /\ chat' = Unsettled(chat, turns[t], t)
  /\ turns' = [turns EXCEPT ![t] = Closed(@)]
  /\ Released(t)
  /\ UNCHANGED <<messageSeq, history, session, adapter, agentPending, agentMessage, spent>>

\* The request or the stream fails: SseChatTransport throws unless the turn was aborted.
StreamThrows(t) ==
  /\ Running(t) /\ ~turns[t].agent /\ ~turns[t].aborted
  /\ chat' = AiEvent(chat, t, "error", t)
  /\ turns' = [turns EXCEPT ![t].settled = TRUE, ![t].running = FALSE,
                            ![t].log = Append(@, "error")]
  /\ Released(t)
  /\ UNCHANGED <<messageSeq, history, session, adapter, agentPending, agentMessage, spent>>

\* #consumeAgentSessionEvent: an event of the turn a session runs goes to #agentMessageId.
AgentYields(t, event) ==
  /\ Running(t) /\ turns[t].agent
  /\ agentMessage # None
  /\ Spend("events", MaxEvents)
  /\ chat' = AiEvent(chat, agentMessage, event, t)
  /\ UNCHANGED <<messageSeq, history, turns, active, session, adapter, agentPending, agentMessage>>

AgentToolResult(t, ok) ==
  /\ Running(t) /\ turns[t].agent
  /\ agentMessage # None
  /\ Spend("events", MaxEvents)
  /\ chat' = ToolResult(chat, agentMessage, ok)
  /\ UNCHANGED <<messageSeq, history, turns, active, session, adapter, agentPending, agentMessage>>

\* The session's chat() or the adapter's submitTurn() settles: completed, cancelled, or failed
\* (another status, or a rejection).
AgentSettles(t, outcome) ==
  /\ Running(t) /\ turns[t].agent
  /\ LET ends == outcome # "cancelled"
         event == IF outcome = "completed" THEN "messageStop" ELSE "error"
         entry == IF outcome = "completed" THEN "complete" ELSE "error"
         told == IF ends THEN AiEvent(chat, t, event, t) ELSE chat
         turn == IF ends THEN [turns[t] EXCEPT !.settled = TRUE, !.log = Append(@, entry)]
                 ELSE turns[t]
     IN /\ chat' = Unsettled(told, turn, t)
        /\ turns' = [turns EXCEPT ![t] = Closed(turn)]
  /\ agentMessage' = None
  /\ Released(t)
  /\ UNCHANGED <<messageSeq, history, session, adapter, agentPending, spent>>

(***************************************************************************)
(* Stop, sessions, adapters and the host's projection                      *)
(***************************************************************************)
Aborted ==
  IF active = None THEN turns ELSE [turns EXCEPT ![active].aborted = TRUE]

Cancel ==
  /\ active # None /\ ~turns[active].aborted
  /\ turns' = Aborted
  /\ UNCHANGED <<chat, messageSeq, history, active, session, adapter, agentPending,
                 agentMessage, spent>>

\* attachAgentSession: the session is replaced, the message its predecessor writes to is not.
AttachAgentSession ==
  /\ Spend("switches", MaxSwitches)
  /\ turns' = Aborted
  /\ session' = spent'["switches"]
  /\ UNCHANGED <<chat, messageSeq, history, active, adapter, agentPending, agentMessage>>

\* Every turn an agent runs when the session goes is of a detached session.
Detaching == [t \in DOMAIN turns |->
               [Aborted[t] EXCEPT !.detached = @ \/ (turns[t].agent /\ turns[t].running)]]

\* detachAgentSession: also what assigning a transport does.
KeptOnDetach == agentMessage  \* Mutated: the detached session still has a message
AfterDetach == None

DetachAgentSession ==
  /\ session # None
  /\ Spend("switches", MaxSwitches)
  /\ turns' = Detaching
  /\ session' = None
  /\ agentMessage' = AfterDetach
  /\ UNCHANGED <<chat, messageSeq, history, active, adapter, agentPending>>

\* <honua-studio-app>'s setter of the workspace's adapter detaches, then sets the adapter.
SetAdapter ==
  /\ Spend("switches", MaxSwitches)
  /\ turns' = Detaching
  /\ session' = None
  /\ agentMessage' = AfterDetach
  /\ adapter' = ~adapter
  /\ UNCHANGED <<chat, messageSeq, history, active, agentPending>>

\* The live composition controller sets it while it prepares a session.
SetAgentSessionPending ==
  /\ IF agentPending THEN UNCHANGED spent ELSE Spend("switches", MaxSwitches)
  /\ agentPending' = ~agentPending
  /\ UNCHANGED <<chat, messageSeq, history, turns, active, session, adapter, agentMessage>>

OnDisconnect ==
  /\ ~adapter
  /\ Spend("switches", MaxSwitches)
  /\ turns' = Aborted
  /\ active' = None
  /\ UNCHANGED <<chat, messageSeq, history, session, adapter, agentPending, agentMessage>>

SetWorkspaceConversation ==
  /\ ~chat.streaming
  /\ Spend("switches", MaxSwitches)
  /\ \E n \in 0..Cardinality(Hosted), role \in {"user", "assistant"} :
       \E ids \in Injection(1..n, Hosted) :
         chat' = [chat EXCEPT !.messages =
                    [i \in 1..n |-> Message(ids[i], role, "complete", {}, TRUE)]]
  /\ UNCHANGED <<messageSeq, history, turns, active, session, adapter, agentPending, agentMessage>>

AddAnnotation(note) ==
  /\ note \notin chat.pending
  /\ Spend("events", MaxEvents)
  /\ chat' = [chat EXCEPT !.pending = @ \cup {note}]
  /\ UNCHANGED <<messageSeq, history, turns, active, session, adapter, agentPending, agentMessage>>

RemoveAnnotation(note) ==
  /\ note \in chat.pending
  /\ chat' = [chat EXCEPT !.pending = @ \ {note}]
  /\ UNCHANGED <<messageSeq, history, turns, active, session, adapter, agentPending,
                 agentMessage, spent>>

(***************************************************************************)
ChatInit ==
  /\ chat = [messages |-> <<>>, pending |-> {}, streaming |-> FALSE]
  /\ messageSeq = 0
  /\ history = <<>>
  /\ turns = <<>>
  /\ active = None
  /\ session = None
  /\ adapter = FALSE
  /\ agentPending = FALSE
  /\ agentMessage = None
  /\ spent = [events |-> 0, switches |-> 0]

ChatNext ==
  \/ Send \/ Cancel
  \/ \E t \in DOMAIN turns :
       \/ \E event \in StreamEvents : StreamYields(t, event) \/ AgentYields(t, event)
       \/ StreamStops(t) \/ StreamReportsError(t) \/ StreamEnds(t) \/ StreamThrows(t)
       \/ \E ok \in BOOLEAN : AgentToolResult(t, ok)
       \/ \E outcome \in {"completed", "cancelled", "failed"} : AgentSettles(t, outcome)
  \/ AttachAgentSession \/ DetachAgentSession \/ SetAdapter \/ SetAgentSessionPending
  \/ OnDisconnect \/ SetWorkspaceConversation
  \/ \E note \in Notes : AddAnnotation(note) \/ RemoveAnnotation(note)

ChatSpec == ChatInit /\ [][ChatNext]_chatVars

(***************************************************************************)
(* Properties                                                              *)
(***************************************************************************)
MessageShape ==
  [id : Nat, role : {"user", "assistant"}, status : Statuses, notes : SUBSET Notes,
   call : CallStatuses, wrote : SUBSET Nat, hosted : BOOLEAN]

\* The variables keep their types: no run of the console builds a value the code has not.
ChatTypeOK ==
  /\ DOMAIN chat = {"messages", "pending", "streaming"}
  /\ \A i \in DOMAIN chat.messages : chat.messages[i] \in MessageShape
  /\ chat.pending \subseteq Notes /\ chat.streaming \in BOOLEAN
  /\ \A i \in DOMAIN history :
       history[i].role \in {"user", "assistant"} /\ history[i].of \in DOMAIN turns
  /\ active \in DOMAIN turns \cup {None} /\ agentMessage \in DOMAIN turns \cup {None}

\* What the log last says of a turn: its message's status, "streaming" before it says anything.
LastSaid(t) == IF turns[t].log = <<>> THEN "streaming" ELSE turns[t].log[Len(turns[t].log)]

\* However many turns overlap, and whether a stop, a proxy's error, a failed connection, an agent
\* session or Cancel ends them, the transcript, the activity log and the model's history tell one
\* story: a turn's message has the status the log gave last, a turn that is over has been given
\* one, and the history holds the reply of exactly the streamed turns the log calls completed
\* (#runAssistantTurn's `settled`).
RecordsFollowTurns ==
  /\ \A i \in DOMAIN chat.messages :
       LET message == chat.messages[i] IN
       message.role = "assistant" /\ ~message.hosted => message.status = LastSaid(message.id)
  /\ \A t \in DOMAIN turns :
       /\ ~turns[t].running => turns[t].log # <<>>
       /\ Cardinality({i \in DOMAIN history :
                         history[i].role = "assistant" /\ history[i].of = t}) =
            IF ~turns[t].agent /\ "complete" \in Range(turns[t].log) THEN 1 ELSE 0

\* The message of a turn whose session was detached, for a host's transport or another authority,
\* shows no more of that session's events: only its end is still to come.
DetachedIsSilent ==
  [][\A t \in DOMAIN turns : turns[t].detached =>
       \A i \in DOMAIN chat.messages \cap DOMAIN chat'.messages :
         LET before == chat.messages[i]
             after == chat'.messages[i] IN
         before.id = t /\ after.id = t /\ ~before.hosted /\ ~after.hosted =>
           after.wrote = before.wrote /\ after.call = before.call]_chatVars

\* The composer's input and button are disabled while a turn streams, so a user who sends only
\* through them has one turn streaming at most.
\* This does not hold: an earlier turn that fails after its answer was complete ends the
\* streaming of the next one.
ComposerNeverOverlaps ==
  ApiSends \/
  Cardinality({i \in DOMAIN chat.messages : chat.messages[i].status = "streaming"}) <= 1

=============================================================================
