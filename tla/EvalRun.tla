------------------------------ MODULE EvalRun ------------------------------
(* The evaluation harness: a case of the corpus, from the draft made for it   *)
(* to its deletion (server-corpus.ts), with the runner that plays its turns   *)
(* (runner.ts), the driver that answers them, from a fixture or from a live   *)
(* agent session whose verified calls it hands to the runner (driver.ts,      *)
(* live-driver.ts), and the score (scorer.ts).                                *)
EXTENDS Nothing, Integers, SequencesExt

CONSTANTS
  Tasks,         \* the corpus
  Layers,        \* the layers a command can add
  MaxCalls,      \* bound: tool calls of a case
  MaxTrouble     \* bound: failed or lost requests, and timeouts

ASSUME TasksAssumption ==
  \A t \in Tasks :
    /\ t.turns \in Seq([kind : {"instruction", "user-action"}, scripted : BOOLEAN])
    /\ t.conversation \in Nat
ASSUME NoneIsNoReading == None \notin Seq(Layers)

VARIABLES
  task,          \* the case's task
  lane,          \* "fixture" or "live": the driver
  at,            \* where the case is
  turn,          \* runEvalTask: turnIndex + 1
  instruction,   \* runEvalTask: instructionIndex
  played,        \* FixtureChatTransport: #turnIndex, the conversation's turns consumed
  plays,         \* FixtureTurnDriver: #transportTurn
  queue,         \* the stream's events that the runner has not taken
  answer,        \* runAssistantTurn's state
  session,       \* LiveTurnDriver: the agent session's turn, and its abort controller
  pending,       \* LiveTurnDriver: #pending, the calls waiting for a result
  history,       \* runEvalTask: history, as [role, turn]
  log,           \* the activity log's entry types
  toolCalls,     \* runEvalTask: toolCalls
  turns,         \* runEvalTask: turns
  local,         \* the controller's layers
  draft,         \* the case's draft on the server, [exists, layers]
  verdict,       \* observation: how the case was scored, or None
  cleanup,       \* cleanup.passed
  spent          \* the bounds used so far

evalVars == <<task, lane, at, turn, instruction, played, plays, queue, answer, session, pending,
              history, log, toolCalls, turns, local, draft, verdict, cleanup, spent>>

(***************************************************************************)
(* scorer.ts                                                               *)
(***************************************************************************)
\* equality of ids; an expectation that names no ids checks none
ScoreCollection(expected, ids) ==
  /\ expected.ids = None \/ expected.ids = ids
  /\ \A id \in expected.present : Contains(ids, id)
  /\ \A id \in expected.absent : ~Contains(ids, id)

IsSubsequence(expected, actual) ==
  LET Cursor(c, type) == IF c < Len(expected) /\ expected[c + 1] = type THEN c + 1 ELSE c
  IN FoldLeft(Cursor, 0, actual) = Len(expected)

ScoreActivityLog(expected, types) ==
  /\ \A type \in expected.never : ~Contains(types, type)
  /\ IsSubsequence(expected.sequence, types)

\* An incomplete turn fails its run, whatever the task expects.
ScoreTurnCompletion(records) ==
  \A i \in DOMAIN records : records[i].kind = "instruction" => records[i].completed

ScoreEvalRun(records, layers, types) ==
  /\ ScoreTurnCompletion(records)
  /\ ScoreCollection(task.expected, layers)
  /\ ScoreActivityLog(task.expected, types)

(***************************************************************************)
(* The driver: scripted replies, and a fixture conversation                 *)
(***************************************************************************)
Text == [type |-> "textDelta", id |-> None, layer |-> None]
Stop == [type |-> "messageStop", id |-> None, layer |-> None]
Error == [type |-> "error", id |-> None, layer |-> None]
\* toolCallStart and toolCallStop of one call
Call(id, layer) == [type |-> "toolCall", id |-> id, layer |-> layer]

CallIds == [turn : Nat, number : Nat]

\* Replies of at most one call; a conversation's may fail.
ScriptedTurnEvents(t) ==
  {<<Text, Stop>>} \cup {<<Text, Call([turn |-> t, number |-> 1], l), Stop>> : l \in Layers}

StreamChat(t, conversationTurn) ==
  IF conversationTurn > task.conversation THEN {<<Error>>}
  ELSE ScriptedTurnEvents(t)
         \cup {<<Call([turn |-> t, number |-> 1], l), Text, Error>> : l \in Layers}

\* Mutated: a scripted reply leaves the conversation's turn it stands in for.
KeepConversationTurn == plays

\* A scripted reply stands in for the conversation's turn, which is consumed.
SkipConversationTurn ==
  IF task.conversation = 0 \/ plays > instruction THEN plays ELSE plays + 1

NoReply == [text |-> 0, recordedText |-> 0, recorded |-> FALSE, stopped |-> FALSE,
            failed |-> FALSE, calling |-> None, of |-> None]

NoSession == [status |-> "idle", turn |-> 0, calls |-> 0, aborted |-> FALSE, rejected |-> FALSE]

Trouble ==
  /\ spent.trouble < MaxTrouble
  /\ spent' = [spent EXCEPT !.trouble = @ + 1]

(***************************************************************************)
(* server-corpus.ts: the draft of a case                                   *)
(***************************************************************************)
\* tools.createDraft; a lost answer leaves a draft nobody knows.
CreateDraft ==
  /\ at = "create"
  /\ \/ /\ draft' = [draft EXCEPT !.exists = TRUE]
        /\ at' = "seed"
        /\ UNCHANGED spent
     \/ /\ Trouble
        /\ \E made \in BOOLEAN : draft' = [draft EXCEPT !.exists = made]
        /\ at' = "done"
  /\ UNCHANGED <<task, lane, turn, instruction, played, plays, queue, answer, session, pending,
                 history, log, toolCalls, turns, local, verdict, cleanup>>

\* The seeded draft is read back and beginTask called, or the case fails.
ReadSeed ==
  /\ at = "seed"
  /\ \/ at' = "next" /\ UNCHANGED spent
     \/ at' = "delete" /\ Trouble
  /\ UNCHANGED <<task, lane, turn, instruction, played, plays, queue, answer, session, pending,
                 history, log, toolCalls, turns, local, draft, verdict, cleanup>>

(***************************************************************************)
(* runner.ts: a turn begins                                                *)
(***************************************************************************)
\* The commands that undo can still take back
Undoable ==
  Cardinality({i \in DOMAIN toolCalls : toolCalls[i].ok})
    - Cardinality({i \in DOMAIN turns : turns[i].applied})

\* The server's draft is this history's, one command a revision.
HistoryIsServers == local = draft.layers /\ Len(local) = Undoable

\* applyHistoryAction: applied, nothing to undo, or it throws and the run rejects
UserActionTurn ==
  /\ at = "next" /\ turn <= Len(task.turns) /\ task.turns[turn].kind = "user-action"
  /\ \/ \E applied \in BOOLEAN :
          /\ IF applied
             THEN /\ Undoable > 0 /\ HistoryIsServers
                  /\ local' = Front(local) /\ draft' = [draft EXCEPT !.layers = Front(@)]
             ELSE Undoable = 0 /\ UNCHANGED <<local, draft>>
          /\ turns' = Append(turns, [kind |-> "user-action", completed |-> FALSE,
                                     applied |-> applied, read |-> None])
          /\ at' = "observing"
          /\ UNCHANGED spent
     \/ /\ Undoable > 0
        /\ IF HistoryIsServers THEN Trouble ELSE UNCHANGED spent
        /\ at' = "delete"
        /\ UNCHANGED <<local, draft, turns>>
  /\ UNCHANGED <<task, lane, turn, instruction, played, plays, queue, answer, session, pending,
                 history, log, toolCalls, verdict, cleanup>>

\* The user's message, and what the driver's stream answers it with.
InstructionTurn ==
  /\ at = "next" /\ turn <= Len(task.turns) /\ task.turns[turn].kind = "instruction"
  /\ history' = Append(history, [role |-> "user", turn |-> turn])
  /\ log' = log \o <<"user_message_sent", "assistant_turn_started">>

PlayScript ==
  /\ InstructionTurn
  /\ lane = "fixture" /\ task.turns[turn].scripted
  /\ plays' = SkipConversationTurn
  /\ played' = played + plays' - plays
  /\ queue' \in ScriptedTurnEvents(turn)
  /\ answer' = NoReply
  /\ at' = "streaming"
  /\ UNCHANGED <<task, lane, turn, instruction, session, pending, toolCalls, turns, local, draft,
                 verdict, cleanup, spent>>

PlayConversation ==
  /\ InstructionTurn
  /\ lane = "fixture" /\ ~task.turns[turn].scripted
  /\ IF task.conversation = 0
     THEN at' = "delete" /\ UNCHANGED <<played, plays, queue, answer>>  \* EvalDriverError
     ELSE /\ plays' = plays + 1
          /\ played' = played + 1
          /\ queue' \in StreamChat(turn, played')
          /\ answer' = [NoReply EXCEPT !.of = played']
          /\ at' = "streaming"
  /\ UNCHANGED <<task, lane, turn, instruction, session, pending, toolCalls, turns, local, draft,
                 verdict, cleanup, spent>>

\* LiveTurnDriver.runTurn up to its first wait
Converse ==
  /\ InstructionTurn
  /\ lane = "live"
  /\ session' = [NoSession EXCEPT !.status = "chatting", !.turn = turn]
  /\ queue' = <<>> /\ answer' = NoReply
  /\ at' = "streaming"
  /\ UNCHANGED <<task, lane, turn, instruction, played, plays, pending, toolCalls, turns, local,
                 draft, verdict, cleanup, spent>>

(***************************************************************************)
(* live-driver.ts: the agent session beside the runner                      *)
(***************************************************************************)
\* The turn's stream is open: its finally has not run.
Open == at \in {"streaming", "calling"}

\* A verified call of the session waits for the runner; without a turn it is rejected.
Dispatch ==
  /\ session.status = "chatting" /\ Open
  /\ spent.calls < MaxCalls
  /\ \E layer \in Layers :
       LET id == [turn |-> session.turn, number |-> session.calls + 1] IN
         /\ pending' = pending \cup {id}
         /\ queue' = Append(queue, Call(id, layer))
  /\ session' = [session EXCEPT !.calls = @ + 1]
  /\ spent' = [spent EXCEPT !.calls = @ + 1]
  /\ UNCHANGED <<task, lane, at, turn, instruction, played, plays, answer, history, log, toolCalls,
                 turns, local, draft, verdict, cleanup>>

\* The session's turn ends when its calls have: with an answer, unless one of
\* them was cut off, or with an error.
ChatEnds ==
  /\ session.status = "chatting" /\ pending = {}
  /\ session' = [session EXCEPT !.status = "ended"]
  /\ \/ ~session.rejected /\ queue' \in {queue \o <<Text, Stop>>, Append(queue, Stop)}
     \/ queue' = Append(queue, Error)
  /\ UNCHANGED <<task, lane, at, turn, instruction, played, plays, answer, pending, history, log,
                 toolCalls, turns, local, draft, verdict, cleanup, spent>>

\* The 180 s timer: the session is aborted and its waiting calls rejected.
TurnTimesOut ==
  /\ lane = "live" /\ Open /\ ~session.aborted
  /\ Trouble
  /\ session' = [session EXCEPT !.aborted = TRUE, !.rejected = @ \/ pending # {}]
  /\ pending' = {}
  /\ UNCHANGED <<task, lane, at, turn, instruction, played, plays, queue, answer, history, log,
                 toolCalls, turns, local, draft, verdict, cleanup>>

(***************************************************************************)
(* runner.ts: the events of a turn                                         *)
(***************************************************************************)
TakeText ==
  /\ at = "streaming" /\ queue # <<>> /\ Head(queue).type = "textDelta"
  /\ queue' = Tail(queue)
  /\ answer' = [answer EXCEPT !.text = @ + 1]
  /\ UNCHANGED <<task, lane, at, turn, instruction, played, plays, session, pending, history, log,
                 toolCalls, turns, local, draft, verdict, cleanup, spent>>

TakeToolCall ==
  /\ at = "streaming" /\ queue # <<>> /\ Head(queue).type = "toolCall"
  /\ queue' = Tail(queue)
  /\ log' = log \o <<"tool_call_started", "tool_call_completed">>
  /\ answer' = [answer EXCEPT !.calling = Head(queue)]
  /\ at' = "calling"
  /\ UNCHANGED <<task, lane, turn, instruction, played, plays, session, pending, history,
                 toolCalls, turns, local, draft, verdict, cleanup, spent>>

TakeStop ==
  /\ at = "streaming" /\ queue # <<>> /\ Head(queue).type = "messageStop"
  /\ queue' = Tail(queue)
  /\ log' = Append(log, "assistant_turn_completed")
  /\ answer' = [answer EXCEPT !.stopped = TRUE]
  /\ UNCHANGED <<task, lane, at, turn, instruction, played, plays, session, pending, history,
                 toolCalls, turns, local, draft, verdict, cleanup, spent>>

TakeError ==
  /\ at = "streaming" /\ queue # <<>> /\ Head(queue).type = "error"
  /\ queue' = Tail(queue)
  /\ log' = Append(log, "assistant_turn_error")
  /\ answer' = [answer EXCEPT !.failed = TRUE]
  /\ UNCHANGED <<task, lane, at, turn, instruction, played, plays, session, pending, history,
                 toolCalls, turns, local, draft, verdict, cleanup, spent>>

\* Mutated: the assistant's message waits for the end of the turn.
RecordAssistantLater == history

\* recordAssistantMessage: once in a turn, before its first result
RecordAssistantMessage ==
  IF answer.recorded THEN history ELSE Append(history, [role |-> "assistant", turn |-> turn])

\* The call was cut off: reportToolResult throws into the loop, which closes the stream.
Unreported == lane = "live" /\ answer.calling.id \notin pending

\* handleToolCall answers, its result is recorded and handed to the driver. A
\* lost answer leaves the command on the server.
CallReturns ==
  /\ at = "calling"
  /\ \E outcome \in {"server", "refused", "lost"} :
       /\ IF outcome = "lost" THEN Trouble ELSE UNCHANGED spent
       /\ outcome = "refused" \/ ~Contains(draft.layers, answer.calling.layer)
       /\ draft' = IF outcome = "refused" THEN draft
                   ELSE [draft EXCEPT !.layers = Append(@, answer.calling.layer)]
       /\ local' = IF outcome = "server" THEN draft'.layers ELSE local
       /\ toolCalls' = Append(toolCalls, [id |-> answer.calling.id, ok |-> outcome = "server"])
       /\ log' = Append(log, IF outcome = "server" THEN "composition_command_applied"
                             ELSE "composition_command_rejected")
  /\ history' = Append(RecordAssistantMessage, [role |-> "tool", turn |-> turn])
  /\ answer' = [answer EXCEPT !.recordedText = IF answer.recorded THEN @ ELSE answer.text,
                              !.recorded = TRUE, !.calling = None]
  /\ pending' = IF Unreported THEN {} ELSE pending \ {answer.calling.id}
  /\ session' = IF Unreported THEN [session EXCEPT !.aborted = TRUE, !.rejected = TRUE]
                ELSE session
  /\ at' = IF Unreported THEN "unwinding" ELSE "streaming"
  /\ UNCHANGED <<task, lane, turn, instruction, played, plays, queue, turns, verdict, cleanup>>

\* Mutated: the stream is left without waiting for the session's turn.
LeaveAtOnce == TRUE

\* `await turn` of the stream's end and of its finally
TurnSettled == lane = "fixture" \/ session.status = "ended"

\* The run rejects when the closed stream has settled.
RunRejects ==
  /\ at = "unwinding"
  /\ TurnSettled
  /\ at' = "delete"
  /\ UNCHANGED <<task, lane, turn, instruction, played, plays, queue, answer, session, pending,
                 history, log, toolCalls, turns, local, draft, verdict, cleanup, spent>>

Completed == answer.stopped /\ ~answer.failed

StreamEnds ==
  /\ at = "streaming" /\ queue = <<>> /\ TurnSettled
  /\ history' =
       IF ~answer.recorded \/ answer.text > answer.recordedText
       THEN Append(history, [role |-> "assistant", turn |-> turn])
       ELSE history
  /\ turns' = Append(turns, [kind |-> "instruction", completed |-> Completed,
                             applied |-> FALSE, read |-> None])
  /\ at' = "observing"
  /\ UNCHANGED <<task, lane, turn, instruction, played, plays, queue, answer, session, pending,
                 log, toolCalls, local, draft, verdict, cleanup, spent>>

\* observeTurn: the draft is read, whose failure is an observation too; the next turn
Observe ==
  /\ at = "observing"
  /\ \E server \in {draft.layers, None} :
       /\ IF server = None THEN Trouble ELSE UNCHANGED spent
       /\ turns' = [turns EXCEPT ![Len(turns)].read = [server |-> server, local |-> local]]
  /\ turn' = turn + 1
  /\ instruction' = instruction + (IF task.turns[turn].kind = "instruction" THEN 1 ELSE 0)
  /\ at' = "next"
  /\ UNCHANGED <<task, lane, played, plays, queue, answer, session, pending, history, log,
                 toolCalls, local, draft, verdict, cleanup>>

(***************************************************************************)
(* server-corpus.ts: the score and the cleanup                             *)
(***************************************************************************)
\* Mutated: only what the app shows is scored.
ScoredOnScreen == ScoreEvalRun(turns, local, log)

\* The run is scored twice: as the app shows it, and as the server stored it.
Scored == ScoreEvalRun(turns, local, log) /\ ScoreEvalRun(turns, draft.layers, log)

ToolCoverage == toolCalls = <<>> \/ \E i \in DOMAIN toolCalls : toolCalls[i].ok

Score ==
  /\ at = "next" /\ turn > Len(task.turns)
  /\ \/ verdict' = [passed |-> Scored /\ ToolCoverage] /\ UNCHANGED spent
     \/ verdict' = None /\ Trouble
  /\ at' = "delete"
  /\ UNCHANGED <<task, lane, turn, instruction, played, plays, queue, answer, session, pending,
                 history, log, toolCalls, turns, local, draft, cleanup>>

\* DELETE: done, refused, or done without an answer
DeleteCaseDraft ==
  /\ at = "delete"
  /\ \/ draft' = [draft EXCEPT !.exists = FALSE] /\ at' = "absent" /\ UNCHANGED spent
     \/ Trouble /\ at' = "done" /\ \E left \in BOOLEAN : draft' = [draft EXCEPT !.exists = left]
  /\ UNCHANGED <<task, lane, turn, instruction, played, plays, queue, answer, session, pending,
                 history, log, toolCalls, turns, local, verdict, cleanup>>

\* The draft is read once more: it must be absent.
ReadAbsent ==
  /\ at = "absent"
  /\ \/ cleanup' = ~draft.exists /\ UNCHANGED spent
     \/ Trouble /\ UNCHANGED cleanup
  /\ at' = "done"
  /\ UNCHANGED <<task, lane, turn, instruction, played, plays, queue, answer, session, pending,
                 history, log, toolCalls, turns, local, draft, verdict>>

\* Mutated: a turn whose draft was not read is not held against the run.
SeenIfRead(record) == record.read.server \in {None, record.read.local}

\* The checks of a turn's observation.
Seen(record) == record.read.server = record.read.local

\* scoreLiveSemanticRun, without what it asks of single tasks
LiveSemanticScore ==
  /\ cleanup
  /\ Len(turns) = Len(task.turns)
  /\ \A i \in DOMAIN turns :
       /\ IF turns[i].kind = "instruction" THEN turns[i].completed ELSE turns[i].applied
       /\ Seen(turns[i])
  /\ local = Last(turns).read.local
  /\ \E i \in DOMAIN toolCalls : toolCalls[i].ok

\* Only a live run that got to its end is scored so.
LiveRunPassed == lane = "live" /\ turn > Len(task.turns) /\ LiveSemanticScore

CasePassed == verdict # None /\ verdict.passed /\ cleanup

EvalInit ==
  /\ task \in Tasks /\ lane \in {"fixture", "live"} /\ at = "create"
  /\ turn = 1 /\ instruction = 0 /\ played = 0 /\ plays = 0
  /\ queue = <<>> /\ answer = NoReply /\ session = NoSession /\ pending = {}
  /\ history = <<>> /\ log = <<>> /\ toolCalls = <<>> /\ turns = <<>>
  /\ local = <<>> /\ draft = [exists |-> FALSE, layers |-> <<>>]
  /\ verdict = None /\ cleanup = FALSE /\ spent = [calls |-> 0, trouble |-> 0]

EvalNext ==
  \/ CreateDraft \/ ReadSeed
  \/ UserActionTurn \/ PlayScript \/ PlayConversation \/ Converse
  \/ Dispatch \/ ChatEnds \/ TurnTimesOut
  \/ TakeText \/ TakeToolCall \/ TakeStop \/ TakeError
  \/ CallReturns \/ RunRejects \/ StreamEnds \/ Observe
  \/ Score \/ DeleteCaseDraft \/ ReadAbsent

EvalSpec == EvalInit /\ [][EvalNext]_evalVars

(***************************************************************************)
(* Properties                                                              *)
(***************************************************************************)
EvalTypeOK ==
  /\ at \in {"create", "seed", "next", "streaming", "calling", "unwinding", "observing",
             "delete", "absent", "done"}
  /\ task \in Tasks /\ lane \in {"fixture", "live"}
  /\ turn \in 1..(Len(task.turns) + 1) /\ instruction \in 0..Len(task.turns)
  /\ session.status \in {"idle", "chatting", "ended"} /\ pending \subseteq CallIds
  /\ \A i \in DOMAIN history : history[i].role \in {"user", "assistant", "tool"}
  /\ local \in Seq(Layers) /\ draft.layers \in Seq(Layers)
  /\ cleanup \in BOOLEAN

\* A case passes only when every one of its turns ended well, its calls were
\* answered, the draft the server stored is what the task expects in the order
\* the task expects, and the draft is gone again (runEvalTask, scoreEvalRun and
\* the corpus's cleanup, together).
CasePassIsEarned ==
  at = "done" /\ CasePassed =>
    /\ ~draft.exists
    /\ ScoreCollection(task.expected, draft.layers)
    /\ \A i \in DOMAIN log : log[i] # "assistant_turn_error"
    /\ Cardinality({i \in DOMAIN log : log[i] = "assistant_turn_completed"}) = instruction
    /\ lane = "live" => ~session.rejected
    /\ LET wanted == task.expected.sequence IN
         \E place \in [1..Len(wanted) -> DOMAIN log] :
           /\ \A i \in DOMAIN wanted : log[place[i]] = wanted[i]
           /\ \A i, j \in DOMAIN wanted : i < j => place[i] < place[j]

\* A live run passes only when the server stored what the app showed at the end
\* of every turn, was asked at the end of every turn, and still did when the
\* draft was deleted (scoreLiveSemanticRun).
LivePassIsStored ==
  at = "done" /\ LiveRunPassed =>
    /\ ~draft.exists
    /\ local = draft.layers
    /\ \A i \in DOMAIN turns : turns[i].read.server = turns[i].read.local

\* A tool's result follows an assistant's message of its own turn, and that the
\* turn's instruction (recordAssistantMessage: the order a provider accepts).
ResultsFollowTheirCalls ==
  \A i \in DOMAIN history :
    LET before(role) ==
          \E j \in 1..(i - 1) : history[j] = [role |-> role, turn |-> history[i].turn]
    IN /\ history[i].role = "tool" => before("assistant")
       /\ history[i].role = "assistant" => before("user")
       /\ \A j \in 1..(i - 1) : history[j].turn <= history[i].turn

\* An instruction is answered by the conversation's turn of its own number,
\* whichever turns before it were scripted (#skipConversationTurn).
ReplyIsOfInstruction == at = "streaming" /\ answer.of # None => answer.of = instruction + 1

\* When the draft is deleted nothing runs any more that could use it: the
\* session's turn has ended and no call is waiting (runTurn's finally).
NothingOutlivesTheRun ==
  at \in {"delete", "absent", "done"} => session.status # "chatting" /\ pending = {}
=============================================================================
