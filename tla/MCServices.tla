----------------------------- MODULE MCServices -----------------------------
(***************************************************************************)
(* Small instances of what talks to a server, in one run: two tabs of one  *)
(* browser profile that run processes, the fixture server with its jobs,   *)
(* an evaluation run, the reads of authoritative styles and the MCP        *)
(* session.  A behaviour is a behaviour of one of them, the component it   *)
(* begins with; they share no state in the code, and the others keep an    *)
(* initial state.                                                          *)
(***************************************************************************)
EXTENDS ProcessRuns, FixtureServer, EvalRun, StyleReads, McpSession, TLC

CONSTANTS t1, t2, p1, p2, g1, g2, l1

VARIABLE component  \* which component the behaviour is of

serviceVars == <<component, vars, fixtureVars, jobVars, evalVars, styleReadVars, mcpVars>>

-----------------------------------------------------------------------------
TwoTabs == {t1, t2}
TwoPrincipals == {p1, p2}
TwoGraphs == {g1, g2}

\* One save and four runs from two tabs, with two disturbances anywhere
\* between: an edit, an attachment, another client, a reload, a lost message.
RunsBudget == "prepare" :> 1 @@ "run" :> 4 @@ "disturb" :> 2

(* Tasks of one to three turns with every kind of turn and expectation.    *)
Instruction(scripted) == [kind |-> "instruction", scripted |-> scripted]
UserAction == [kind |-> "user-action", scripted |-> FALSE]
Present ==
    [ids |-> None, present |-> {l1}, absent |-> {}, never |-> {"composition_command_rejected"},
     sequence |-> <<"user_message_sent", "composition_command_applied",
                    "assistant_turn_completed">>]
Exactly == [Present EXCEPT !.ids = <<l1>>]
SmallTasks ==
    {[turns |-> <<Instruction(TRUE), Instruction(FALSE)>>, conversation |-> 2,
      expected |-> [Exactly EXCEPT !.never = {}]],
     [turns |-> <<Instruction(FALSE), UserAction>>, conversation |-> 1,
      expected |-> [Present EXCEPT !.present = {}, !.absent = {l1}]],
     [turns |-> <<Instruction(TRUE)>>, conversation |-> 0, expected |-> Exactly],
     [turns |-> <<Instruction(TRUE), UserAction, Instruction(FALSE)>>, conversation |-> 1,
      expected |-> Exactly]}

-----------------------------------------------------------------------------
ServicesInit ==
    /\ component \in {"processes", "fixture", "jobs", "evaluation", "styles", "mcp"}
    /\ Init /\ FixtureInit /\ JobsInit
    /\ EvalInit /\ StyleReadInit /\ McpInit
    \* A component that does not move begins in one of its initial states only.
    /\ component = "processes" \/ \A tab \in Tabs : client[tab].principal = p1
    /\ component = "jobs" \/ \A d \in Drafts : declared[d] = {}
    /\ component = "evaluation" \/ (task.conversation = 0 /\ lane = "live")
    /\ component = "styles" \/ current = CHOOSE s \in Sessions : TRUE

\* The one component that moves.
Only(name) ==
    /\ component = name
    /\ UNCHANGED component
    /\ IF name = "processes" THEN TRUE ELSE UNCHANGED vars
    /\ IF name = "fixture" THEN TRUE ELSE UNCHANGED fixtureVars
    /\ IF name = "jobs" THEN TRUE ELSE UNCHANGED jobVars
    /\ IF name = "evaluation" THEN TRUE ELSE UNCHANGED evalVars
    /\ IF name = "styles" THEN TRUE ELSE UNCHANGED styleReadVars
    /\ IF name = "mcp" THEN TRUE ELSE UNCHANGED mcpVars

ServicesNext ==
    \/ Only("processes") /\ Next
    \/ Only("fixture") /\ FixtureNext
    \/ Only("jobs") /\ JobsNext
    \/ Only("evaluation") /\ EvalNext
    \/ Only("styles") /\ StyleReadNext
    \/ Only("mcp") /\ McpNext

\* The fairness is that of the processes, whose liveness the run checks.
ServicesSpec ==
    /\ ServicesInit /\ [][ServicesNext]_serviceVars
    /\ \A tab \in Tabs : WF_vars(Continue(tab)) /\ WF_vars(ServerHandles(tab))

-----------------------------------------------------------------------------
(* The properties, which the modules state and explain.                    *)

\* The state of the component that moves has its type.
ServicesTypeOK ==
    /\ component = "processes" => TypeOK
    /\ component = "fixture" => FixtureTypeOK
    /\ component = "jobs" => JobsTypeOK
    /\ component = "evaluation" => EvalTypeOK
    /\ component = "styles" => StyleReadTypeOK
    /\ component = "mcp" => McpTypeOK

\* What the fixture server holds of versions, drafts, proposals and results agrees
\* (mock-server.mjs); a turn of an evaluation is answered as its own, a live pass is of what the
\* server stored, and nothing of it runs past its end (evals/runner, scorer, live-driver).
HarnessAgrees ==
    /\ ServicesTypeOK
    /\ VersionsNumbered /\ PointersOwn /\ OneDraftPerCommand /\ OneAwaiting
    /\ CatalogHoldsResults
    /\ LivePassIsStored /\ ResultsFollowTheirCalls /\ ReplyIsOfInstruction
    /\ NothingOutlivesTheRun

\* A walk over the fixture's lists skips no row that stays (mock-server.mjs), and a passing case
\* no turn, no failure and no step of what its task expects (evals/runner, scorer).
NothingIsSkipped == WalkIsWhole /\ CasePassIsEarned

\* What a client keeps of a session is of one session: an authoritative style's parts, and the
\* server session its calls use (authoritative-style-provider, mcp/client).
OneSessionEach ==
    BindingIsOneSessions /\ ExpiryIsSurvived /\ CallsShareOneSession

\* What was decided, ended or expired stays so (mock-server.mjs, authoritative-style-provider).
WhatEndedStaysEnded ==
    DecisionStands /\ EndStands /\ EndsWithItsSession
=============================================================================
