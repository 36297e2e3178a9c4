----------------------------- MODULE McpSession -----------------------------
(* McpClient: one session with the server's tools endpoint.  Calls begin with  *)
(* a handshake when there has been none, share one that is under way, and      *)
(* carry the session it established.                                           *)
EXTENDS Nothing, Naturals, FiniteSets

CONSTANTS
  Calls,         \* callTool and listTools, by the app's components
  MaxSessions,   \* bound: handshakes
  MaxFailures    \* bound: refused or lost answers, and server restarts

ASSUME McpAssumption == MaxSessions \in Nat

VARIABLES
  sessionId,     \* #sessionId, or None
  greeted,       \* #initializeResult is known
  initializing,  \* #initializing: the handshake callers share, or None
  handshakes,    \* handshake -> [at, header]
  mcpCalls,      \* call -> [at, header, joined]
  alive,         \* the server's sessions
  failures

mcpVars == <<sessionId, greeted, initializing, handshakes, mcpCalls, alive, failures>>

NoCall == [at |-> "idle", header |-> None, joined |-> None]

Fault ==
  /\ failures < MaxFailures
  /\ failures' = failures + 1

\* #send up to the token: the session's header is the one known now.
Send(c) == [mcpCalls[c] EXCEPT !.at = "token", !.header = sessionId']

\* Mutated: every caller starts a handshake of its own.
NeverJoins == FALSE

\* A handshake is under way: its promise is returned.
Joins == initializing # None

\* callTool, listTools with a session already established
CallGreeted(c) ==
  /\ mcpCalls[c].at = "idle" /\ greeted
  /\ UNCHANGED sessionId
  /\ mcpCalls' = [mcpCalls EXCEPT ![c] = Send(c)]
  /\ UNCHANGED <<greeted, initializing, handshakes, alive, failures>>

\* callTool, listTools before: initialize is joined, or begun
CallFirst(c) ==
  /\ mcpCalls[c].at = "idle" /\ ~greeted
  /\ IF Joins
     THEN /\ mcpCalls' = [mcpCalls EXCEPT ![c] = [@ EXCEPT !.at = "joined",
                                                         !.joined = initializing]]
          /\ UNCHANGED <<initializing, handshakes>>
     ELSE LET h == Cardinality(DOMAIN handshakes) + 1 IN
          /\ h <= MaxSessions
          /\ handshakes' = [k \in 1..h |-> IF k = h THEN [at |-> "token", header |-> sessionId]
                                          ELSE handshakes[k]]
          /\ initializing' = h
          /\ mcpCalls' = [mcpCalls EXCEPT ![c] = [@ EXCEPT !.at = "joined", !.joined = h]]
  /\ UNCHANGED <<sessionId, greeted, alive, failures>>

\* Everybody who shares the handshake goes on, or fails with it.
Resume(h, next(_)) ==
  mcpCalls' = [c \in Calls |-> IF mcpCalls[c].at = "joined" /\ mcpCalls[c].joined = h
                            THEN next(c) ELSE mcpCalls[c]]

Failed(c) == [mcpCalls[c] EXCEPT !.at = "failed"]

\* getAccessToken, then the request
HandshakeSent(h) ==
  /\ handshakes[h].at = "token"
  /\ handshakes' = [handshakes EXCEPT ![h].at = "sent"]
  /\ UNCHANGED <<sessionId, greeted, initializing, mcpCalls, alive, failures>>

\* The server's answer names a new session.
HandshakeAnswered(h) ==
  /\ handshakes[h].at = "sent"
  /\ sessionId' = h /\ alive' = alive \cup {h}
  /\ greeted' = TRUE
  /\ initializing' = None
  /\ handshakes' = [handshakes EXCEPT ![h].at = "done"]
  /\ Resume(h, Send)
  /\ UNCHANGED failures

\* No token, no answer, or an error, whose headers may name a session too
HandshakeFails(h) ==
  /\ handshakes[h].at \in {"token", "sent"}
  /\ Fault
  /\ sessionId' \in (IF handshakes[h].at = "sent" THEN {sessionId, h} ELSE {sessionId})
  /\ initializing' = None
  /\ handshakes' = [handshakes EXCEPT ![h].at = "done"]
  /\ Resume(h, Failed)
  /\ UNCHANGED <<greeted, alive>>

CallSent(c) ==
  /\ mcpCalls[c].at = "token"
  /\ mcpCalls' = [mcpCalls EXCEPT ![c].at = "sent"]
  /\ UNCHANGED <<sessionId, greeted, initializing, handshakes, alive, failures>>

\* The server takes the calls of its own sessions, whose answers name them.
CallAnswered(c) ==
  /\ mcpCalls[c].at = "sent"
  /\ IF mcpCalls[c].header \in alive
     THEN /\ sessionId' = mcpCalls[c].header
          /\ mcpCalls' = [mcpCalls EXCEPT ![c].at = "done"]
     ELSE UNCHANGED sessionId /\ mcpCalls' = [mcpCalls EXCEPT ![c] = Failed(c)]
  /\ UNCHANGED <<greeted, initializing, handshakes, alive, failures>>

\* McpTransportError, McpProtocolError, McpToolError
CallFails(c) ==
  /\ mcpCalls[c].at \in {"token", "sent"}
  /\ Fault
  /\ mcpCalls' = [mcpCalls EXCEPT ![c] = Failed(c)]
  /\ UNCHANGED <<sessionId, greeted, initializing, handshakes, alive>>

\* The component that made a call makes another.
CallAgain(c) ==
  /\ mcpCalls[c].at \in {"done", "failed"}
  /\ mcpCalls' = [mcpCalls EXCEPT ![c] = NoCall]
  /\ UNCHANGED <<sessionId, greeted, initializing, handshakes, alive, failures>>

\* The server forgets its sessions.
ServerRestarts ==
  /\ alive # {}
  /\ Fault
  /\ alive' = {}
  /\ UNCHANGED <<sessionId, greeted, initializing, handshakes, mcpCalls>>

McpInit ==
  /\ sessionId = None /\ greeted = FALSE /\ initializing = None
  /\ handshakes = [h \in {} |-> [at |-> "done", header |-> None]]
  /\ mcpCalls = [c \in Calls |-> NoCall]
  /\ alive = {} /\ failures = 0

McpNext ==
  \/ \E c \in Calls :
       CallGreeted(c) \/ CallFirst(c) \/ CallSent(c) \/ CallAnswered(c) \/ CallFails(c)
         \/ CallAgain(c)
  \/ \E h \in DOMAIN handshakes : HandshakeSent(h) \/ HandshakeAnswered(h) \/ HandshakeFails(h)
  \/ ServerRestarts

McpSpec == McpInit /\ [][McpNext]_mcpVars

-----------------------------------------------------------------------------
McpTypeOK ==
  /\ sessionId \in 1..MaxSessions \cup {None} /\ greeted \in BOOLEAN
  /\ initializing \in DOMAIN handshakes \cup {None} /\ alive \subseteq 1..MaxSessions
  /\ \A c \in Calls : mcpCalls[c].at \in {"idle", "joined", "token", "sent", "done", "failed"}

\* Every call is made in the one session the client established: callers that
\* arrive together share its handshake, and none goes out before its answer
\* (initialize).
CallsShareOneSession ==
  /\ \A c \in Calls : mcpCalls[c].at \in {"token", "sent"} =>
       greeted /\ mcpCalls[c].header = sessionId
  /\ Cardinality({h \in DOMAIN handshakes : handshakes[h].at # "done"}) <= 1
=============================================================================
