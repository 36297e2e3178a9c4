---------------------------- MODULE ProcessRuns ----------------------------
(***************************************************************************)
(* Running a server process from the Processes surface                     *)
(* (elements/studio-processes-element.ts) through the client that reserves *)
(* a durable command before it submits (gp/process-workspace.ts).          *)
(*                                                                         *)
(* Several browser tabs share one localStorage.  Every request may be lost *)
(* before the server handles it, may lose its reply, or may land after its *)
(* client gave up; a tab may be reloaded, and its host may hand it a       *)
(* client of another principal, between any two steps.  Package versions   *)
(* are immutable, so a package is its graph.                               *)
(***************************************************************************)
EXTENDS Nothing, Naturals, Sequences

CONSTANTS
    Tabs,        \* browser tabs of one profile
    Principals,  \* the principals a host may sign in
    Graphs,      \* texts of the process graph
    EmptyGraph,  \* the graph a surface opens with
    Budget       \* how often each operation may happen: the bound of a run

\* Edits, attachments, other clients, reloads and lost messages share one bound.
Operations == {"prepare", "run", "disturb"}

ASSUME ProcessBudgetAssumption == Budget \in [Operations -> Nat]
ASSUME EmptyGraphAssumption == EmptyGraph \in Graphs

VARIABLES
    client,      \* the element's client: its principal and clientGeneration
    page,        \* per tab: #graphText, #graph, #dirty, #advancedPending, #prepared
    shown,       \* per tab: the command whose receipt #run shows, or 0
    attempted,   \* per tab: the client's #attempted commands
    action,      \* per tab: the running #action and its next request
    reply,       \* per tab: the answer to that request
    attach,      \* per tab: the attachWorkspaceTask that is still current
    storage,     \* localStorage: the command each principal holds per package
    issued,      \* command ids drawn so far
    recorded,    \* commands whose accepted receipt was stored
    packages,    \* server: the graph of every package version
    published,   \* server: publications by command
    runs,        \* server: the runs it started
    late,        \* requests given up on that may still land
    used         \* operations spent of Budget

tabVars == <<client, page, shown, attempted, action, reply, attach>>
browserVars == <<storage, issued, recorded>>
serverVars == <<packages, published, runs, late>>
vars == <<tabVars, browserVars, serverVars, used>>

-----------------------------------------------------------------------------
(* Data *)

Client == [principal : Principals, generation : Nat]

Page == [text : Graphs, graph : Graphs, dirty : BOOLEAN, advanced : BOOLEAN, prepared : Nat]

Stages == {"prepare", "list", "publish", "confirm", "submit"}

\* A running action: who started it, what it captured and what it asks next.
Action ==
    [stage : Stages, client : Client, text : Graphs, pkg : Nat, cmd : Nat, again : BOOLEAN]

Replies == [status : {"ok", "conflict", "failed"}, pkg : Nat]

Attachments == [stage : {"waiting", "reading"}, pkg : Nat, text : Graphs]

\* One entry per environment, principal and package version.
Entry == [owner : Principals, pkg : Nat, cmd : Nat, accepted : BOOLEAN]

Publication == [cmd : Nat, pkg : Nat]
ServerRun == [owner : Principals, cmd : Nat, pkg : Nat]

FreshPage(g, unsaved) ==
    [text |-> g, graph |-> g, dirty |-> unsaved, advanced |-> FALSE, prepared |-> 0]

Saved(owner, pkg) == {e \in storage : e.owner = owner /\ e.pkg = pkg}

\* Mutated: the key names the command too, so that a new one never replaces it.
SaveAlongside(e) == storage' = storage \union {e}

\* setItem
Save(e) == storage' = (storage \ Saved(e.owner, e.pkg)) \union {e}

\* A retained value that is not an accepted receipt is still unresolved.
Unresolved(owner, pkg) == {e.cmd : e \in {s \in Saved(owner, pkg) : ~s.accepted}}

Spend(op) == used[op] < Budget[op] /\ used' = [used EXCEPT ![op] = @ + 1]

Busy(t) == action[t] # None

\* current(): neither the client nor the client generation changed.
Current(t) == action[t].client = client[t]

Answered(t, status) == reply[t] # None /\ reply[t].status = status

\* finally: the surface is idle again.
Finish(t) ==
    /\ action' = [action EXCEPT ![t] = None]
    /\ reply' = [reply EXCEPT ![t] = None]

\* The next request of the same action.
Proceed(t, stage) ==
    /\ action' = [action EXCEPT ![t].stage = stage]
    /\ reply' = [reply EXCEPT ![t] = None]

\* Whatever advances the attachment generation ends the attachment.
EndAttachment(t) == attach' = [attach EXCEPT ![t] = None]

-----------------------------------------------------------------------------
(* Editing the graph *)

\* A visual edit; it is not offered while an action runs or while the advanced
\* JSON has unapplied text.
Edit(t, g) ==
    /\ Spend("disturb")
    /\ ~Busy(t) /\ ~page[t].advanced
    /\ page' = [page EXCEPT ![t] = FreshPage(g, TRUE)]
    /\ EndAttachment(t)
    /\ UNCHANGED <<client, shown, attempted, action, reply, browserVars, serverVars>>

\* Typing into the advanced JSON editor does not end an attachment.
TypeJson(t, g) ==
    /\ Spend("disturb")
    /\ ~Busy(t)
    /\ page' = [page EXCEPT ![t] = [@ EXCEPT !.text = g, !.dirty = TRUE, !.advanced = TRUE,
                                              !.prepared = 0]]
    /\ UNCHANGED <<client, shown, attempted, action, reply, attach, browserVars, serverVars>>

ApplyJson(t) ==
    /\ ~Busy(t) /\ page[t].advanced
    /\ page' = [page EXCEPT ![t] = FreshPage(@.text, TRUE)]
    /\ EndAttachment(t)
    /\ UNCHANGED <<client, shown, attempted, action, reply, browserVars, serverVars, used>>

RestoreJson(t) ==
    /\ ~Busy(t) /\ page[t].advanced
    /\ page' = [page EXCEPT ![t] = [@ EXCEPT !.text = page[t].graph, !.advanced = FALSE]]
    /\ UNCHANGED <<client, shown, attempted, action, reply, attach, browserVars, serverVars, used>>

\* The host assigns `graph`, at any time.
SetGraph(t, g) ==
    /\ Spend("disturb")
    /\ page' = [page EXCEPT ![t] = FreshPage(g, FALSE)]
    /\ EndAttachment(t)
    /\ UNCHANGED <<client, shown, attempted, action, reply, browserVars, serverVars>>

-----------------------------------------------------------------------------
(* The host: another client, another tab life *)

\* A new client forgets what was prepared and run under the old one; a running
\* action goes on.
SwapClient(t, p) ==
    /\ Spend("disturb")
    /\ client' = [client EXCEPT ![t] = [principal |-> p, generation |-> @.generation + 1]]
    /\ page' = [page EXCEPT ![t].prepared = 0]
    /\ shown' = [shown EXCEPT ![t] = 0]
    /\ attempted' = [attempted EXCEPT ![t] = {}]
    /\ EndAttachment(t)
    /\ UNCHANGED <<action, reply, browserVars, serverVars>>

\* The write a caller can give up on without the server giving up too.
Abandoned(t) ==
    IF Busy(t) /\ reply[t] = None /\ action[t].stage \in {"prepare", "publish", "submit"}
    THEN {action[t]} ELSE {}

\* The page is reloaded: only localStorage and the server keep anything.
Reload(t) ==
    /\ Spend("disturb")
    /\ client' = [client EXCEPT ![t].generation = @ + 1]
    /\ page' = [page EXCEPT ![t] = FreshPage(EmptyGraph, FALSE)]
    /\ shown' = [shown EXCEPT ![t] = 0]
    /\ attempted' = [attempted EXCEPT ![t] = {}]
    /\ Finish(t)
    /\ EndAttachment(t)
    /\ late' \in {late, late \union Abandoned(t)}
    /\ UNCHANGED <<browserVars, packages, published, runs>>

-----------------------------------------------------------------------------
(* Save and validate *)

ClickPrepare(t) ==
    /\ Spend("prepare")
    /\ ~Busy(t)
    /\ EndAttachment(t)
    /\ action' = [action EXCEPT ![t] =
                    [stage |-> "prepare", client |-> client[t], text |-> page[t].text,
                     pkg |-> 0, cmd |-> 0, again |-> FALSE]]
    /\ UNCHANGED <<client, page, shown, attempted, reply, browserVars, serverVars>>

\* Mutated: whatever the editor holds now counts as the prepared graph.
PreparedUnchecked(t) ==
    /\ Busy(t) /\ action[t].stage = "prepare" /\ Answered(t, "ok")
    /\ page' = IF Current(t)
               THEN [page EXCEPT ![t].prepared = reply[t].pkg, ![t].dirty = FALSE]
               ELSE page
    /\ Finish(t)
    /\ UNCHANGED <<client, shown, attempted, attach, browserVars, serverVars, used>>

\* The saved package becomes runnable only if the editor still shows the text
\* that was saved.
Prepared(t) ==
    /\ Busy(t) /\ action[t].stage = "prepare" /\ Answered(t, "ok")
    /\ page' = IF Current(t) /\ page[t].text = action[t].text
               THEN [page EXCEPT ![t] =
                       [FreshPage(action[t].text, FALSE) EXCEPT !.prepared = reply[t].pkg]]
               ELSE page
    /\ Finish(t)
    /\ UNCHANGED <<client, shown, attempted, attach, browserVars, serverVars, used>>

-----------------------------------------------------------------------------
(* Run *)

\* reserveCommand stores a fresh command, or takes up the unresolved one; run
\* then asks about a command that may have been sent before, and publishes one
\* that was not.
ClickRun(t) ==
    LET owner == client[t].principal
        pkg == page[t].prepared
        prior == Unresolved(owner, pkg)
        cmd == IF prior = {} THEN issued + 1 ELSE CHOOSE c \in prior : TRUE
        again == prior # {} \/ cmd \in attempted[t]
    IN
    /\ Spend("run")
    /\ ~Busy(t) /\ pkg # 0 /\ ~page[t].dirty
    /\ issued' = IF prior = {} THEN issued + 1 ELSE issued
    /\ Save([owner |-> owner, pkg |-> pkg, cmd |-> cmd, accepted |-> FALSE])
    /\ action' = [action EXCEPT ![t] =
                    [stage |-> IF again THEN "list" ELSE "publish", client |-> client[t],
                     text |-> page[t].text, pkg |-> pkg, cmd |-> cmd, again |-> again]]
    /\ UNCHANGED <<client, page, shown, attempted, reply, attach, recorded, serverVars>>

\* The publication of the retained command exists: publish again.
Listed(t) ==
    /\ Busy(t) /\ action[t].stage = "list" /\ Answered(t, "ok")
    /\ Proceed(t, "publish")
    /\ UNCHANGED <<client, page, shown, attempted, attach, browserVars, serverVars, used>>

\* Published before: make sure it is this package's publication.
Conflicted(t) ==
    /\ Busy(t) /\ action[t].stage = "publish" /\ Answered(t, "conflict")
    /\ Proceed(t, "confirm")
    /\ UNCHANGED <<client, page, shown, attempted, attach, browserVars, serverVars, used>>

\* The attempt is recorded before the run is submitted.
Published(t) ==
    /\ Busy(t) /\ action[t].stage \in {"publish", "confirm"} /\ Answered(t, "ok")
    /\ attempted' = IF Current(t) THEN [attempted EXCEPT ![t] = @ \union {action[t].cmd}]
                    ELSE attempted
    /\ Proceed(t, "submit")
    /\ UNCHANGED <<client, page, shown, attach, browserVars, serverVars, used>>

\* Mutated: the receipt is stored over whatever command is retained by now.
RanOverwrites(t) ==
    LET a == action[t] owner == a.client.principal IN
    /\ Busy(t) /\ a.stage = "submit" /\ Answered(t, "ok")
    /\ Save([owner |-> owner, pkg |-> a.pkg, cmd |-> a.cmd, accepted |-> TRUE])
    /\ recorded' = recorded \union {a.cmd}
    /\ shown' = IF Current(t) THEN [shown EXCEPT ![t] = a.cmd] ELSE shown
    /\ Finish(t)
    /\ UNCHANGED <<client, page, attempted, attach, issued, serverVars, used>>

\* Mutated: the receipt is shown to whoever is signed in by now.
RanUnchecked(t) ==
    LET a == action[t] owner == a.client.principal IN
    /\ Busy(t) /\ a.stage = "submit" /\ Answered(t, "ok")
    /\ IF a.cmd \in Unresolved(owner, a.pkg)
       THEN /\ Save([owner |-> owner, pkg |-> a.pkg, cmd |-> a.cmd, accepted |-> TRUE])
            /\ recorded' = recorded \union {a.cmd}
       ELSE UNCHANGED <<storage, recorded>>
    /\ shown' = [shown EXCEPT ![t] = a.cmd]
    /\ Finish(t)
    /\ UNCHANGED <<client, page, attempted, attach, issued, serverVars, used>>

\* The receipt is stored while its command is still the retained one, and shown
\* while its client is still the current one.
Ran(t) ==
    LET a == action[t] owner == a.client.principal IN
    /\ Busy(t) /\ a.stage = "submit" /\ Answered(t, "ok")
    /\ IF a.cmd \in Unresolved(owner, a.pkg)
       THEN /\ Save([owner |-> owner, pkg |-> a.pkg, cmd |-> a.cmd, accepted |-> TRUE])
            /\ recorded' = recorded \union {a.cmd}
       ELSE UNCHANGED <<storage, recorded>>
    /\ shown' = IF Current(t) THEN [shown EXCEPT ![t] = a.cmd] ELSE shown
    /\ Finish(t)
    /\ UNCHANGED <<client, page, attempted, attach, issued, serverVars, used>>

\* Mutated: a failed action of a former client never clears the busy flag.
FailsQuietly(t) ==
    /\ Busy(t) /\ Answered(t, "failed") /\ Current(t)
    /\ Finish(t)
    /\ UNCHANGED <<client, page, shown, attempted, attach, browserVars, serverVars, used>>

Fails(t) ==
    /\ Busy(t) /\ Answered(t, "failed")
    /\ Finish(t)
    /\ UNCHANGED <<client, page, shown, attempted, attach, browserVars, serverVars, used>>

-----------------------------------------------------------------------------
(* attachWorkspaceTask: a turn's package replaces the graph on screen *)

Attach(t, pkg) ==
    /\ Spend("disturb")
    /\ attach' = [attach EXCEPT ![t] = [stage |-> "waiting", pkg |-> pkg, text |-> page[t].text]]
    /\ UNCHANGED <<client, page, shown, attempted, action, reply, browserVars, serverVars>>

\* The running action is awaited first; unsaved work refuses the attachment.
AttachReads(t) ==
    /\ attach[t] # None /\ attach[t].stage = "waiting"
    /\ ~Busy(t)
    /\ attach' = [attach EXCEPT ![t] = IF page[t].dirty THEN None
                                       ELSE [@ EXCEPT !.stage = "reading", !.text = page[t].text]]
    /\ UNCHANGED <<client, page, shown, attempted, action, reply, browserVars, serverVars, used>>

AttachReturns(t) ==
    /\ attach[t] # None /\ attach[t].stage = "reading"
    /\ page' = IF page[t].dirty \/ page[t].text # attach[t].text THEN page
               ELSE [page EXCEPT ![t] = [FreshPage(packages[attach[t].pkg], FALSE)
                                          EXCEPT !.prepared = attach[t].pkg]]
    /\ EndAttachment(t)
    /\ UNCHANGED <<client, shown, attempted, action, reply, browserVars, serverVars, used>>

AttachFails(t) ==
    /\ attach[t] # None /\ attach[t].stage = "reading"
    /\ EndAttachment(t)
    /\ UNCHANGED <<client, page, shown, attempted, action, reply, browserVars, serverVars, used>>

-----------------------------------------------------------------------------
(* The server and the network *)

Submission(r) == [owner |-> r.client.principal, cmd |-> r.cmd, pkg |-> r.pkg]

HasPublication(r) == [cmd |-> r.cmd, pkg |-> r.pkg] \in published

\* What the server does with a request: packages are never overwritten, a
\* publication identity is taken once, a run is started once per command and
\* never by a request that only reconciles.
Handled(r) ==
    /\ packages' = IF r.stage = "prepare" THEN Append(packages, r.text) ELSE packages
    /\ published' = IF r.stage = "publish"
                    THEN published \union {[cmd |-> r.cmd, pkg |-> r.pkg]} ELSE published
    /\ runs' = IF r.stage = "submit" /\ HasPublication(r) /\ ~r.again
               THEN runs \union {Submission(r)} ELSE runs

Status(r) ==
    CASE r.stage = "prepare" -> "ok"
      [] r.stage = "publish" -> IF HasPublication(r) THEN "conflict" ELSE "ok"
      [] r.stage = "submit" /\ r.again /\ Submission(r) \notin runs -> "failed"
      [] OTHER -> IF HasPublication(r) THEN "ok" ELSE "failed"

ServerHandles(t) ==
    /\ Busy(t) /\ reply[t] = None
    /\ Handled(action[t])
    /\ reply' = [reply EXCEPT ![t] = [status |-> Status(action[t]), pkg |-> Len(packages')]]
    /\ UNCHANGED <<client, page, shown, attempted, action, attach, browserVars, late, used>>

\* The request never arrived, or is still under way.
LoseRequest(t) ==
    /\ Spend("disturb")
    /\ Busy(t) /\ reply[t] = None
    /\ reply' = [reply EXCEPT ![t] = [status |-> "failed", pkg |-> 0]]
    /\ late' \in {late, late \union Abandoned(t)}
    /\ UNCHANGED <<client, page, shown, attempted, action, attach, browserVars,
                   packages, published, runs>>

LoseReply(t) ==
    /\ Spend("disturb")
    /\ Busy(t) /\ reply[t] # None
    /\ reply' = [reply EXCEPT ![t] = [status |-> "failed", pkg |-> 0]]
    /\ UNCHANGED <<client, page, shown, attempted, action, attach, browserVars, serverVars>>

LateRequest ==
    \E r \in late :
        /\ Handled(r)
        /\ late' = late \ {r}
        /\ UNCHANGED <<tabVars, browserVars, used>>

-----------------------------------------------------------------------------
Init ==
    /\ \E p \in Principals : client = [t \in Tabs |-> [principal |-> p, generation |-> 0]]
    /\ page = [t \in Tabs |-> FreshPage(EmptyGraph, FALSE)]
    /\ shown = [t \in Tabs |-> 0]
    /\ attempted = [t \in Tabs |-> {}]
    /\ action = [t \in Tabs |-> None]
    /\ reply = [t \in Tabs |-> None]
    /\ attach = [t \in Tabs |-> None]
    /\ storage = {} /\ issued = 0 /\ recorded = {}
    /\ packages = <<>> /\ published = {} /\ runs = {} /\ late = {}
    /\ used = [op \in Operations |-> 0]

Human(t) ==
    \/ \E g \in Graphs : Edit(t, g)
    \/ \E g \in Graphs : TypeJson(t, g)
    \/ ApplyJson(t)
    \/ RestoreJson(t)
    \/ ClickPrepare(t)
    \/ ClickRun(t)

Host(t) ==
    \/ \E g \in Graphs : SetGraph(t, g)
    \/ \E p \in Principals : SwapClient(t, p)
    \/ Reload(t)
    \/ \E pkg \in 1 .. Len(packages) : Attach(t, pkg)

\* What runs as soon as the promise it awaits settles.
Continue(t) ==
    \/ Prepared(t)
    \/ Listed(t)
    \/ Conflicted(t)
    \/ Published(t)
    \/ Ran(t)
    \/ Fails(t)
    \/ AttachReads(t)
    \/ AttachReturns(t)
    \/ AttachFails(t)

Network ==
    \/ \E t \in Tabs : LoseRequest(t) \/ LoseReply(t)
    \/ LateRequest

Next ==
    \/ \E t \in Tabs : Human(t) \/ Host(t) \/ Continue(t) \/ ServerHandles(t)
    \/ Network

Spec == Init /\ [][Next]_vars

\* Promises run whenever they can, and every request settles.
FairSpec ==
    Spec /\ \A t \in Tabs : WF_vars(Continue(t)) /\ WF_vars(ServerHandles(t))

-----------------------------------------------------------------------------
\* localStorage holds one value per key, of a command that was drawn.
OneEntryPerKey ==
    /\ \A e, f \in storage : e.owner = f.owner /\ e.pkg = f.pkg => e = f
    /\ \A e \in storage : e.cmd \in 1 .. issued

\* Every variable holds what the code can put there.
TypeOK ==
    /\ client \in [Tabs -> Client]
    /\ page \in [Tabs -> Page]
    /\ shown \in [Tabs -> Nat]
    /\ attempted \in [Tabs -> SUBSET Nat]
    /\ action \in [Tabs -> Action \union {None}]
    /\ reply \in [Tabs -> Replies \union {None}]
    /\ attach \in [Tabs -> Attachments \union {None}]
    /\ storage \subseteq Entry /\ OneEntryPerKey
    /\ issued \in Nat
    /\ recorded \subseteq Nat
    /\ packages \in Seq(Graphs)
    /\ published \subseteq Publication
    /\ runs \subseteq ServerRun
    /\ late \subseteq Action
    /\ used \in [Operations -> Nat]

\* "Run the validated snapshot" runs what is on screen: a package that can be
\* run has exactly the graph both editors show, whatever was edited, attached
\* or assigned while it was being saved or read.
PreparedIsShown ==
    \A t \in Tabs : page[t].prepared # 0 =>
        /\ page[t].prepared \in 1 .. Len(packages)
        /\ packages[page[t].prepared] = page[t].text
        /\ page[t].graph = page[t].text
        /\ ~page[t].dirty

\* A missing reply is reconciled, never blindly rerun: of one principal's runs
\* of one package, at most one has a receipt the browser never stored, however
\* often Run is pressed, in however many tabs, across reloads and lost replies.
OneUnrecordedRun ==
    \A r, s \in runs :
        /\ r.owner = s.owner /\ r.pkg = s.pkg
        /\ r.cmd \notin recorded /\ s.cmd \notin recorded
        => r = s

\* A receipt on screen belongs to a run of the principal the surface now acts
\* for.
ReceiptIsOwn ==
    \A t \in Tabs : shown[t] # 0 =>
        \E r \in runs : r.cmd = shown[t] /\ r.owner = client[t].principal

\* What the surface shows is its own: the package it offers to run and the
\* receipt it shows (#prepare, #action).
ShownIsOwn == PreparedIsShown /\ ReceiptIsOwn

\* Every action ends and the surface accepts input again, whether the client
\* that started it is still the current one or not.
ActionsEnd == \A t \in Tabs : Busy(t) ~> ~Busy(t)

=============================================================================
