-------------------------- MODULE ProcessRunsProofs --------------------------
(***************************************************************************)
(* Proofs about ProcessRuns for any tabs, principals, graphs and bounds:   *)
(* types, one run at most without a receipt, only the graph on screen can  *)
(* be run, and receipts of one's own runs only.                            *)
(*                                                                         *)
(* The argument is about who still knows a command.  A command that some   *)
(* request carries, that may still land or that the server ran is either   *)
(* retained unresolved in localStorage or its receipt was stored; as a key *)
(* holds one command, at most one run of a package is without a receipt.   *)
(***************************************************************************)
EXTENDS ProcessRuns, TLAPS

Retained(owner, pkg, cmd) == [owner |-> owner, pkg |-> pkg, cmd |-> cmd, accepted |-> FALSE]

\* A command whose receipt was stored, or that its key still retains.
Known(owner, pkg, cmd) == cmd \in recorded \/ Retained(owner, pkg, cmd) \in storage

Sought(r) == r.stage # "prepare" => Known(r.client.principal, r.pkg, r.cmd)

\* Whatever asks for a run asks under a known command.
RequestsKnown ==
    /\ \A t \in Tabs : Busy(t) => Sought(action[t])
    /\ \A r \in late : Sought(r)

\* Every run the server started was asked for under a known command.
RunsKnown == \A r \in runs : Known(r.owner, r.pkg, r.cmd)

Served(pkg, g) == pkg \in 1 .. Len(packages) /\ packages[pkg] = g

\* A good answer to a save names a version with the saved text; a good answer
\* to a submission, a run of that client.
RepliesAgree ==
    \A t \in Tabs :
        /\ ~Busy(t) => reply[t] = None
        /\ Busy(t) /\ action[t].stage = "prepare" /\ Answered(t, "ok")
           => Served(reply[t].pkg, action[t].text)
        /\ Busy(t) /\ action[t].stage = "submit" /\ Answered(t, "ok")
           => Submission(action[t]) \in runs

\* An attachment reads a version that exists.
AttachmentsServed == \A t \in Tabs : attach[t] # None => attach[t].pkg \in 1 .. Len(packages)

IInv ==
    /\ TypeOK
    /\ RequestsKnown
    /\ RunsKnown
    /\ RepliesAgree
    /\ AttachmentsServed
    /\ PreparedIsShown
    /\ ReceiptIsOwn

-----------------------------------------------------------------------------
\* setItem leaves one entry per key, of commands that were drawn.
LEMMA SaveType ==
  ASSUME storage \subseteq Entry, OneEntryPerKey,
         issued \in Nat, issued' \in Nat, issued <= issued',
         NEW e \in Entry, e.cmd \in 1 .. issued', Save(e)
  PROVE  storage' \subseteq Entry /\ OneEntryPerKey'
<1>1. storage' = (storage \ Saved(e.owner, e.pkg)) \union {e}
  BY DEF Save
<1>2. \A f \in storage : f \notin Saved(e.owner, e.pkg) => ~(f.owner = e.owner /\ f.pkg = e.pkg)
  BY DEF Saved
<1>3. ASSUME NEW f \in storage', NEW g \in storage', f.owner = g.owner, f.pkg = g.pkg
      PROVE  f = g
  BY <1>1, <1>2, <1>3 DEF OneEntryPerKey
<1>4. ASSUME NEW f \in storage' PROVE f.cmd \in 1 .. issued'
  BY <1>1, <1>4 DEF OneEntryPerKey, Entry
<1> QED BY <1>1, <1>3, <1>4 DEF OneEntryPerKey

\* An unresolved command is the one thing its key holds.
LEMMA UnresolvedAlone ==
  ASSUME TypeOK, NEW owner, NEW pkg, NEW cmd \in Unresolved(owner, pkg)
  PROVE  /\ Retained(owner, pkg, cmd) \in storage
         /\ Saved(owner, pkg) = {Retained(owner, pkg, cmd)}
<1>1. PICK e \in Saved(owner, pkg) : ~e.accepted /\ e.cmd = cmd
  BY DEF Unresolved
<1>2. e \in storage /\ e.owner = owner /\ e.pkg = pkg
  BY <1>1 DEF Saved
<1>3. e = Retained(owner, pkg, cmd)
  BY <1>1, <1>2 DEF Retained, TypeOK, Entry
<1>4. \A f \in Saved(owner, pkg) : f = e
  BY <1>2 DEF Saved, TypeOK, OneEntryPerKey
<1> QED BY <1>1, <1>2, <1>3, <1>4

\* The command Run takes up: a new one, or the one its key retains.
LEMMA RunCommand ==
  ASSUME TypeOK, NEW t \in Tabs, ClickRun(t)
  PROVE  /\ Busy(t)'  => action'[t].stage \in {"list", "publish"}
         /\ action'[t] \in Action
         /\ action' = [action EXCEPT ![t] = action'[t]]
         /\ issued' \in Nat /\ issued <= issued'
         /\ storage' \subseteq Entry /\ OneEntryPerKey'
         /\ Retained(action'[t].client.principal, action'[t].pkg, action'[t].cmd) \in storage'
         /\ \A e \in storage : ~e.accepted => e \in storage'
<1> DEFINE owner == client[t].principal
           pkg == page[t].prepared
           prior == Unresolved(owner, pkg)
           kept == CHOOSE c \in prior : TRUE
           cmd == IF prior = {} THEN issued + 1 ELSE kept
           e == Retained(owner, pkg, cmd)
<1>1. owner \in Principals /\ pkg \in Nat /\ client[t] \in Client /\ page[t].text \in Graphs
  BY DEF TypeOK, Client, Page
<1>2. prior # {} => kept \in prior
  OBVIOUS
<1>3. prior # {} => /\ Retained(owner, pkg, kept) \in storage
                   /\ Saved(owner, pkg) = {Retained(owner, pkg, kept)}
  BY <1>2, UnresolvedAlone
<1>4. /\ issued' = IF prior = {} THEN issued + 1 ELSE issued
      /\ Save(e)
  BY DEF ClickRun, Retained
<1>5. issued' \in Nat /\ issued <= issued'
  BY <1>4 DEF TypeOK
<1>6. cmd \in 1 .. issued'
  <2>1. CASE prior = {}
    BY <2>1, <1>4 DEF TypeOK
  <2>2. CASE prior # {}
    <3>1. Retained(owner, pkg, kept).cmd \in 1 .. issued
      BY <2>2, <1>3 DEF TypeOK, OneEntryPerKey
    <3> QED BY <2>2, <3>1, <1>4 DEF Retained
  <2> QED BY <2>1, <2>2
<1>7. e \in Entry /\ e.owner = owner /\ e.pkg = pkg /\ e.cmd = cmd
  BY <1>1, <1>5, <1>6 DEF Retained, Entry
<1>8. storage' \subseteq Entry /\ OneEntryPerKey'
  BY <1>4, <1>5, <1>6, <1>7, SaveType DEF TypeOK
<1>9. storage' = (storage \ Saved(owner, pkg)) \union {e}
  BY <1>4, <1>7 DEF Save
<1>10. ASSUME NEW f \in storage, ~f.accepted PROVE f \in storage'
  <2>1. CASE f \in Saved(owner, pkg)
    <3>1. f.cmd \in prior
      BY <2>1, <1>10 DEF Unresolved
    <3>2. f = e
      BY <2>1, <3>1, <1>3
    <3> QED BY <3>2, <1>9
  <2>2. CASE f \notin Saved(owner, pkg)
    BY <2>2, <1>9
  <2> QED BY <2>1, <2>2
<1>11. PICK again \in BOOLEAN :
         action' = [action EXCEPT ![t] =
                      [stage |-> IF again THEN "list" ELSE "publish", client |-> client[t],
                       text |-> page[t].text, pkg |-> pkg, cmd |-> cmd, again |-> again]]
  BY DEF ClickRun
<1>12. /\ action'[t] \in Action
       /\ action'[t].stage \in {"list", "publish"}
       /\ action'[t].client.principal = owner /\ action'[t].pkg = pkg /\ action'[t].cmd = cmd
       /\ action' = [action EXCEPT ![t] = action'[t]]
  <2> HIDE DEF cmd, pkg, prior, kept
  <2>1. cmd \in Nat
    BY <1>5, <1>6
  <2> QED BY <1>1, <1>11, <2>1 DEF TypeOK, Action, Stages
<1> QED BY <1>5, <1>8, <1>9, <1>10, <1>12

\* Storing a receipt: the command is recorded, and nothing else unresolved is lost.
LEMMA RanStores ==
  ASSUME TypeOK, NEW t \in Tabs, Ran(t)
  PROVE  /\ storage' \subseteq Entry /\ OneEntryPerKey'
         /\ recorded \subseteq recorded' /\ recorded' \subseteq Nat
         /\ \A e \in storage : ~e.accepted => e \in storage' \/ e.cmd \in recorded'
<1> DEFINE a == action[t]
           owner == a.client.principal
           e == [owner |-> owner, pkg |-> a.pkg, cmd |-> a.cmd, accepted |-> TRUE]
<1>1. issued' = issued /\ issued \in Nat /\ a \in Action
  BY DEF Ran, Busy, TypeOK
<1>2. CASE a.cmd \notin Unresolved(owner, a.pkg)
  BY <1>1, <1>2 DEF Ran, TypeOK, OneEntryPerKey
<1>3. CASE a.cmd \in Unresolved(owner, a.pkg)
  <2>1. Save(e) /\ recorded' = recorded \union {a.cmd}
    BY <1>3 DEF Ran
  <2>2. /\ Retained(owner, a.pkg, a.cmd) \in storage
        /\ Saved(owner, a.pkg) = {Retained(owner, a.pkg, a.cmd)}
    BY <1>3, UnresolvedAlone
  <2>3. Retained(owner, a.pkg, a.cmd).cmd = a.cmd
    BY DEF Retained
  <2>4. a.cmd \in 1 .. issued /\ a.cmd \in Nat
    BY <1>1, <2>2, <2>3 DEF TypeOK, OneEntryPerKey, Action
  <2>5. e \in Entry /\ e.cmd = a.cmd /\ e.owner = owner /\ e.pkg = a.pkg
    BY <1>1 DEF Action, Client, Entry
  <2>6. storage' \subseteq Entry /\ OneEntryPerKey'
    BY <1>1, <2>1, <2>4, <2>5, SaveType DEF TypeOK
  <2>7. storage' = (storage \ Saved(owner, a.pkg)) \union {e}
    BY <2>1, <2>5 DEF Save
  <2>8. \A f \in storage : f \in storage' \/ f.cmd \in recorded'
    BY <2>1, <2>2, <2>3, <2>7
  <2> QED BY <2>1, <2>4, <2>6, <2>8 DEF TypeOK
<1> QED BY <1>2, <1>3

-----------------------------------------------------------------------------
\* Every step keeps the types.
LEMMA TypeStep == TypeOK /\ AttachmentsServed /\ [Next]_vars => TypeOK'
<1> SUFFICES ASSUME TypeOK, AttachmentsServed, [Next]_vars PROVE TypeOK'
  OBVIOUS
<1> USE DEF TypeOK, Spend, Operations, Finish, Proceed, EndAttachment, FreshPage
<1>1. ASSUME NEW t \in Tabs, NEW g \in Graphs, Edit(t, g) PROVE TypeOK'
  BY <1>1 DEF Edit, Page, Client, browserVars, serverVars, OneEntryPerKey
<1>2. ASSUME NEW t \in Tabs, NEW g \in Graphs, TypeJson(t, g) PROVE TypeOK'
  <2>1. page' \in [Tabs -> Page]
    BY <1>2, ZenonT(60) DEF TypeJson, Page
  <2> QED BY <1>2, <2>1 DEF TypeJson, browserVars, serverVars, OneEntryPerKey
<1>3. ASSUME NEW t \in Tabs, ApplyJson(t) PROVE TypeOK'
  BY <1>3 DEF ApplyJson, Page, Client, browserVars, serverVars, OneEntryPerKey
<1>4. ASSUME NEW t \in Tabs, RestoreJson(t) PROVE TypeOK'
  <2>1. page' \in [Tabs -> Page]
    BY <1>4, ZenonT(60) DEF RestoreJson, Page
  <2> QED BY <1>4, <2>1 DEF RestoreJson, browserVars, serverVars, OneEntryPerKey
<1>5. ASSUME NEW t \in Tabs, ClickPrepare(t) PROVE TypeOK'
  <2>1. page[t].text \in Graphs
    BY DEF Page
  <2>2. action' \in [Tabs -> Action \union {None}]
    BY <1>5, <2>1 DEF ClickPrepare, Action, Stages
  <2> QED BY <1>5, <2>2 DEF ClickPrepare, browserVars, serverVars, OneEntryPerKey
<1>6. ASSUME NEW t \in Tabs, ClickRun(t) PROVE TypeOK'
  <2>1. /\ action'[t] \in Action /\ action' = [action EXCEPT ![t] = action'[t]]
        /\ issued' \in Nat /\ storage' \subseteq Entry /\ OneEntryPerKey'
    BY <1>6, RunCommand
  <2>2. action' \in [Tabs -> Action \union {None}]
    BY <2>1
  <2>3. used' \in [Operations -> Nat]
    BY <1>6 DEF ClickRun
  <2>4. UNCHANGED <<client, page, shown, attempted, reply, attach, recorded, packages, published,
                    runs, late>>
    BY <1>6 DEF ClickRun, serverVars
  <2> QED BY <2>1, <2>2, <2>3, <2>4
<1>7. ASSUME NEW t \in Tabs, NEW g \in Graphs, SetGraph(t, g) PROVE TypeOK'
  BY <1>7 DEF SetGraph, Page, Client, browserVars, serverVars, OneEntryPerKey
<1>8. ASSUME NEW t \in Tabs, NEW p \in Principals, SwapClient(t, p) PROVE TypeOK'
  <2>1. client' \in [Tabs -> Client]
    BY <1>8 DEF SwapClient, Client
  <2>2. page' \in [Tabs -> Page]
    BY <1>8, ZenonT(60) DEF SwapClient, Page
  <2> QED BY <1>8, <2>1, <2>2 DEF SwapClient, browserVars, serverVars, OneEntryPerKey
<1>9. ASSUME NEW t \in Tabs, Reload(t) PROVE TypeOK'
  <2>1. late' \subseteq Action
    BY <1>9 DEF Reload, Abandoned, Busy
  <2>a. /\ client' = [client EXCEPT ![t].generation = @ + 1]
        /\ page' = [page EXCEPT ![t] = FreshPage(EmptyGraph, FALSE)]
    BY <1>9 DEF Reload
  <2>2. client' \in [Tabs -> Client]
    <3>1. client \in [Tabs -> [principal : Principals, generation : Nat]]
      BY DEF Client
    <3> HIDE DEF TypeOK
    <3> QED BY <2>a, <3>1 DEF Client
  <2>3. page' \in [Tabs -> Page]
    BY <2>a, EmptyGraphAssumption DEF Page
  <2> QED BY <1>9, <2>1, <2>2, <2>3 DEF Reload, browserVars, OneEntryPerKey
<1>10. ASSUME NEW t \in Tabs, NEW pkg \in 1 .. Len(packages), Attach(t, pkg) PROVE TypeOK'
  BY <1>10 DEF Attach, Attachments, Page, browserVars, serverVars, OneEntryPerKey
<1>11. ASSUME NEW t \in Tabs, Prepared(t) PROVE TypeOK'
  <2>1. action[t].text \in Graphs /\ reply[t].pkg \in Nat
    BY <1>11 DEF Prepared, Busy, Answered, Action, Replies
  <2>2. page' \in [Tabs -> Page]
    BY <1>11, <2>1 DEF Prepared, Page
  <2> QED BY <1>11, <2>2 DEF Prepared, browserVars, serverVars, OneEntryPerKey
<1>12. ASSUME NEW t \in Tabs, Listed(t) PROVE TypeOK'
  <2>1. action[t] \in Action
    BY <1>12 DEF Listed, Busy
  <2>2. [action[t] EXCEPT !.stage = "publish"] \in Action
    BY <2>1 DEF Action, Stages
  <2> QED BY <1>12, <2>2 DEF Listed, browserVars, serverVars, OneEntryPerKey
<1>13. ASSUME NEW t \in Tabs, Conflicted(t) PROVE TypeOK'
  <2>1. action[t] \in Action
    BY <1>13 DEF Conflicted, Busy
  <2>2. [action[t] EXCEPT !.stage = "confirm"] \in Action
    BY <2>1 DEF Action, Stages
  <2> QED BY <1>13, <2>2 DEF Conflicted, browserVars, serverVars, OneEntryPerKey
<1>14. ASSUME NEW t \in Tabs, Published(t) PROVE TypeOK'
  <2>1. action[t] \in Action /\ action[t].cmd \in Nat
    BY <1>14 DEF Published, Busy, Action
  <2>2. [action[t] EXCEPT !.stage = "submit"] \in Action
    BY <2>1 DEF Action, Stages
  <2>3. attempted' \in [Tabs -> SUBSET Nat]
    BY <1>14, <2>1 DEF Published
  <2> QED BY <1>14, <2>2, <2>3 DEF Published, browserVars, serverVars, OneEntryPerKey
<1>15. ASSUME NEW t \in Tabs, Ran(t) PROVE TypeOK'
  <2>1. storage' \subseteq Entry /\ OneEntryPerKey' /\ recorded' \subseteq Nat
    BY <1>15, RanStores
  <2>2. shown' \in [Tabs -> Nat]
    BY <1>15 DEF Ran, Busy, Action
  <2> QED BY <1>15, <2>1, <2>2 DEF Ran, Busy, serverVars
<1>16. ASSUME NEW t \in Tabs, Fails(t) PROVE TypeOK'
  BY <1>16 DEF Fails, browserVars, serverVars, OneEntryPerKey
<1>17. ASSUME NEW t \in Tabs, AttachReads(t) PROVE TypeOK'
  <2>1. attach[t] \in Attachments /\ page[t].text \in Graphs
    BY <1>17 DEF AttachReads, Page
  <2>2. [attach[t] EXCEPT !.stage = "reading", !.text = page[t].text] \in Attachments
    BY <2>1 DEF Attachments
  <2> QED BY <1>17, <2>2 DEF AttachReads, browserVars, serverVars, OneEntryPerKey
<1>18. ASSUME NEW t \in Tabs, AttachReturns(t) PROVE TypeOK'
  <2>1. attach[t].pkg \in 1 .. Len(packages)
    BY <1>18 DEF AttachReturns, AttachmentsServed
  <2>2. packages[attach[t].pkg] \in Graphs /\ attach[t].pkg \in Nat
    BY <2>1
  <2>3. page' \in [Tabs -> Page]
    BY <1>18, <2>2 DEF AttachReturns, Page
  <2> QED BY <1>18, <2>3 DEF AttachReturns, browserVars, serverVars, OneEntryPerKey
<1>19. ASSUME NEW t \in Tabs, AttachFails(t) PROVE TypeOK'
  BY <1>19 DEF AttachFails, browserVars, serverVars, OneEntryPerKey
<1>20. ASSUME NEW t \in Tabs, ServerHandles(t) PROVE TypeOK'
  <2>1. action[t] \in Action
    BY <1>20 DEF ServerHandles, Busy
  <2>2. packages' \in Seq(Graphs) /\ Len(packages') \in Nat
    BY <1>20, <2>1 DEF ServerHandles, Handled, Action
  <2>3. published' \subseteq Publication /\ runs' \subseteq ServerRun
    BY <1>20, <2>1
    DEF ServerHandles, Handled, Submission, Action, Client, Publication, ServerRun
  <2>4. Status(action[t]) \in {"ok", "conflict", "failed"}
    BY DEF Status
  <2>5. reply' \in [Tabs -> Replies \union {None}]
    BY <1>20, <2>2, <2>4 DEF ServerHandles, Replies
  <2> QED BY <1>20, <2>2, <2>3, <2>5 DEF ServerHandles, browserVars, OneEntryPerKey
<1>21. ASSUME NEW t \in Tabs, LoseRequest(t) PROVE TypeOK'
  <2>1. Abandoned(t) \subseteq Action
    BY DEF Abandoned, Busy
  <2>2. reply' \in [Tabs -> Replies \union {None}]
    BY <1>21 DEF LoseRequest, Replies
  <2> QED BY <1>21, <2>1, <2>2 DEF LoseRequest, browserVars, OneEntryPerKey
<1>22. ASSUME NEW t \in Tabs, LoseReply(t) PROVE TypeOK'
  BY <1>22 DEF LoseReply, Replies, browserVars, serverVars, OneEntryPerKey
<1>23. ASSUME LateRequest PROVE TypeOK'
  <2>1. PICK r \in late : 
             /\ Handled(r) /\ late' = late \ {r}
             /\ UNCHANGED <<tabVars, browserVars, used>>
    BY <1>23 DEF LateRequest
  <2>2. r \in Action
    BY <2>1
  <2>3. packages' \in Seq(Graphs)
    BY <2>1, <2>2 DEF Handled, Action
  <2>4. published' \subseteq Publication /\ runs' \subseteq ServerRun
    BY <2>1, <2>2 DEF Handled, Submission, Action, Client, Publication, ServerRun
  <2> QED BY <2>1, <2>3, <2>4 DEF tabVars, browserVars, OneEntryPerKey
<1>24. CASE UNCHANGED vars
  BY <1>24 DEF vars, tabVars, browserVars, serverVars, OneEntryPerKey
<1> QED BY <1>1, <1>2, <1>3, <1>4, <1>5, <1>6, <1>7, <1>8, <1>9, <1>10, <1>11, <1>12, <1>13,
          <1>14, <1>15, <1>16, <1>17, <1>18, <1>19, <1>20, <1>21, <1>22, <1>23, <1>24
     DEF Next, Human, Host, Continue, Network

-----------------------------------------------------------------------------
\* No step forgets a command: it is retained until its receipt is stored.
LEMMA KnownStays ==
  ASSUME TypeOK, [Next]_vars, NEW owner, NEW pkg, NEW cmd, Known(owner, pkg, cmd)
  PROVE  Known(owner, pkg, cmd)'
<1> DEFINE e == Retained(owner, pkg, cmd)
<1>1. ~e.accepted /\ e.cmd = cmd
  BY DEF Retained
<1>2. ASSUME NEW t \in Tabs, ClickRun(t) PROVE Known(owner, pkg, cmd)'
  BY <1>1, <1>2, RunCommand DEF ClickRun, Known
<1>3. ASSUME NEW t \in Tabs, Ran(t) PROVE Known(owner, pkg, cmd)'
  BY <1>1, <1>3, RanStores DEF Known
<1>4. CASE UNCHANGED <<storage, recorded>>
  BY <1>4 DEF Known
<1> HIDE DEF e
<1>5. UNCHANGED browserVars => UNCHANGED <<storage, recorded>>
  BY DEF browserVars
<1>6. ASSUME NEW t \in Tabs, Human(t) PROVE Known(owner, pkg, cmd)'
  BY <1>2, <1>4, <1>5, <1>6 DEF Human, Edit, TypeJson, ApplyJson, RestoreJson, ClickPrepare
<1>7. ASSUME NEW t \in Tabs, Host(t) PROVE Known(owner, pkg, cmd)'
  BY <1>4, <1>5, <1>7 DEF Host, SetGraph, SwapClient, Reload, Attach
<1>8. ASSUME NEW t \in Tabs, Continue(t) PROVE Known(owner, pkg, cmd)'
  BY <1>3, <1>4, <1>5, <1>8
  DEF Continue, Prepared, Listed, Conflicted, Published, Fails, AttachReads, AttachReturns, AttachFails
<1>9. ASSUME NEW t \in Tabs, ServerHandles(t) PROVE Known(owner, pkg, cmd)'
  BY <1>4, <1>5, <1>9 DEF ServerHandles
<1>10. CASE Network
  BY <1>4, <1>5, <1>10 DEF Network, LoseRequest, LoseReply, LateRequest
<1>11. CASE UNCHANGED vars
  BY <1>4, <1>5, <1>11 DEF vars
<1> QED BY <1>6, <1>7, <1>8, <1>9, <1>10, <1>11 DEF Next

\* Handling a request adds to what the server keeps.
LEMMA HandledGrows ==
  ASSUME TypeOK, NEW r \in Action, Handled(r)
  PROVE  /\ runs \subseteq runs'
         /\ Len(packages) <= Len(packages') /\ Len(packages') \in Nat
         /\ \A i \in 1 .. Len(packages) : packages'[i] = packages[i]
BY DEF Handled, TypeOK, Action

\* The server forgets neither versions nor runs.
Growth ==
    /\ runs \subseteq runs'
    /\ \A pkg, g : Served(pkg, g) => Served(pkg, g)'
    /\ \A pkg \in 1 .. Len(packages) : pkg \in 1 .. Len(packages')

LEMMA ServerGrows == TypeOK /\ [Next]_vars => Growth
<1> SUFFICES ASSUME TypeOK, [Next]_vars PROVE Growth
  OBVIOUS
<1>1. ASSUME NEW r \in Action, Handled(r) PROVE Growth
  BY <1>1, HandledGrows DEF Served, TypeOK, Growth
<1>2. CASE UNCHANGED <<packages, runs>>
  BY <1>2 DEF Served, Growth
<1>3. UNCHANGED serverVars => UNCHANGED <<packages, runs>>
  BY DEF serverVars
<1>4. ASSUME NEW t \in Tabs, Human(t) PROVE Growth
  BY <1>2, <1>3, <1>4 DEF Human, Edit, TypeJson, ApplyJson, RestoreJson, ClickPrepare, ClickRun
<1>5. ASSUME NEW t \in Tabs, Host(t) PROVE Growth
  BY <1>2, <1>3, <1>5 DEF Host, SetGraph, SwapClient, Reload, Attach
<1>6. ASSUME NEW t \in Tabs, Continue(t) PROVE Growth
  BY <1>2, <1>3, <1>6
  DEF Continue, Prepared, Listed, Conflicted, Published, Ran, Fails,
      AttachReads, AttachReturns, AttachFails
<1>7. ASSUME NEW t \in Tabs, ServerHandles(t) PROVE Growth
  BY <1>1, <1>7 DEF ServerHandles, Busy, TypeOK
<1>8. CASE Network
  <2>1. CASE LateRequest
    BY <1>1, <2>1 DEF LateRequest, TypeOK
  <2> QED BY <1>2, <1>3, <1>8, <2>1 DEF Network, LoseRequest, LoseReply
<1>9. CASE UNCHANGED vars
  BY <1>2, <1>3, <1>9 DEF vars
<1> QED BY <1>4, <1>5, <1>6, <1>7, <1>8, <1>9 DEF Next

-----------------------------------------------------------------------------
\* Requests keep asking under known commands: Run draws or takes up the command
\* its key retains, and later stages keep it.
LEMMA RequestsStep == TypeOK /\ RequestsKnown /\ [Next]_vars => RequestsKnown'
<1> SUFFICES ASSUME TypeOK, RequestsKnown, [Next]_vars PROVE RequestsKnown'
  OBVIOUS
<1>0. \A owner, pkg, cmd : Known(owner, pkg, cmd) => Known(owner, pkg, cmd)'
  BY KnownStays
<1> USE <1>0 DEF RequestsKnown, Sought
<1>1. ASSUME NEW t \in Tabs, NEW g \in Graphs, Edit(t, g) PROVE RequestsKnown'
  BY <1>1 DEF Edit, Busy, serverVars
<1>2. ASSUME NEW t \in Tabs, NEW g \in Graphs, TypeJson(t, g) PROVE RequestsKnown'
  BY <1>2 DEF TypeJson, Busy, serverVars
<1>3. ASSUME NEW t \in Tabs, ApplyJson(t) PROVE RequestsKnown'
  BY <1>3 DEF ApplyJson, Busy, serverVars
<1>4. ASSUME NEW t \in Tabs, RestoreJson(t) PROVE RequestsKnown'
  BY <1>4 DEF RestoreJson, Busy, serverVars
<1>5. ASSUME NEW t \in Tabs, ClickPrepare(t) PROVE RequestsKnown'
  BY <1>5 DEF ClickPrepare, Busy, TypeOK, serverVars
<1>6. ASSUME NEW t \in Tabs, ClickRun(t) PROVE RequestsKnown'
  <2>1. /\ action' = [action EXCEPT ![t] = action'[t]]
        /\ Retained(action'[t].client.principal, action'[t].pkg, action'[t].cmd) \in storage'
    BY <1>6, RunCommand
  <2>2. ASSUME NEW u \in Tabs, Busy(u)' PROVE Sought(action[u])'
    <3>1. CASE u = t
      BY <2>1, <3>1 DEF Known
    <3>2. CASE u # t
      BY <2>1, <2>2, <3>2 DEF Busy, TypeOK
    <3> QED BY <3>1, <3>2
  <2> QED BY <1>6, <2>2 DEF ClickRun, serverVars
<1>7. ASSUME NEW t \in Tabs, NEW g \in Graphs, SetGraph(t, g) PROVE RequestsKnown'
  BY <1>7 DEF SetGraph, Busy, serverVars
<1>8. ASSUME NEW t \in Tabs, NEW p \in Principals, SwapClient(t, p) PROVE RequestsKnown'
  BY <1>8 DEF SwapClient, Busy, serverVars
<1>9. ASSUME NEW t \in Tabs, Reload(t) PROVE RequestsKnown'
  BY <1>9 DEF Reload, Busy, Finish, Abandoned, TypeOK
<1>10. ASSUME NEW t \in Tabs, NEW pkg \in 1 .. Len(packages), Attach(t, pkg) PROVE RequestsKnown'
  BY <1>10 DEF Attach, Busy, serverVars
<1>11. ASSUME NEW t \in Tabs, Prepared(t) PROVE RequestsKnown'
  BY <1>11 DEF Prepared, Busy, Finish, Proceed, TypeOK, Action, serverVars
<1>12. ASSUME NEW t \in Tabs, Listed(t) PROVE RequestsKnown'
  BY <1>12 DEF Listed, Busy, Finish, Proceed, TypeOK, Action, serverVars
<1>13. ASSUME NEW t \in Tabs, Conflicted(t) PROVE RequestsKnown'
  BY <1>13 DEF Conflicted, Busy, Finish, Proceed, TypeOK, Action, serverVars
<1>14. ASSUME NEW t \in Tabs, Published(t) PROVE RequestsKnown'
  BY <1>14 DEF Published, Busy, Finish, Proceed, TypeOK, Action, serverVars
<1>15. ASSUME NEW t \in Tabs, Ran(t) PROVE RequestsKnown'
  BY <1>15 DEF Ran, Busy, Finish, Proceed, TypeOK, Action, serverVars
<1>16. ASSUME NEW t \in Tabs, Fails(t) PROVE RequestsKnown'
  BY <1>16 DEF Fails, Busy, Finish, Proceed, TypeOK, Action, serverVars
<1>17. ASSUME NEW t \in Tabs, AttachReads(t) PROVE RequestsKnown'
  BY <1>17 DEF AttachReads, Busy, serverVars
<1>18. ASSUME NEW t \in Tabs, AttachReturns(t) PROVE RequestsKnown'
  BY <1>18 DEF AttachReturns, Busy, serverVars
<1>19. ASSUME NEW t \in Tabs, AttachFails(t) PROVE RequestsKnown'
  BY <1>19 DEF AttachFails, Busy, serverVars
<1>20. ASSUME NEW t \in Tabs, ServerHandles(t) PROVE RequestsKnown'
  BY <1>20 DEF ServerHandles, Busy
<1>21. ASSUME NEW t \in Tabs, LoseRequest(t) PROVE RequestsKnown'
  <2>1. late' \subseteq late \union Abandoned(t) /\ action' = action /\ UNCHANGED browserVars
    BY <1>21 DEF LoseRequest
  <2>2. \A r \in Abandoned(t) : Busy(t) /\ r = action[t]
    BY DEF Abandoned
  <2>3. \A r \in late' : Sought(r)
    BY <2>1, <2>2
  <2> QED BY <2>1, <2>3 DEF Busy
<1>22. ASSUME NEW t \in Tabs, LoseReply(t) PROVE RequestsKnown'
  BY <1>22 DEF LoseReply, Busy, serverVars
<1>23. ASSUME LateRequest PROVE RequestsKnown'
  BY <1>23 DEF LateRequest, tabVars, Busy
<1>24. CASE UNCHANGED vars
  BY <1>24 DEF vars, tabVars, serverVars, Busy
<1> QED BY <1>1, <1>2, <1>3, <1>4, <1>5, <1>6, <1>7, <1>8, <1>9, <1>10, <1>11, <1>12, <1>13,
          <1>14, <1>15, <1>16, <1>17, <1>18, <1>19, <1>20, <1>21, <1>22, <1>23, <1>24
     DEF Next, Human, Host, Continue, Network

\* Runs the server starts are asked for under known commands.
LEMMA RunsStep == TypeOK /\ RequestsKnown /\ RunsKnown /\ [Next]_vars => RunsKnown'
<1> SUFFICES ASSUME TypeOK, RequestsKnown, RunsKnown, [Next]_vars PROVE RunsKnown'
  OBVIOUS
<1>1. \A owner, pkg, cmd : Known(owner, pkg, cmd) => Known(owner, pkg, cmd)'
  BY KnownStays
<1>2. CASE UNCHANGED runs
  BY <1>1, <1>2 DEF RunsKnown
<1>3. UNCHANGED serverVars => UNCHANGED runs
  BY DEF serverVars
<1>4. ASSUME NEW r \in Action, Sought(r), Handled(r) PROVE RunsKnown'
  <2>1. ASSUME NEW s \in runs' PROVE Known(s.owner, s.pkg, s.cmd)
    <3>1. CASE s \in runs
      BY <3>1 DEF RunsKnown
    <3>2. CASE r.stage = "submit" /\ s = Submission(r)
      BY <1>4, <3>2 DEF Submission, Sought
    <3> QED BY <1>4, <2>1, <3>1, <3>2 DEF Handled
  <2> QED BY <1>1, <2>1 DEF RunsKnown
<1>5. ASSUME NEW t \in Tabs, Human(t) PROVE RunsKnown'
  BY <1>2, <1>3, <1>5 DEF Human, Edit, TypeJson, ApplyJson, RestoreJson, ClickPrepare, ClickRun
<1>6. ASSUME NEW t \in Tabs, Host(t) PROVE RunsKnown'
  BY <1>2, <1>3, <1>6 DEF Host, SetGraph, SwapClient, Reload, Attach
<1>7. ASSUME NEW t \in Tabs, Continue(t) PROVE RunsKnown'
  BY <1>2, <1>3, <1>7
  DEF Continue, Prepared, Listed, Conflicted, Published, Ran, Fails,
      AttachReads, AttachReturns, AttachFails
<1>8. ASSUME NEW t \in Tabs, ServerHandles(t) PROVE RunsKnown'
  BY <1>4, <1>8 DEF ServerHandles, RequestsKnown, Busy, TypeOK
<1>9. CASE Network
  <2>1. CASE LateRequest
    BY <1>4, <2>1 DEF LateRequest, RequestsKnown, TypeOK
  <2> QED BY <1>2, <1>9, <2>1 DEF Network, LoseRequest, LoseReply, serverVars
<1>10. CASE UNCHANGED vars
  BY <1>2, <1>3, <1>10 DEF vars
<1> QED BY <1>5, <1>6, <1>7, <1>8, <1>9, <1>10 DEF Next

-----------------------------------------------------------------------------
\* Answers keep telling the truth.
LEMMA RepliesStep == TypeOK /\ RepliesAgree /\ [Next]_vars => RepliesAgree'
<1> SUFFICES ASSUME TypeOK, RepliesAgree, [Next]_vars PROVE RepliesAgree'
  OBVIOUS
<1>0. /\ runs \subseteq runs'
      /\ \A pkg, g : Served(pkg, g) => Served(pkg, g)'
  BY ServerGrows DEF Growth
<1> USE <1>0 DEF RepliesAgree, Answered, Busy
<1>1. ASSUME NEW t \in Tabs, NEW g \in Graphs, Edit(t, g) PROVE RepliesAgree'
  BY <1>1 DEF Edit, Submission
<1>2. ASSUME NEW t \in Tabs, NEW g \in Graphs, TypeJson(t, g) PROVE RepliesAgree'
  BY <1>2 DEF TypeJson, Submission
<1>3. ASSUME NEW t \in Tabs, ApplyJson(t) PROVE RepliesAgree'
  BY <1>3 DEF ApplyJson, Submission
<1>4. ASSUME NEW t \in Tabs, RestoreJson(t) PROVE RepliesAgree'
  BY <1>4 DEF RestoreJson, Submission
<1>5. ASSUME NEW t \in Tabs, ClickPrepare(t) PROVE RepliesAgree'
  BY <1>5 DEF ClickPrepare, TypeOK, Submission
<1>6. ASSUME NEW t \in Tabs, ClickRun(t) PROVE RepliesAgree'
  <2>1. action' = [action EXCEPT ![t] = action'[t]] /\ reply' = reply /\ reply[t] = None
    BY <1>6, RunCommand DEF ClickRun
  <2> QED BY <2>1 DEF TypeOK, Submission
<1>7. ASSUME NEW t \in Tabs, NEW g \in Graphs, SetGraph(t, g) PROVE RepliesAgree'
  BY <1>7 DEF SetGraph, Submission
<1>8. ASSUME NEW t \in Tabs, NEW p \in Principals, SwapClient(t, p) PROVE RepliesAgree'
  BY <1>8 DEF SwapClient, Submission
<1>9. ASSUME NEW t \in Tabs, Reload(t) PROVE RepliesAgree'
  BY <1>9 DEF Reload, Finish, TypeOK, Submission
<1>10. ASSUME NEW t \in Tabs, NEW pkg \in 1 .. Len(packages), Attach(t, pkg) PROVE RepliesAgree'
  BY <1>10 DEF Attach, Submission
<1>11. ASSUME NEW t \in Tabs, Prepared(t) PROVE RepliesAgree'
  BY <1>11 DEF Prepared, Finish, Proceed, Submission, TypeOK, Action
<1>12. ASSUME NEW t \in Tabs, Listed(t) PROVE RepliesAgree'
  BY <1>12 DEF Listed, Finish, Proceed, Submission, TypeOK, Action
<1>13. ASSUME NEW t \in Tabs, Conflicted(t) PROVE RepliesAgree'
  BY <1>13 DEF Conflicted, Finish, Proceed, Submission, TypeOK, Action
<1>14. ASSUME NEW t \in Tabs, Published(t) PROVE RepliesAgree'
  BY <1>14 DEF Published, Finish, Proceed, Submission, TypeOK, Action
<1>15. ASSUME NEW t \in Tabs, Ran(t) PROVE RepliesAgree'
  BY <1>15 DEF Ran, Finish, Proceed, Submission, TypeOK, Action
<1>16. ASSUME NEW t \in Tabs, Fails(t) PROVE RepliesAgree'
  BY <1>16 DEF Fails, Finish, Proceed, Submission, TypeOK, Action
<1>17. ASSUME NEW t \in Tabs, AttachReads(t) PROVE RepliesAgree'
  BY <1>17 DEF AttachReads, Submission
<1>18. ASSUME NEW t \in Tabs, AttachReturns(t) PROVE RepliesAgree'
  BY <1>18 DEF AttachReturns, Submission
<1>19. ASSUME NEW t \in Tabs, AttachFails(t) PROVE RepliesAgree'
  BY <1>19 DEF AttachFails, Submission
<1>20. ASSUME NEW t \in Tabs, ServerHandles(t) PROVE RepliesAgree'
  <2>1. action' = action /\ action[t] \in Action /\ action[t] # None /\ Handled(action[t])
    BY <1>20 DEF ServerHandles, TypeOK
  <2>2. reply' = [reply EXCEPT ![t] = [status |-> Status(action[t]), pkg |-> Len(packages')]]
    BY <1>20 DEF ServerHandles
  <2>3. CASE action[t].stage = "prepare"
    <3>1. packages' = Append(packages, action[t].text)
      BY <2>1, <2>3 DEF Handled
    <3>2. Len(packages') \in 1 .. Len(packages') /\ packages'[Len(packages')] = action[t].text
      BY <2>1, <3>1 DEF TypeOK, Action
    <3> QED BY <2>1, <2>2, <2>3, <3>2 DEF TypeOK, Served
  <2>4. CASE action[t].stage = "submit"
    <3>1. Status(action[t]) = "ok" => Submission(action[t]) \in runs'
      BY <2>1, <2>4 DEF Status, Handled
    <3> QED BY <2>1, <2>2, <2>4, <3>1 DEF TypeOK, Submission
  <2> QED BY <2>1, <2>2, <2>3, <2>4 DEF TypeOK, Submission
<1>21. ASSUME NEW t \in Tabs, LoseRequest(t) PROVE RepliesAgree'
  BY <1>21 DEF LoseRequest, TypeOK, Submission
<1>22. ASSUME NEW t \in Tabs, LoseReply(t) PROVE RepliesAgree'
  BY <1>22 DEF LoseReply, TypeOK, Submission
<1>23. ASSUME LateRequest PROVE RepliesAgree'
  BY <1>23 DEF LateRequest, tabVars, Submission
<1>24. CASE UNCHANGED vars
  BY <1>24 DEF vars, tabVars, Submission
<1> QED BY <1>1, <1>2, <1>3, <1>4, <1>5, <1>6, <1>7, <1>8, <1>9, <1>10, <1>11, <1>12, <1>13,
          <1>14, <1>15, <1>16, <1>17, <1>18, <1>19, <1>20, <1>21, <1>22, <1>23, <1>24
     DEF Next, Human, Host, Continue, Network

\* Attachments keep naming versions that exist.
LEMMA AttachmentsStep == TypeOK /\ AttachmentsServed /\ [Next]_vars => AttachmentsServed'
<1> SUFFICES ASSUME TypeOK, AttachmentsServed, [Next]_vars PROVE AttachmentsServed'
  OBVIOUS
<1>0. \A pkg \in 1 .. Len(packages) : pkg \in 1 .. Len(packages')
  BY ServerGrows DEF Growth
<1> USE <1>0 DEF AttachmentsServed, EndAttachment, TypeOK
<1>1. ASSUME NEW t \in Tabs, NEW g \in Graphs, Edit(t, g) PROVE AttachmentsServed'
  BY <1>1 DEF Edit
<1>2. ASSUME NEW t \in Tabs, NEW g \in Graphs, TypeJson(t, g) PROVE AttachmentsServed'
  BY <1>2 DEF TypeJson
<1>3. ASSUME NEW t \in Tabs, ApplyJson(t) PROVE AttachmentsServed'
  BY <1>3 DEF ApplyJson
<1>4. ASSUME NEW t \in Tabs, RestoreJson(t) PROVE AttachmentsServed'
  BY <1>4 DEF RestoreJson
<1>5. ASSUME NEW t \in Tabs, ClickPrepare(t) PROVE AttachmentsServed'
  BY <1>5 DEF ClickPrepare
<1>6. ASSUME NEW t \in Tabs, ClickRun(t) PROVE AttachmentsServed'
  BY <1>6 DEF ClickRun
<1>7. ASSUME NEW t \in Tabs, NEW g \in Graphs, SetGraph(t, g) PROVE AttachmentsServed'
  BY <1>7 DEF SetGraph
<1>8. ASSUME NEW t \in Tabs, NEW p \in Principals, SwapClient(t, p) PROVE AttachmentsServed'
  BY <1>8 DEF SwapClient
<1>9. ASSUME NEW t \in Tabs, Reload(t) PROVE AttachmentsServed'
  BY <1>9 DEF Reload
<1>10. ASSUME NEW t \in Tabs, NEW pkg \in 1 .. Len(packages), Attach(t, pkg) PROVE AttachmentsServed'
  BY <1>10 DEF Attach
<1>11. ASSUME NEW t \in Tabs, Prepared(t) PROVE AttachmentsServed'
  BY <1>11 DEF Prepared
<1>12. ASSUME NEW t \in Tabs, Listed(t) PROVE AttachmentsServed'
  BY <1>12 DEF Listed
<1>13. ASSUME NEW t \in Tabs, Conflicted(t) PROVE AttachmentsServed'
  BY <1>13 DEF Conflicted
<1>14. ASSUME NEW t \in Tabs, Published(t) PROVE AttachmentsServed'
  BY <1>14 DEF Published
<1>15. ASSUME NEW t \in Tabs, Ran(t) PROVE AttachmentsServed'
  BY <1>15 DEF Ran
<1>16. ASSUME NEW t \in Tabs, Fails(t) PROVE AttachmentsServed'
  BY <1>16 DEF Fails
<1>17. ASSUME NEW t \in Tabs, AttachReads(t) PROVE AttachmentsServed'
  BY <1>17 DEF AttachReads, Attachments
<1>18. ASSUME NEW t \in Tabs, AttachReturns(t) PROVE AttachmentsServed'
  BY <1>18 DEF AttachReturns
<1>19. ASSUME NEW t \in Tabs, AttachFails(t) PROVE AttachmentsServed'
  BY <1>19 DEF AttachFails
<1>20. ASSUME NEW t \in Tabs, ServerHandles(t) PROVE AttachmentsServed'
  BY <1>20 DEF ServerHandles
<1>21. ASSUME NEW t \in Tabs, LoseRequest(t) PROVE AttachmentsServed'
  BY <1>21 DEF LoseRequest
<1>22. ASSUME NEW t \in Tabs, LoseReply(t) PROVE AttachmentsServed'
  BY <1>22 DEF LoseReply
<1>23. ASSUME LateRequest PROVE AttachmentsServed'
  BY <1>23 DEF LateRequest, tabVars
<1>24. CASE UNCHANGED vars
  BY <1>24 DEF vars, tabVars
<1> QED BY <1>1, <1>2, <1>3, <1>4, <1>5, <1>6, <1>7, <1>8, <1>9, <1>10, <1>11, <1>12, <1>13,
          <1>14, <1>15, <1>16, <1>17, <1>18, <1>19, <1>20, <1>21, <1>22, <1>23, <1>24
     DEF Next, Human, Host, Continue, Network

-----------------------------------------------------------------------------
\* What can be run stays the graph on screen.
LEMMA ShownStep ==
  TypeOK /\ RepliesAgree /\ AttachmentsServed /\ PreparedIsShown /\ [Next]_vars => PreparedIsShown'
<1> SUFFICES ASSUME TypeOK, RepliesAgree, AttachmentsServed, PreparedIsShown, [Next]_vars
             PROVE  PreparedIsShown'
  OBVIOUS
<1> DEFINE Runnable(p) == p.prepared # 0 =>
             Served(p.prepared, p.text) /\ p.graph = p.text /\ ~p.dirty
<1>a. \A t \in Tabs : Runnable(page[t])
  BY DEF PreparedIsShown, Served
<1>b. \A pkg, g : Served(pkg, g) => Served(pkg, g)'
  BY ServerGrows DEF Growth
<1>c. ASSUME \A u \in Tabs : page'[u] = page[u] \/ page'[u].prepared = 0
                            \/ /\ Served(page'[u].prepared, page'[u].text)
                               /\ page'[u].graph = page'[u].text /\ ~page'[u].dirty
      PROVE  PreparedIsShown'
  <2>1. \A u \in Tabs : page'[u].prepared # 0 =>
          /\ Served(page'[u].prepared, page'[u].text)
          /\ page'[u].graph = page'[u].text /\ ~page'[u].dirty
    BY <1>a, <1>c
  <2>2. \A pkg, g : Served(pkg, g) => pkg \in 1 .. Len(packages') /\ packages'[pkg] = g
    BY <1>b DEF Served
  <2> QED BY <2>1, <2>2 DEF PreparedIsShown
<1> USE DEF FreshPage, TypeOK
<1>1. ASSUME NEW t \in Tabs, NEW g \in Graphs, Edit(t, g) PROVE PreparedIsShown'
  BY <1>1, <1>c DEF Edit
<1>2. ASSUME NEW t \in Tabs, NEW g \in Graphs, TypeJson(t, g) PROVE PreparedIsShown'
  BY <1>2, <1>c DEF TypeJson, Page
<1>3. ASSUME NEW t \in Tabs, ApplyJson(t) PROVE PreparedIsShown'
  BY <1>3, <1>c DEF ApplyJson
<1>4. ASSUME NEW t \in Tabs, RestoreJson(t) PROVE PreparedIsShown'
  <2>1. /\ page'[t].prepared = page[t].prepared /\ page'[t].text = page[t].graph
        /\ page'[t].graph = page[t].graph /\ page'[t].dirty = page[t].dirty
    BY <1>4 DEF RestoreJson, Page
  <2>2. \A u \in Tabs : u # t => page'[u] = page[u]
    BY <1>4 DEF RestoreJson
  <2> QED BY <1>a, <1>c, <2>1, <2>2
<1>5. ASSUME NEW t \in Tabs, ClickPrepare(t) PROVE PreparedIsShown'
  BY <1>5, <1>c DEF ClickPrepare
<1>6. ASSUME NEW t \in Tabs, ClickRun(t) PROVE PreparedIsShown'
  BY <1>6, <1>c DEF ClickRun
<1>7. ASSUME NEW t \in Tabs, NEW g \in Graphs, SetGraph(t, g) PROVE PreparedIsShown'
  BY <1>7, <1>c DEF SetGraph
<1>8. ASSUME NEW t \in Tabs, NEW p \in Principals, SwapClient(t, p) PROVE PreparedIsShown'
  BY <1>8, <1>c DEF SwapClient, Page
<1>9. ASSUME NEW t \in Tabs, Reload(t) PROVE PreparedIsShown'
  BY <1>9, <1>c DEF Reload
<1>10. ASSUME NEW t \in Tabs, NEW pkg \in 1 .. Len(packages), Attach(t, pkg) PROVE PreparedIsShown'
  BY <1>10, <1>c DEF Attach
<1>11. ASSUME NEW t \in Tabs, Prepared(t) PROVE PreparedIsShown'
  <2>1. Served(reply[t].pkg, action[t].text)
    BY <1>11 DEF Prepared, RepliesAgree
  <2> QED BY <1>11, <1>c, <2>1 DEF Prepared
<1>12. ASSUME NEW t \in Tabs, Listed(t) PROVE PreparedIsShown'
  BY <1>12, <1>c DEF Listed
<1>13. ASSUME NEW t \in Tabs, Conflicted(t) PROVE PreparedIsShown'
  BY <1>13, <1>c DEF Conflicted
<1>14. ASSUME NEW t \in Tabs, Published(t) PROVE PreparedIsShown'
  BY <1>14, <1>c DEF Published
<1>15. ASSUME NEW t \in Tabs, Ran(t) PROVE PreparedIsShown'
  BY <1>15, <1>c DEF Ran
<1>16. ASSUME NEW t \in Tabs, Fails(t) PROVE PreparedIsShown'
  BY <1>16, <1>c DEF Fails
<1>17. ASSUME NEW t \in Tabs, AttachReads(t) PROVE PreparedIsShown'
  BY <1>17, <1>c DEF AttachReads
<1>18. ASSUME NEW t \in Tabs, AttachReturns(t) PROVE PreparedIsShown'
  <2>1. Served(attach[t].pkg, packages[attach[t].pkg])
    BY <1>18 DEF AttachReturns, AttachmentsServed, Served
  <2> QED BY <1>18, <1>c, <2>1 DEF AttachReturns
<1>19. ASSUME NEW t \in Tabs, AttachFails(t) PROVE PreparedIsShown'
  BY <1>19, <1>c DEF AttachFails
<1>20. ASSUME NEW t \in Tabs, ServerHandles(t) PROVE PreparedIsShown'
  BY <1>20, <1>c DEF ServerHandles
<1>21. ASSUME NEW t \in Tabs, LoseRequest(t) PROVE PreparedIsShown'
  BY <1>21, <1>c DEF LoseRequest
<1>22. ASSUME NEW t \in Tabs, LoseReply(t) PROVE PreparedIsShown'
  BY <1>22, <1>c DEF LoseReply
<1>23. ASSUME LateRequest PROVE PreparedIsShown'
  BY <1>23, <1>c DEF LateRequest, tabVars
<1>24. CASE UNCHANGED vars
  BY <1>24, <1>c DEF vars, tabVars
<1> QED BY <1>1, <1>2, <1>3, <1>4, <1>5, <1>6, <1>7, <1>8, <1>9, <1>10, <1>11, <1>12, <1>13,
          <1>14, <1>15, <1>16, <1>17, <1>18, <1>19, <1>20, <1>21, <1>22, <1>23, <1>24
     DEF Next, Human, Host, Continue, Network

\* A receipt on screen stays one of the current principal's runs.
LEMMA ReceiptStep == TypeOK /\ RepliesAgree /\ ReceiptIsOwn /\ [Next]_vars => ReceiptIsOwn'
<1> SUFFICES ASSUME TypeOK, RepliesAgree, ReceiptIsOwn, [Next]_vars PROVE ReceiptIsOwn'
  OBVIOUS
<1>a. runs \subseteq runs'
  BY ServerGrows DEF Growth
<1>b. ASSUME \A u \in Tabs :
               \/ shown'[u] = shown[u] /\ client'[u].principal = client[u].principal
               \/ shown'[u] = 0
      PROVE  ReceiptIsOwn'
  BY <1>a, <1>b DEF ReceiptIsOwn
<1> USE DEF TypeOK
<1>1. ASSUME NEW t \in Tabs, NEW g \in Graphs, Edit(t, g) PROVE ReceiptIsOwn'
  BY <1>1, <1>b DEF Edit
<1>2. ASSUME NEW t \in Tabs, NEW g \in Graphs, TypeJson(t, g) PROVE ReceiptIsOwn'
  BY <1>2, <1>b DEF TypeJson
<1>3. ASSUME NEW t \in Tabs, ApplyJson(t) PROVE ReceiptIsOwn'
  BY <1>3, <1>b DEF ApplyJson
<1>4. ASSUME NEW t \in Tabs, RestoreJson(t) PROVE ReceiptIsOwn'
  BY <1>4, <1>b DEF RestoreJson
<1>5. ASSUME NEW t \in Tabs, ClickPrepare(t) PROVE ReceiptIsOwn'
  BY <1>5, <1>b DEF ClickPrepare
<1>6. ASSUME NEW t \in Tabs, ClickRun(t) PROVE ReceiptIsOwn'
  BY <1>6, <1>b DEF ClickRun
<1>7. ASSUME NEW t \in Tabs, NEW g \in Graphs, SetGraph(t, g) PROVE ReceiptIsOwn'
  BY <1>7, <1>b DEF SetGraph
<1>8. ASSUME NEW t \in Tabs, NEW p \in Principals, SwapClient(t, p) PROVE ReceiptIsOwn'
  BY <1>8, <1>b DEF SwapClient
<1>9. ASSUME NEW t \in Tabs, Reload(t) PROVE ReceiptIsOwn'
  BY <1>9, <1>b DEF Reload
<1>10. ASSUME NEW t \in Tabs, NEW pkg \in 1 .. Len(packages), Attach(t, pkg) PROVE ReceiptIsOwn'
  BY <1>10, <1>b DEF Attach
<1>11. ASSUME NEW t \in Tabs, Prepared(t) PROVE ReceiptIsOwn'
  BY <1>11, <1>b DEF Prepared
<1>12. ASSUME NEW t \in Tabs, Listed(t) PROVE ReceiptIsOwn'
  BY <1>12, <1>b DEF Listed
<1>13. ASSUME NEW t \in Tabs, Conflicted(t) PROVE ReceiptIsOwn'
  BY <1>13, <1>b DEF Conflicted
<1>14. ASSUME NEW t \in Tabs, Published(t) PROVE ReceiptIsOwn'
  BY <1>14, <1>b DEF Published
<1>15. ASSUME NEW t \in Tabs, Ran(t) PROVE ReceiptIsOwn'
  <2>1. Submission(action[t]) \in runs
    BY <1>15 DEF Ran, RepliesAgree
  <2>2. client' = client /\ runs' = runs /\ \A u \in Tabs : u # t => shown'[u] = shown[u]
    BY <1>15 DEF Ran, serverVars
  <2>3. CASE ~Current(t)
    BY <1>15, <1>b, <2>2, <2>3 DEF Ran
  <2>4. CASE Current(t)
    <3>1. shown'[t] = action[t].cmd /\ action[t].client = client[t]
      BY <1>15, <2>4 DEF Ran, Current
    <3>2. Submission(action[t]).cmd = shown'[t] /\ Submission(action[t]).owner = client'[t].principal
      BY <2>2, <3>1 DEF Submission
    <3> QED BY <2>1, <2>2, <3>2 DEF ReceiptIsOwn
  <2> QED BY <2>3, <2>4
<1>16. ASSUME NEW t \in Tabs, Fails(t) PROVE ReceiptIsOwn'
  BY <1>16, <1>b DEF Fails
<1>17. ASSUME NEW t \in Tabs, AttachReads(t) PROVE ReceiptIsOwn'
  BY <1>17, <1>b DEF AttachReads
<1>18. ASSUME NEW t \in Tabs, AttachReturns(t) PROVE ReceiptIsOwn'
  BY <1>18, <1>b DEF AttachReturns
<1>19. ASSUME NEW t \in Tabs, AttachFails(t) PROVE ReceiptIsOwn'
  BY <1>19, <1>b DEF AttachFails
<1>20. ASSUME NEW t \in Tabs, ServerHandles(t) PROVE ReceiptIsOwn'
  BY <1>20, <1>b DEF ServerHandles
<1>21. ASSUME NEW t \in Tabs, LoseRequest(t) PROVE ReceiptIsOwn'
  BY <1>21, <1>b DEF LoseRequest
<1>22. ASSUME NEW t \in Tabs, LoseReply(t) PROVE ReceiptIsOwn'
  BY <1>22, <1>b DEF LoseReply
<1>23. ASSUME LateRequest PROVE ReceiptIsOwn'
  BY <1>23, <1>b DEF LateRequest, tabVars
<1>24. CASE UNCHANGED vars
  BY <1>24, <1>b DEF vars, tabVars
<1> QED BY <1>1, <1>2, <1>3, <1>4, <1>5, <1>6, <1>7, <1>8, <1>9, <1>10, <1>11, <1>12, <1>13,
          <1>14, <1>15, <1>16, <1>17, <1>18, <1>19, <1>20, <1>21, <1>22, <1>23, <1>24
     DEF Next, Human, Host, Continue, Network

-----------------------------------------------------------------------------
\* The first page of every tab satisfies the invariant.
LEMMA Start == Init => IInv
<1> SUFFICES ASSUME Init PROVE IInv
  OBVIOUS
<1> USE EmptyGraphAssumption DEF Init, Busy, FreshPage
<1>1. TypeOK
  BY DEF TypeOK, OneEntryPerKey, Client, Page
<1>2. RequestsKnown /\ RunsKnown
  BY DEF RequestsKnown, RunsKnown
<1>3. RepliesAgree /\ AttachmentsServed
  BY DEF RepliesAgree, AttachmentsServed
<1>4. PreparedIsShown /\ ReceiptIsOwn
  BY DEF PreparedIsShown, ReceiptIsOwn
<1> QED BY <1>1, <1>2, <1>3, <1>4 DEF IInv

\* Types and who knows which command, in every reachable state.
THEOREM Invariance == Spec => []IInv
<1>1. IInv /\ [Next]_vars => IInv'
  BY TypeStep, RequestsStep, RunsStep, RepliesStep, AttachmentsStep, ShownStep, ReceiptStep DEF IInv
<1> QED BY Start, <1>1, PTL DEF Spec

\* Every variable holds what the code can put there, for any tabs and bounds.
THEOREM TypeCorrect == Spec => []TypeOK
<1>1. IInv => TypeOK
  BY DEF IInv
<1> QED BY Invariance, <1>1, PTL

\* Two runs without a receipt under one key would both be the command retained
\* there (#commandStorageKey, reserveCommand, run).
THEOREM OneRun == Spec => []OneUnrecordedRun
<1>1. IInv => OneUnrecordedRun
  <2> SUFFICES ASSUME IInv, NEW r \in runs, NEW s \in runs, r.owner = s.owner, r.pkg = s.pkg,
                      r.cmd \notin recorded, s.cmd \notin recorded
               PROVE  r = s
    BY DEF OneUnrecordedRun
  <2>1. /\ Retained(r.owner, r.pkg, r.cmd) \in storage
        /\ Retained(r.owner, r.pkg, s.cmd) \in storage
    BY DEF IInv, RunsKnown, Known
  <2>2. Retained(r.owner, r.pkg, r.cmd) = Retained(r.owner, r.pkg, s.cmd)
    BY <2>1 DEF IInv, TypeOK, OneEntryPerKey, Retained
  <2>3. r.cmd = s.cmd
    BY <2>2 DEF Retained
  <2>4. r \in ServerRun /\ s \in ServerRun
    BY DEF IInv, TypeOK
  <2> QED BY <2>3, <2>4 DEF ServerRun
<1> QED BY Invariance, <1>1, PTL

\* A package that can be run is the graph both editors show (#action prepare,
\* attachWorkspaceTask).
THEOREM ShownGraph == Spec => []PreparedIsShown
<1>1. IInv => PreparedIsShown
  BY DEF IInv
<1> QED BY Invariance, <1>1, PTL

\* A receipt on screen is of a run of the principal the surface acts for
\* (#action run and its current()).
THEOREM OwnReceipts == Spec => []ReceiptIsOwn
<1>1. IInv => ReceiptIsOwn
  BY DEF IInv
<1> QED BY Invariance, <1>1, PTL

\* The package that can be run and the receipt on screen are the surface's own.
THEOREM OwnShown == Spec => []ShownIsOwn
<1>1. IInv => ShownIsOwn
  BY DEF IInv, ShownIsOwn
<1> QED BY Invariance, <1>1, PTL

=============================================================================
