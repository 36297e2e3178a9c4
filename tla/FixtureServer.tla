--------------------------- MODULE FixtureServer ---------------------------
(***************************************************************************)
(* The loopback stand-in for the server (mock-server.mjs): the store its   *)
(* REST routes and its tools share, with the requests that are between     *)
(* their headers and the end of their body.  A route finds its draft, its  *)
(* item or its version when it is called, awaits the body, and goes on     *)
(* with what it found; a tool runs to its end at once.  What is kept of a  *)
(* package is the number of the operation that wrote it.  Of the lists,    *)
(* the walk of one client over their pages is modelled.  The jobs it runs  *)
(* have a specification of their own, at the end.                          *)
(***************************************************************************)
EXTENDS Integers, FiniteSets, SequencesExt

CONSTANTS
    Commands, \* the idempotency keys clients send, scoped to their principal
    Inputs,   \* what a client asks a command to create
    Actors,   \* the principals that propose and decide
    Absent,
    PageSize, MaxDrafts,
    MaxOps    \* bound on the requests, the tools' calls and the walks

ASSUME FixtureAssumption ==
    /\ MaxDrafts \in Nat \ {0, 1} /\ MaxOps \in Nat
    /\ Absent \notin Nat /\ Absent \notin Commands

VARIABLES
    drafts, items, versions, proposals, \* the store, by number
    awaitingByKey,  \* the awaiting proposal of what was proposed by whom
    creates,        \* what each command created
    nextDraft,      \* the number of the next draft
    requests,       \* the requests whose body has not been read
    now,            \* the clock
    walk,           \* one client's walk over the pages of a list
    ops             \* how many requests, calls and walks there were (MaxOps)

storeVars == <<drafts, items, versions, proposals, awaitingByKey, creates, nextDraft>>
fixtureVars == <<storeVars, requests, now, walk, ops>>

-----------------------------------------------------------------------------
(* The store                                                               *)

Held == [item: 1 .. MaxDrafts, generation: Nat, body: 0 .. MaxOps, base: Nat, updated: Nat,
         command: Commands \cup {Absent}]

\* The clock may have moved on to the next millisecond, or not.
Tick == now' \in {now, now + 1}

\* What f holds, with record under number k.
Having(f, k, record) == [x \in DOMAIN f \cup {k} |-> IF x = k THEN record ELSE f[x]]

\* touchItem: an item is there from its first draft on.
Touched(i) ==
    IF i \in DOMAIN items THEN [items EXCEPT ![i].updated = now']
    ELSE Having(items, i, [current |-> Absent, published |-> Absent, updated |-> now'])

VersionsOf(i) == {v \in 1 .. Len(versions) : versions[v].item = i}

\* Mutated: versions are counted by the draft they are saved from.
NumberByDraft(d, i) == Cardinality({v \in VersionsOf(i) : versions[v].draft = d}) + 1
NumberFor(d, i) == Cardinality(VersionsOf(i)) + 1

Store(d, record) == drafts' = Having(drafts, d, record)

\* saveStudioVersion: the draft as it was found is saved, and put back.
SaveStudioVersion(d, held) ==
    LET v == Len(versions) + 1
    IN  /\ versions' = Append(versions, [item |-> held.item, number |-> NumberFor(d, held.item),
                                         body |-> held.body, draft |-> d])
        /\ items' = [Touched(held.item) EXCEPT ![held.item].current = v]
        /\ Store(d, [held EXCEPT !.generation = @ + 1, !.updated = now'])

-----------------------------------------------------------------------------
(* Requests with a body: what they find when they are called               *)

Called(request) ==
    /\ ops < MaxOps
    /\ ops' = ops + 1
    /\ requests' = requests \cup {request}
    /\ UNCHANGED <<storeVars, now, walk>>

\* POST /package-drafts
CallCreate(k, input) == Called([n |-> ops + 1, op |-> "create", command |-> k, input |-> input])

\* PUT /package-drafts/{id}: the client states the generation it has read,
\* or none.
CallPut(d, g) ==
    /\ d \in DOMAIN drafts
    /\ g \in {Absent} \cup (1 .. drafts[d].generation)
    /\ Called([n |-> ops + 1, op |-> "put", draft |-> d, held |-> drafts[d], generation |-> g])

\* POST /package-drafts/{id}/content-versions
CallSave(d) ==
    /\ d \in DOMAIN drafts
    /\ Called([n |-> ops + 1, op |-> "save", draft |-> d, held |-> drafts[d]])

\* Mutated: any version will do, whatever item the route names.
AnyVersion(i, v) == v \in 1 .. Len(versions)
\* requireVersionOr404
VersionOf(i, v) == v \in VersionsOf(i)

\* POST /content-items/{id}/versions/{id}/publish-requests
CallPublish(i, v) ==
    /\ i \in DOMAIN items
    /\ VersionOf(i, v)
    /\ Called([n |-> ops + 1, op |-> "publish", item |-> i, version |-> v])

\* POST /content-items/{id}/rollback-requests
CallRollback(i) ==
    i \in DOMAIN items /\ Called([n |-> ops + 1, op |-> "rollback", item |-> i, held |-> items[i]])

\* POST /publication-proposals/{id}/decision: the proposer may not decide.
CallDecision(n, actor) ==
    /\ n \in 1 .. Len(proposals)
    /\ actor # proposals[n].actor
    /\ Called([n |-> ops + 1, op |-> "decide", proposal |-> n, held |-> proposals[n].status])

-----------------------------------------------------------------------------
(* Requests with a body: what they do once it is read                      *)

BodyRead(r) == requests' = requests \ {r} /\ Tick /\ UNCHANGED <<walk, ops>>

\* A body that is not JSON, or that names nothing of use, is refused.
Refuse(r) ==
    /\ requests' = requests \ {r}
    /\ UNCHANGED <<storeVars, now, walk, ops>>

\* Mutated: a command that asks for something else is a new one.
PreviousSame(r) == r.command \in DOMAIN creates /\ creates[r.command].input = r.input
Previous(r) == r.command \in DOMAIN creates

\* A command's draft is created once: the answer to a repeat is that draft,
\* or a conflict if it asks for something else.
Create(r) ==
    /\ r.op = "create"
    /\ BodyRead(r)
    /\ IF Previous(r) THEN UNCHANGED storeVars
       ELSE /\ nextDraft <= MaxDrafts
            /\ Store(nextDraft, [item |-> nextDraft, generation |-> 1, body |-> r.n,
                                 base |-> 0, updated |-> now', command |-> r.command])
            /\ items' = Touched(nextDraft)
            /\ creates' = IF r.command = Absent THEN creates
                          ELSE Having(creates, r.command, [input |-> r.input, draft |-> nextDraft])
            /\ nextDraft' = nextDraft + 1
            /\ UNCHANGED <<versions, proposals, awaitingByKey>>

\* The stated generation is compared with that of the draft that was found.
Put(r) ==
    /\ r.op = "put"
    /\ BodyRead(r)
    /\ IF r.generation \in {Absent, r.held.generation}
       THEN /\ Store(r.draft, [r.held EXCEPT !.body = r.n, !.generation = @ + 1,
                                             !.updated = now'])
            /\ items' = Touched(r.held.item)
            /\ UNCHANGED <<versions, proposals, awaitingByKey, creates, nextDraft>>
       ELSE UNCHANGED storeVars

SaveDraft(r) ==
    /\ r.op = "save"
    /\ BodyRead(r)
    /\ SaveStudioVersion(r.draft, r.held)
    /\ UNCHANGED <<proposals, awaitingByKey, creates, nextDraft>>

Publish(r) ==
    /\ r.op = "publish"
    /\ BodyRead(r)
    /\ items' = [items EXCEPT ![r.item].published = r.version, ![r.item].updated = now']
    /\ UNCHANGED <<drafts, versions, proposals, awaitingByKey, creates, nextDraft>>

\* The other pointer is put back as it was when the request was called.
Rollback(r) ==
    /\ r.op = "rollback"
    /\ BodyRead(r)
    /\ \E v \in 1 .. Len(versions), pointers \in (SUBSET {"current", "published"}) \ {{}} :
          /\ VersionOf(r.item, v)
          /\ items' = [items EXCEPT ![r.item] =
                 [current |-> IF "current" \in pointers THEN v ELSE r.held.current,
                  published |-> IF "published" \in pointers THEN v ELSE r.held.published,
                  updated |-> now']]
    /\ UNCHANGED <<drafts, versions, proposals, awaitingByKey, creates, nextDraft>>

KeyOf(p) == <<p.item, p.version, p.actor>>

\* Mutated: whether a proposal awaits a decision is read with the request.
AwaitedAtCall(r) == r.held = "AwaitingApproval"
StillAwaiting(r) == proposals[r.proposal].status = "AwaitingApproval"

\* A proposal that has been decided is a conflict.
Decide(r) ==
    /\ r.op = "decide"
    /\ BodyRead(r)
    /\ IF StillAwaiting(r)
       THEN LET p == proposals[r.proposal]
            IN  /\ awaitingByKey' = [k \in DOMAIN awaitingByKey \ {KeyOf(p)} |-> awaitingByKey[k]]
                /\ \E status \in {"Active", "Rejected", "Failed"} :
                      /\ proposals' = [proposals EXCEPT ![r.proposal].status = status]
                      /\ items' = IF status = "Active"
                                  THEN [items EXCEPT ![p.item].published = p.version,
                                                     ![p.item].updated = now']
                                  ELSE items
                /\ UNCHANGED <<drafts, versions, creates, nextDraft>>
       ELSE UNCHANGED storeVars

-----------------------------------------------------------------------------
(* Routes and tools that run to their end                                  *)

Counted == ops < MaxOps /\ ops' = ops + 1 /\ Tick /\ UNCHANGED requests
AtOnce == Counted /\ UNCHANGED walk

\* DELETE /package-drafts/{id}
DeleteDraft(d) ==
    /\ d \in DOMAIN drafts
    /\ Counted
    /\ drafts' = [e \in DOMAIN drafts \ {d} |-> drafts[e]]
    /\ walk' = IF walk = Absent \/ walk.of = "items" THEN walk
               ELSE [walk EXCEPT !.start = [e \in DOMAIN @ \ {d} |-> @[e]]]
    /\ UNCHANGED <<items, versions, proposals, awaitingByKey, creates, nextDraft>>

\* /validate and /preview-plan count as a write of the draft, the tools of
\* those names do not.
ValidateDraft(d, counts) ==
    /\ d \in DOMAIN drafts
    /\ AtOnce
    /\ Store(d, [drafts[d] EXCEPT !.updated = now', !.generation = @ + counts])
    /\ UNCHANGED <<items, versions, proposals, awaitingByKey, creates, nextDraft>>

\* honua_studio_create_draft: with an item, the draft takes the item's name.
ToolCreatesDraft(i) ==
    /\ AtOnce
    /\ \E d \in {IF i = Absent THEN nextDraft ELSE i} :
          /\ d <= MaxDrafts
          /\ Store(d, [item |-> d, generation |-> 1, body |-> ops', base |-> 0,
                       updated |-> now', command |-> Absent])
          /\ items' = Touched(d)
    /\ nextDraft' = IF i = Absent THEN nextDraft + 1 ELSE nextDraft
    /\ UNCHANGED <<versions, proposals, awaitingByKey, creates>>

\* honua_studio_update_draft and the composition's tools: the generation the
\* call states is the draft's, or nothing is written.
ToolUpdatesDraft(d) ==
    /\ d \in DOMAIN drafts
    /\ AtOnce
    /\ Store(d, [drafts[d] EXCEPT !.body = ops', !.generation = @ + 1, !.updated = now'])
    /\ items' = Touched(drafts[d].item)
    /\ UNCHANGED <<versions, proposals, awaitingByKey, creates, nextDraft>>

\* honua_studio_save_version
ToolSavesVersion(d) ==
    /\ d \in DOMAIN drafts
    /\ AtOnce
    /\ SaveStudioVersion(d, drafts[d])
    /\ UNCHANGED <<proposals, awaitingByKey, creates, nextDraft>>

\* reopenStudioVersion, of the route and of the tool
Reopen(v) ==
    /\ v \in 1 .. Len(versions)
    /\ nextDraft <= MaxDrafts
    /\ AtOnce
    /\ Store(nextDraft, [item |-> versions[v].item, generation |-> 1, body |-> versions[v].body,
                         base |-> v, updated |-> now', command |-> Absent])
    /\ nextDraft' = nextDraft + 1
    /\ UNCHANGED <<items, versions, proposals, awaitingByKey, creates>>

\* The proposal that awaits a decision on the same version by the same actor.
Standing(key) ==
    key \in DOMAIN awaitingByKey /\ proposals[awaitingByKey[key]].status = "AwaitingApproval"

\* honua_studio_propose_publication: of the current version only, and a
\* repeat is answered with the proposal that stands.
ProposePublication(i, actor) ==
    LET v == items[i].current
        key == <<i, v, actor>>
    IN  /\ i \in DOMAIN items
        /\ v # Absent
        /\ ~Standing(key)
        /\ AtOnce
        /\ proposals' = Append(proposals, [item |-> i, version |-> v, actor |-> actor,
                                           status |-> "AwaitingApproval"])
        /\ awaitingByKey' = Having(awaitingByKey, key, Len(proposals) + 1)
        /\ UNCHANGED <<drafts, items, versions, creates, nextDraft>>

-----------------------------------------------------------------------------
(* The lists: content items and drafts, the newest first                   *)

Rows(of) == IF of = "items" THEN items ELSE drafts

\* compareEnumerationOrder: by the time of the last change, then by number
Before(of, a, b) ==
    LET s == Rows(of)
    IN  s[a].updated > s[b].updated \/ (s[a].updated = s[b].updated /\ a > b)

Enumerated(of) == SetToSortSeq(DOMAIN Rows(of), LAMBDA a, b : Before(of, a, b))

\* Where the row at a cursor would stand now, or behind every row.
AfterCursor(c, of, a) ==
    \/ c = Absent
    \/ Rows(of)[a].updated < c.updated
    \/ Rows(of)[a].updated = c.updated /\ a < c.id

\* Mutated: the next page begins behind as many rows as have been answered.
PageByOffset(w) == SubSeq(Enumerated(w.of), Len(w.seen) + 1, Len(Enumerated(w.of)))
\* paginateEnumeration: the rows behind the cursor
Remaining(w) == SelectSeq(Enumerated(w.of), LAMBDA a : AfterCursor(w.cursor, w.of, a))

StartWalk(of) ==
    /\ walk = Absent
    /\ ops < MaxOps
    /\ ops' = ops + 1
    /\ walk' = [of |-> of, cursor |-> Absent, seen |-> <<>>,
                start |-> Rows(of), done |-> FALSE]
    /\ UNCHANGED <<storeVars, requests, now>>

\* A page, and the cursor of its last row when rows remain.
NextPage ==
    /\ walk # Absent /\ ~walk.done
    /\ LET rest == Remaining(walk)
           more == Len(rest) > PageSize
           page == IF more THEN SubSeq(rest, 1, PageSize) ELSE rest
       IN  walk' = [walk EXCEPT
               !.seen = @ \o page, !.done = ~more,
               !.cursor = IF more THEN [updated |-> Rows(walk.of)[Last(page)].updated,
                                        id |-> Last(page)]
                          ELSE @]
    /\ UNCHANGED <<storeVars, requests, now, ops>>

EndWalk ==
    /\ walk # Absent /\ walk.done
    /\ walk' = Absent
    /\ UNCHANGED <<storeVars, requests, now, ops>>

-----------------------------------------------------------------------------
\* Two drafts have been created, one after the other, and a version has been
\* saved of the first.
FixtureInit ==
    /\ drafts = <<[item |-> 1, generation |-> 2, body |-> 0, base |-> 0, updated |-> 2,
                   command |-> Absent],
                  [item |-> 2, generation |-> 1, body |-> 0, base |-> 0, updated |-> 1,
                   command |-> Absent]>>
    /\ items = <<[current |-> 1, published |-> Absent, updated |-> 2],
                 [current |-> Absent, published |-> Absent, updated |-> 1]>>
    /\ versions = <<[item |-> 1, number |-> 1, body |-> 0, draft |-> 1]>>
    /\ proposals = <<>> /\ awaitingByKey = <<>> /\ creates = <<>>
    /\ nextDraft = 3
    /\ requests = {}
    /\ now = 2
    /\ walk = Absent
    /\ ops = 0

FixtureNext ==
    \/ \E k \in Commands, x \in Inputs : CallCreate(k, x)
    \/ \E x \in Inputs : CallCreate(Absent, x)
    \/ \E d \in DOMAIN drafts, g \in {Absent} \cup (1 .. MaxOps + 2) : CallPut(d, g)
    \/ \E d \in DOMAIN drafts : CallSave(d)
    \/ \E i \in DOMAIN items, v \in 1 .. Len(versions) : CallPublish(i, v)
    \/ \E i \in DOMAIN items : CallRollback(i)
    \/ \E n \in 1 .. Len(proposals), a \in Actors : CallDecision(n, a)
    \/ \E r \in requests :
          Refuse(r) \/ Create(r) \/ Put(r) \/ SaveDraft(r) \/ Publish(r) \/ Rollback(r) \/ Decide(r)
    \/ \E d \in DOMAIN drafts :
          \/ DeleteDraft(d) \/ ToolUpdatesDraft(d) \/ ToolSavesVersion(d)
          \/ \E counts \in {0, 1} : ValidateDraft(d, counts)
    \/ \E i \in DOMAIN items \cup {Absent} : ToolCreatesDraft(i)
    \/ \E v \in 1 .. Len(versions) : Reopen(v)
    \/ \E i \in DOMAIN items, a \in Actors : ProposePublication(i, a)
    \/ \E of \in {"items", "drafts"} : StartWalk(of)
    \/ NextPage \/ EndWalk

FixtureSpec == FixtureInit /\ [][FixtureNext]_fixtureVars

-----------------------------------------------------------------------------
(* Properties                                                              *)

FixtureTypeOK ==
    /\ \A d \in DOMAIN drafts : drafts[d] \in Held
    /\ \A i \in DOMAIN items : items[i].updated \in 0 .. now
    /\ nextDraft \in 1 .. MaxDrafts + 1
    /\ DOMAIN creates \subseteq Commands

\* An item's versions are numbered in the order of their saving, whichever
\* of its drafts each was saved from (saveStudioVersion).
VersionsNumbered ==
    \A v \in 1 .. Len(versions) :
        versions[v].number = Cardinality({u \in VersionsOf(versions[v].item) : u <= v})

\* An item's pointers name versions of that item, after every publication,
\* rollback and decision, whatever the requests found when they were called.
PointersOwn ==
    \A i \in DOMAIN items, f \in {"current", "published"} :
        items[i][f] = Absent \/ items[i][f] \in VersionsOf(i)

\* A command makes one draft, however often it is sent and however late the
\* bodies of its requests arrive (the idempotency key of POST /package-drafts).
OneDraftPerCommand ==
    \A d, e \in DOMAIN drafts :
        drafts[d].command = drafts[e].command /\ drafts[d].command # Absent => d = e

\* One proposal of a version by an actor awaits a decision at a time, and a
\* repeat finds it.
OneAwaiting ==
    \A n \in 1 .. Len(proposals) :
        proposals[n].status = "AwaitingApproval" =>
            KeyOf(proposals[n]) \in DOMAIN awaitingByKey /\ awaitingByKey[KeyOf(proposals[n])] = n

\* A proposal is decided once, when two decisions on it are under way too
\* (the decision route: 409 after the first).
DecisionStands ==
    [][\A n \in 1 .. Len(proposals) :
          proposals[n].status # "AwaitingApproval" =>
              proposals'[n].status = proposals[n].status]_fixtureVars

\* A walk over the pages answers every row that has not changed meanwhile,
\* and no row twice (paginateEnumeration: the cursor is a place in the order).
WalkIsWhole ==
    (walk # Absent /\ walk.done) =>
        /\ \A m, n \in 1 .. Len(walk.seen) : walk.seen[m] = walk.seen[n] => m = n
        /\ \A a \in DOMAIN walk.start \cap DOMAIN Rows(walk.of) :
              Rows(walk.of)[a] = walk.start[a] => Contains(walk.seen, a)

\* The code's comment on the PUT route: an explicit generation that is not
\* the draft's is refused.
\* This does not hold: the generation is compared with the object that was
\* read before the body arrived.
StaleGenerationRefused ==
    [][\A r \in requests :
          (r.op = "put" /\ r.generation # Absent /\ r.draft \in DOMAIN drafts
             /\ r.generation # drafts[r.draft].generation)
          => ~(r.draft \in DOMAIN drafts' /\ drafts'[r.draft].body = r.n)]_fixtureVars

(***************************************************************************)
(* Its geoprocessing jobs, which share no state with the store:            *)
(* createGpJobStore and createGpJobRestRouter.  A job is a count of polls: *)
(* a status request advances it, and the request that makes it successful  *)
(* registers its outputs, those its draft declares by then, in the         *)
(* catalog.  Cancelling overrides whatever the count says, unless the job  *)
(* has ended.  A submission reads its body before it looks at its draft.   *)
(***************************************************************************)
CONSTANTS
    Drafts,     \* gp drafts
    Outputs,    \* output ids a draft may declare
    Result,     \* the output of a draft that declares none
    Gone,       \* what a deleted draft declares
    MaxSubmits, \* bound on submissions
    MaxAnswers  \* bound on status and cancel requests, and on edits

ASSUME OutputsAssumption == IsFiniteSet(Outputs)

VARIABLES
    declared,   \* draft -> the outputs it declares, or Gone
    validated,  \* the drafts that were validated or planned
    jobs,       \* the jobs in the order of their ids
    catalog,    \* the datasets registered, in order: job and output
    asks        \* requests and edits so far

jobVars == <<declared, validated, jobs, catalog, asks>>

Ended == {"successful", "failed", "dismissed"}

\* gpJobOutputsForDraft: a draft that declares none has one result, and so
\* has a draft that is gone.
DraftOutputs(d) == IF declared[d] \in {Gone, {}} THEN {Result} ELSE declared[d]

\* computeGpJobSnapshot: the status
JobStatus(job) ==
    CASE job.override -> "dismissed"
      [] ~job.override /\ job.polls >= 2 -> IF job.fails THEN "failed" ELSE "successful"
      [] ~job.override /\ job.polls = 1 -> "running"
      [] OTHER -> "accepted"

\* Mutated: every successful snapshot registers.
RegisterAgain(job) == TRUE
\* computeGpJobSnapshot registers once.
Unregistered(job) == job.registered = {}

(* What taking the snapshot of a job leaves behind.                        *)
TakeSnapshot(n, job) ==
    IF JobStatus(job) = "successful" /\ Unregistered(job)
    THEN /\ catalog' = catalog \o
                SetToSeq({[job |-> n, output |-> o] : o \in DraftOutputs(job.draft)})
         /\ jobs' = [jobs EXCEPT ![n] = [job EXCEPT !.registered = DraftOutputs(job.draft)]]
    ELSE /\ jobs' = [jobs EXCEPT ![n] = job]
         /\ UNCHANGED catalog

Ask == asks < MaxAnswers /\ asks' = asks + 1

JobsInit ==
    /\ declared \in [Drafts -> SUBSET Outputs]
    /\ validated = {}
    /\ jobs = << >>
    /\ catalog = << >>
    /\ asks = 0

\* POST /gp-jobs: the draft is there and somebody asked the server about it.
MaySubmit(d) == declared[d] # Gone /\ d \in validated

SubmitJob(d, fails) ==
    /\ Len(jobs) < MaxSubmits
    /\ MaySubmit(d)
    /\ jobs' = Append(jobs, [draft |-> d, polls |-> 0, fails |-> fails, registered |-> {},
                             override |-> FALSE])
    /\ UNCHANGED <<declared, validated, catalog, asks>>

\* GET /gp-jobs/id: the only thing that advances a job.
PollJob(n) ==
    /\ Ask
    /\ TakeSnapshot(n, [jobs[n] EXCEPT !.polls = IF jobs[n].override THEN @ ELSE @ + 1])
    /\ UNCHANGED <<declared, validated>>

\* Mutated: a job is dismissed whatever became of it.
DismissAnyway(job) == TRUE
\* POST /gp-jobs/id/cancel leaves a job that ended as it is.
MayDismiss(job) == JobStatus(job) \notin Ended

CancelJob(n) ==
    /\ Ask
    /\ jobs' = [jobs EXCEPT ![n].override = @ \/ MayDismiss(jobs[n])]
    /\ UNCHANGED <<declared, validated, catalog>>

\* validate or preview-plan of a draft
AskAboutDraft(d) ==
    /\ declared[d] # Gone
    /\ validated' = validated \cup {d}
    /\ UNCHANGED <<declared, jobs, catalog, asks>>

\* A PUT keeps the validation there was when it found the draft, before it
\* read its body; a DELETE removes the draft.
WriteDraft(d, outputs) ==
    /\ Ask
    /\ declared[d] # Gone
    /\ declared' = [declared EXCEPT ![d] = outputs]
    /\ validated' \in {validated, validated \ {d}}
    /\ UNCHANGED <<jobs, catalog>>

JobsNext ==
    \/ \E d \in Drafts, fails \in BOOLEAN : SubmitJob(d, fails)
    \/ \E n \in DOMAIN jobs : PollJob(n) \/ CancelJob(n)
    \/ \E d \in Drafts :
          AskAboutDraft(d) \/ \E o \in (SUBSET Outputs) \cup {Gone} : WriteDraft(d, o)

JobsSpec == JobsInit /\ [][JobsNext]_jobVars

-----------------------------------------------------------------------------
JobsTypeOK ==
    /\ validated \subseteq Drafts
    /\ \A n \in DOMAIN jobs : jobs[n].draft \in Drafts /\ jobs[n].polls \in Nat

\* The catalog holds each output of a successful job once, and nothing of a
\* job that failed or was dismissed: what a job's result names is what the
\* next map can be made of (computeGpJobSnapshot, "registers once").
CatalogHoldsResults ==
    \A n \in DOMAIN jobs :
        LET entries == {i \in DOMAIN catalog : catalog[i].job = n} IN
        /\ {catalog[i].output : i \in entries} = jobs[n].registered
        /\ Cardinality(entries) = Cardinality(jobs[n].registered)
        /\ jobs[n].registered # {} => JobStatus(jobs[n]) = "successful"

\* A job that ended keeps its end and its result, whoever cancels or polls
\* it later ("a terminal job returns that same snapshot and is never
\* overwritten with dismissed", mock-server.mjs:1813).
EndStands ==
    [][\A n \in DOMAIN jobs : JobStatus(jobs[n]) \in Ended =>
           /\ JobStatus(jobs'[n]) = JobStatus(jobs[n])
           /\ jobs[n].registered # {} => jobs'[n].registered = jobs[n].registered]_jobVars
=============================================================================
