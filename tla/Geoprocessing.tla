---------------------------- MODULE Geoprocessing ----------------------------
(***************************************************************************)
(* Geoprocessing packages: the agent authors a draft through                *)
(* gp/gp-authoring-session.ts, a human previews and executes it in          *)
(* elements/studio-gp-panel-element.ts, and gp/job-client.ts submits and    *)
(* observes the batch job (mock-server.mjs keeps drafts and jobs).          *)
(*                                                                         *)
(* Only the panel's loads carry a token: the answers of its other requests  *)
(* arrive whenever they do, the draft it shows may be another by then.      *)
(***************************************************************************)
EXTENDS Naturals, Sequences, FiniteSets

CONSTANTS
    Packages,  \* drafts of the gp family; a draft also stands for its key
    Authored,  \* the draft the session authors
    Members,   \* ids of inputs, parameters and outputs
    None,
    MaxGen,    \* generations of a draft: a bound
    MaxGpActs  \* what the agent, the human and failures may do: a bound

VARIABLES
    packages, \* server: generation, members and validation of each draft
    jobs,     \* server: the jobs submitted
    author,   \* GpAuthoringSession: #draft's generation, #body
    gpPanel,  \* the panel: its draft-id, #draft, #preview, #job and dialog
    jobRefs,  \* session storage: the job of each draft
    asked,    \* requests under way
    gpActs    \* how much of MaxGpActs is spent

gpVars == <<packages, jobs, author, gpPanel, jobRefs, asked, gpActs>>

Act == gpActs < MaxGpActs /\ gpActs' = gpActs + 1

-----------------------------------------------------------------------------
(* Data *)

Closed == [open |-> FALSE, typed |-> None, submitting |-> FALSE]

Request(kind, step, draft) ==
    [kind |-> kind, step |-> step, draft |-> draft, n |-> gpActs', token |-> gpPanel.token,
     generation |-> 0, body |-> {}, job |-> 0, status |-> None]

Ask(q) == asked' = asked \union {q}
Answered(q) == asked' = asked \ {q}
Turns(q, r) == asked' = (asked \ {q}) \union {r}

\* Two requests begun by one act differ in what they ask.
Waiting(kind, step) == {q \in asked : q.kind = kind /\ q.step = step}

-----------------------------------------------------------------------------
(* The server *)

\* The draft's next generation, not validated yet.
Edited(d, body) ==
    packages' = [packages EXCEPT ![d] = [generation |-> @.generation + 1, body |-> body,
                                         validated |-> FALSE]]

\* computeGpJobSnapshot: a job advances when it is polled.
StatusOf(j) ==
    CASE j.dismissed -> "dismissed"
      [] ~j.dismissed /\ j.polls = 0 -> "accepted"
      [] ~j.dismissed /\ j.polls = 1 -> "running"
      [] OTHER -> IF j.fails THEN "failed" ELSE "successful"

\* GET gp-jobs/:id, which registers the outputs of a successful job.
Polled(j) ==
    LET next == [j EXCEPT !.polls = IF (j.dismissed \/ @ = 2) THEN @ ELSE @ + 1]
    IN  [next EXCEPT !.registered = @ \/ StatusOf(next) = "successful"]

\* POST gp-jobs/:id/cancel: a job that reached a terminal state keeps it.
Cancelled(j) ==
    IF StatusOf(j) \in {"successful", "failed", "dismissed"} THEN j
    ELSE [j EXCEPT !.dismissed = TRUE]

-----------------------------------------------------------------------------
(* GpAuthoringSession *)

\* Mutated: the body is the session's before the server has it.
KeptAtOnce(body) == author' = [author EXCEPT !.body = body]

\* #mutate: draft and body are replaced with the answer.
KeptWithAnswer(body) == UNCHANGED author

\* An id is added once.
Fresh(m) == m \notin author.body

\* addInput, addParameter, addOutput.
AddMember(m) ==
    LET body == author.body \union {m} IN
    /\ Act
    /\ Fresh(m)
    /\ Ask([Request("mutate", "put", Authored) EXCEPT !.generation = author.generation,
                                                     !.body = body])
    /\ KeptWithAnswer(body)
    /\ UNCHANGED <<packages, jobs, gpPanel, jobRefs>>

\* honua_studio_update_draft compares the generation.
ServeUpdate(q) ==
    LET d == q.draft IN
    /\ q \in Waiting("mutate", "put")
    /\ IF q.generation = packages[d].generation /\ packages[d].generation < MaxGen
       THEN /\ Edited(d, q.body)
            /\ Turns(q, [q EXCEPT !.step = "answer", !.generation = @ + 1])
       ELSE Answered(q) /\ UNCHANGED packages
    /\ UNCHANGED <<jobs, author, gpPanel, jobRefs, gpActs>>

Updated(q) ==
    /\ q \in Waiting("mutate", "answer")
    /\ author' = [generation |-> q.generation, body |-> q.body]
    /\ Answered(q)
    /\ UNCHANGED <<packages, jobs, gpPanel, jobRefs, gpActs>>

\* Somebody else writes the draft.
EditElsewhere(m) ==
    /\ Act
    /\ packages[Authored].generation < MaxGen
    /\ Edited(Authored, packages[Authored].body \ {m})
    /\ UNCHANGED <<jobs, author, gpPanel, jobRefs, asked>>

-----------------------------------------------------------------------------
(* The panel's draft *)

\* #load asks for the draft under a new token.
LoadRequest(d, token) == [Request("load", "get", d) EXCEPT !.token = token]

\* draft-id: preview, job and dialog go; the draft stays until the load.
OpenDraft(d) ==
    LET token == gpPanel.token + 1 IN
    /\ Act
    /\ d # gpPanel.id
    /\ gpPanel' = [gpPanel EXCEPT !.id = d, !.token = token, !.preview = None, !.job = 0,
                                  !.status = None, !.dialog.open = FALSE, !.dialog.typed = None]
    /\ Ask(LoadRequest(d, token))
    /\ UNCHANGED <<packages, jobs, author, jobRefs>>

\* auth, client: the same draft is loaded again.
ReplaceSession ==
    LET token == gpPanel.token + 1 IN
    /\ Act
    /\ gpPanel.id # None
    /\ gpPanel' = [gpPanel EXCEPT !.token = token]
    /\ Ask(LoadRequest(gpPanel.id, token))
    /\ UNCHANGED <<packages, jobs, author, jobRefs>>

\* The load in force shows its draft and resumes its job with one poll.
Loaded(q) ==
    /\ q \in Waiting("load", "get")
    /\ IF q.token = gpPanel.token
       THEN /\ gpPanel' = [gpPanel EXCEPT !.draft = q.draft]
            /\ IF jobRefs[q.draft] # 0
               THEN Turns(q, [q EXCEPT !.kind = "status", !.job = jobRefs[q.draft]])
               ELSE Answered(q)
       ELSE Answered(q) /\ UNCHANGED gpPanel
    /\ UNCHANGED <<packages, jobs, author, jobRefs, gpActs>>

\* validateDraft, previewPlan: the server validates; then the draft shown by
\* now is read again.
Check(kind) ==
    /\ Act
    /\ gpPanel.draft # None
    /\ Ask(Request(kind, "check", gpPanel.draft))
    /\ UNCHANGED <<packages, jobs, author, gpPanel, jobRefs>>

Checked(q) ==
    /\ q \in Waiting("validate", "check") \union Waiting("preview", "check")
    /\ packages' = [packages EXCEPT ![q.draft].validated = TRUE]
    /\ gpPanel' = IF q.kind = "preview" THEN [gpPanel EXCEPT !.preview = q.draft] ELSE gpPanel
    /\ Turns(q, [q EXCEPT !.step = "reread", !.draft = gpPanel.draft])
    /\ UNCHANGED <<jobs, author, jobRefs, gpActs>>

Reread(q) ==
    /\ q \in Waiting("validate", "reread") \union Waiting("preview", "reread")
    /\ gpPanel' = [gpPanel EXCEPT !.draft = q.draft]
    /\ Answered(q)
    /\ UNCHANGED <<packages, jobs, author, jobRefs, gpActs>>

-----------------------------------------------------------------------------
(* The human gate *)

\* #openExecuteConfirm: a plan must have been fetched.
OpenConfirm ==
    /\ Act
    /\ gpPanel.draft # None /\ gpPanel.preview # None
    /\ gpPanel' = [gpPanel EXCEPT !.dialog.open = TRUE, !.dialog.typed = None]
    /\ UNCHANGED <<packages, jobs, author, jobRefs, asked>>

\* The input and the cancel button of the dialog.
TypeKey(d) ==
    /\ gpPanel.dialog.open /\ d # gpPanel.dialog.typed
    /\ gpPanel.draft = d
    /\ gpPanel' = [gpPanel EXCEPT !.dialog.typed = d]
    /\ UNCHANGED <<packages, jobs, author, jobRefs, asked, gpActs>>

CancelConfirm ==
    /\ Act
    /\ gpPanel.dialog.open
    /\ gpPanel' = [gpPanel EXCEPT !.dialog.open = FALSE, !.dialog.typed = None]
    /\ UNCHANGED <<packages, jobs, author, jobRefs, asked>>

\* #submitExecute, by the button that is enabled once the key matches.
SubmitExecute ==
    /\ Act
    /\ gpPanel.draft # None /\ gpPanel.dialog.open
    /\ gpPanel.dialog.typed = gpPanel.draft /\ ~gpPanel.dialog.submitting
    /\ gpPanel' = [gpPanel EXCEPT !.dialog.submitting = TRUE]
    /\ Ask(Request("submit", "post", gpPanel.draft))
    /\ UNCHANGED <<packages, jobs, author, jobRefs>>

\* POST gp-jobs: refused for a draft that is not validated.
ServeSubmit(q, fails) ==
    /\ q \in Waiting("submit", "post")
    /\ packages[q.draft].validated
    /\ jobs' = Append(jobs, [draft |-> q.draft, polls |-> 0, fails |-> fails, dismissed |-> FALSE,
                             registered |-> FALSE])
    /\ Turns(q, [q EXCEPT !.step = "answer", !.job = Len(jobs')])
    /\ UNCHANGED <<packages, author, gpPanel, jobRefs, gpActs>>

\* The job is shown and kept; the dialog that is open now is closed.
Submitted(q) ==
    /\ q \in Waiting("submit", "answer")
    /\ gpPanel' = [gpPanel EXCEPT !.job = q.job, !.status = "accepted", !.dialog = Closed]
    /\ jobRefs' = [jobRefs EXCEPT ![q.draft] = q.job]
    /\ Answered(q)
    /\ UNCHANGED <<packages, jobs, author, gpActs>>

RefuseSubmit(q) ==
    /\ q \in Waiting("submit", "post")
    /\ ~packages[q.draft].validated
    /\ gpPanel' = [gpPanel EXCEPT !.dialog.submitting = FALSE]
    /\ Answered(q)
    /\ UNCHANGED <<packages, jobs, author, jobRefs, gpActs>>

\* checkStatus, cancelJob: offered while the job shown has not ended.
AskJob(kind) ==
    /\ Act
    /\ gpPanel.job # 0 /\ gpPanel.status \in {"accepted", "running"}
    /\ Ask([Request(kind, "get", gpPanel.draft) EXCEPT !.job = gpPanel.job])
    /\ UNCHANGED <<packages, jobs, author, gpPanel, jobRefs>>

ServeJob(q) ==
    LET j == IF q.kind = "status" THEN Polled(jobs[q.job]) ELSE Cancelled(jobs[q.job]) IN
    /\ q \in Waiting("status", "get") \union Waiting("cancel", "get")
    /\ jobs' = [jobs EXCEPT ![q.job] = j]
    /\ Turns(q, [q EXCEPT !.step = "answer", !.status = StatusOf(j)])
    /\ UNCHANGED <<packages, author, gpPanel, jobRefs, gpActs>>

JobAnswered(q) ==
    /\ q \in Waiting("status", "answer") \union Waiting("cancel", "answer")
    /\ gpPanel' = [gpPanel EXCEPT !.job = q.job, !.status = q.status]
    /\ Answered(q)
    /\ UNCHANGED <<packages, jobs, author, jobRefs, gpActs>>

\* A request fails, or its answer is lost after the server did its part.
Fail(q) ==
    /\ Act
    /\ q \in asked
    /\ gpPanel' = IF q.kind = "submit" THEN [gpPanel EXCEPT !.dialog.submitting = FALSE]
                  ELSE gpPanel
    /\ Answered(q)
    /\ UNCHANGED <<packages, jobs, author, jobRefs>>

-----------------------------------------------------------------------------
GpInit ==
    /\ packages = [d \in Packages |-> [generation |-> 1, body |-> {}, validated |-> FALSE]]
    /\ jobs = <<>>
    /\ author = [generation |-> 1, body |-> {}]
    /\ gpPanel = [id |-> None, draft |-> None, token |-> 0, preview |-> None, job |-> 0,
                  status |-> None, dialog |-> Closed]
    /\ jobRefs = [d \in Packages |-> 0]
    /\ asked = {} /\ gpActs = 0

GpNext ==
    \/ \E m \in Members : AddMember(m) \/ EditElsewhere(m)
    \/ \E d \in Packages : OpenDraft(d) \/ TypeKey(d)
    \/ \E kind \in {"validate", "preview"} : Check(kind)
    \/ \E kind \in {"status", "cancel"} : AskJob(kind)
    \/ ReplaceSession \/ OpenConfirm \/ CancelConfirm \/ SubmitExecute
    \/ \E q \in asked :
          \/ ServeUpdate(q) \/ Updated(q) \/ Loaded(q) \/ Checked(q) \/ Reread(q)
          \/ Submitted(q) \/ RefuseSubmit(q) \/ ServeJob(q) \/ JobAnswered(q) \/ Fail(q)
          \/ \E fails \in BOOLEAN : ServeSubmit(q, fails)

GpSpec == GpInit /\ [][GpNext]_gpVars

-----------------------------------------------------------------------------
(* Properties *)

GpTypeOK ==
    /\ packages \in [Packages -> [generation : 1 .. MaxGen, body : SUBSET Members,
                                  validated : BOOLEAN]]
    /\ jobs \in Seq([draft : Packages, polls : 0 .. 2, fails : BOOLEAN, dismissed : BOOLEAN,
                     registered : BOOLEAN])
    /\ author \in [generation : 1 .. MaxGen, body : SUBSET Members]
    /\ gpPanel.draft \in Packages \union {None} /\ gpPanel.preview \in Packages \union {None}
    /\ gpPanel.job \in 0 .. Len(jobs)
    /\ jobRefs \in [Packages -> 0 .. Len(jobs)]
    /\ gpActs \in 0 .. MaxGpActs

\* The body a session goes on from is what the server holds at the generation
\* the session sends, however its calls overlap, fail or lose their answers: an
\* accepted update never drops a member the server had
\* (gp-authoring-session.ts, #mutate).
SessionBodyIsServers ==
    packages[Authored].generation = author.generation => packages[Authored].body = author.body

\* "dry-run/preview-plan is mandatory before first execution": what the human
\* submits is the draft whose plan is shown (studio-gp-panel-element.ts:23).
\* This does not hold: a plan asked for one draft may be answered when another is shown.
ExecutedIsPreviewed ==
    [][gpPanel'.dialog.submitting /\ ~gpPanel.dialog.submitting
           => gpPanel.preview = gpPanel.draft]_gpVars
=============================================================================
