--------------------------- MODULE ArtifactImports ---------------------------
(***************************************************************************)
(* Importing an artifact of a local run as a dataset (gp/artifact-import.ts *)
(* and importArtifact of gp/custom-process-workspace.ts).  The upload is   *)
(* one request whose answer may be lost after the server took it, so its   *)
(* identity is retained in local storage before it is sent, one reference  *)
(* per owner, environment and workspace.  Tabs share the storage: every    *)
(* step after an await compares what it captured with what is there now.   *)
(***************************************************************************)
EXTENDS Naturals, FiniteSets

CONSTANTS
    Tabs,        \* pages of the same origin
    Scopes,      \* owner, environment and workspace
    Artifacts,   \* artifacts of successful runs
    None,
    MaxUploads,  \* upload identities: a bound
    MaxTrouble   \* what users and failures may do: a bound

VARIABLES
    slot,     \* local storage: per scope the retained reference, or None
    uploads,  \* server: what became of each upload it took
    reserved, \* upload identities made so far
    page,     \* per tab: its scope, the request under way, what it shows
    trouble   \* how much of MaxTrouble is spent

importVars == <<slot, uploads, reserved, page, trouble>>

Try == trouble < MaxTrouble /\ trouble' = trouble + 1

-----------------------------------------------------------------------------
(* Data *)

\* RetainedImport: the job is known once the server answered the upload.
Reference == [upload : 1 .. MaxUploads, job : BOOLEAN, source : Artifacts]

\* ImportAuthority: the scope and the raw reference a request started from.
Authority == [scope : Scopes, raw : Reference \union {None}]

Idle == [stage |-> "idle", authority |-> None, source |-> None]

\* The server's side of an upload: an import job, or the import itself.
Outcomes == {"absent", "queued", "completed", "failed", "cancelled"}

Terminal == {"completed", "failed", "cancelled"}

Stages == {"idle", "reconcile", "download", "upload", "started", "finished", "status",
           "cancel"}

Statuses == {"none", "unknown", "pending", "completed", "failed", "cancelled"}

-----------------------------------------------------------------------------
(* ArtifactImportTracker *)

\* capture
Capture(t) == [scope |-> page[t].scope, raw |-> slot[page[t].scope]]

\* Mutated: only the scope is compared.
SameScope(t, a) == a.scope = page[t].scope

\* assertAuthority: neither the workspace nor the saved reference changed.
Holds(t, a) == a.scope = page[t].scope /\ a.raw = slot[a.scope]

\* #write
Keep(a, reference) == slot' = [slot EXCEPT ![a.scope] = reference]

To(t, stage) == page' = [page EXCEPT ![t].request.stage = stage]

Shows(t, status) ==
    page' = [page EXCEPT ![t].request = Idle, ![t].shown = status]

\* An error ends the request and leaves what is shown and saved.
Throws(t) == page' = [page EXCEPT ![t].request = Idle]

\* #status of a job the server answered about.
Observed(reference) ==
    IF uploads[reference.upload] = "queued" THEN "pending" ELSE uploads[reference.upload]

-----------------------------------------------------------------------------
(* importArtifact *)

\* Refused while the import shown is pending or unknown. The reference is
\* captured; without one the artifact is downloaded, and one without a job is
\* an upload nobody knows the outcome of.
Import(t, s) ==
    /\ Try
    /\ page[t].request = Idle
    /\ page[t].shown \notin {"pending", "unknown"}
    /\ LET a == Capture(t)
           request == [stage |-> "download", authority |-> a, source |-> s]
       IN  CASE a.raw = None -> page' = [page EXCEPT ![t].request = request]
             [] a.raw # None /\ ~a.raw.job -> Shows(t, "unknown")
             [] OTHER -> page' = [page EXCEPT ![t].request =
                                      [request EXCEPT !.stage = "reconcile"]]
    /\ UNCHANGED <<slot, uploads, reserved>>

\* reconcile: the saved job decides. Finished, and not this artifact's
\* dataset, it makes room.
Reconciled(t) ==
    LET q == page[t].request
        seen == Observed(q.authority.raw)
        same == q.authority.raw.source = q.source
    IN  /\ q.stage = "reconcile"
        /\ \/ /\ Holds(t, q.authority) => seen = "pending" /\ ~same
              /\ Throws(t)
           \/ /\ Holds(t, q.authority) /\ same /\ seen \in {"pending", "completed"}
              /\ Shows(t, seen)
           \/ /\ Holds(t, q.authority)
              /\ seen \in Terminal /\ (seen = "completed" => ~same)
              /\ To(t, "download")
        /\ UNCHANGED <<slot, uploads, reserved, trouble>>

\* The artifact is there and is what its receipt says: the upload's identity
\* is reserved, then it is sent.
Reserve(t) ==
    LET q == page[t].request
        reference == [upload |-> reserved + 1, job |-> FALSE, source |-> q.source]
    IN  /\ q.stage = "download"
        /\ IF Holds(t, q.authority)
           THEN /\ reserved < MaxUploads
                /\ reserved' = reserved + 1
                /\ Keep(q.authority, reference)
                /\ page' = [page EXCEPT ![t].request.stage = "upload",
                                        ![t].request.authority.raw = reference]
           ELSE Throws(t) /\ UNCHANGED <<slot, reserved>>
        /\ UNCHANGED <<uploads, trouble>>

\* POST admin/import/upload: a job, an import at once, or a refusal.
TakeUpload(t, outcome) ==
    LET q == page[t].request IN
    /\ q.stage = "upload"
    /\ outcome \in {"queued", "completed", "failed"}
    /\ uploads' = [uploads EXCEPT ![q.authority.raw.upload] = outcome]
    /\ To(t, IF outcome = "queued" THEN "started" ELSE "finished")
    /\ UNCHANGED <<slot, reserved, trouble>>

\* uncertainUpload: the answer is an error, or lost.
Uncertain(t) ==
    LET q == page[t].request IN
    /\ Try
    /\ q.stage \in {"upload", "started", "finished"}
    /\ IF Holds(t, q.authority) THEN Shows(t, "unknown") ELSE Throws(t)
    /\ UNCHANGED <<slot, uploads, reserved>>

\* start: the job is saved.
Started(t) ==
    LET q == page[t].request IN
    /\ q.stage = "started"
    /\ IF Holds(t, q.authority)
       THEN Keep(q.authority, [q.authority.raw EXCEPT !.job = TRUE]) /\ Shows(t, "pending")
       ELSE Throws(t) /\ UNCHANGED slot
    /\ UNCHANGED <<uploads, reserved, trouble>>

\* completeSynchronous
Completed(t) ==
    LET q == page[t].request IN
    /\ q.stage = "finished"
    /\ IF Holds(t, q.authority)
       THEN Keep(q.authority, None) /\ Shows(t, uploads[q.authority.raw.upload])
       ELSE Throws(t) /\ UNCHANGED slot
    /\ UNCHANGED <<uploads, reserved, trouble>>

-----------------------------------------------------------------------------
(* resume, cancel *)

\* Resume, the poll of a pending import, and cancel of one.
Resume(t, kind) ==
    LET a == Capture(t) IN
    /\ Try
    /\ page[t].request = Idle
    /\ kind = "cancel" => page[t].shown = "pending"
    /\ CASE a.raw = None -> UNCHANGED page
         [] a.raw # None /\ ~a.raw.job -> Shows(t, "unknown")
         [] OTHER -> page' = [page EXCEPT ![t].request =
                                  [stage |-> kind, authority |-> a, source |-> a.raw.source]]
    /\ UNCHANGED <<slot, uploads, reserved>>

\* The server cancels a job that has not finished; its status follows.
CancelJob(t) ==
    LET q == page[t].request
        u == q.authority.raw.upload
    IN  /\ q.stage = "cancel"
        /\ uploads' = IF uploads[u] = "queued" THEN [uploads EXCEPT ![u] = "cancelled"]
                      ELSE uploads
        /\ IF Holds(t, q.authority) THEN To(t, "status") ELSE Throws(t)
        /\ UNCHANGED <<slot, reserved, trouble>>

StatusRead(t) ==
    LET q == page[t].request IN
    /\ q.stage = "status"
    /\ IF Holds(t, q.authority) THEN Shows(t, Observed(q.authority.raw)) ELSE Throws(t)
    /\ UNCHANGED <<slot, uploads, reserved, trouble>>

-----------------------------------------------------------------------------
(* What happens beside them *)

\* Another read of the server fails.
Fail(t) ==
    /\ Try
    /\ page[t].request.stage \in {"reconcile", "download", "status", "cancel"}
    /\ Throws(t)
    /\ UNCHANGED <<slot, uploads, reserved>>

\* The server finishes a job.
FinishJob(u, outcome) ==
    /\ Try
    /\ uploads[u] = "queued" /\ outcome \in {"completed", "failed"}
    /\ uploads' = [uploads EXCEPT ![u] = outcome]
    /\ UNCHANGED <<slot, reserved, page>>

\* The tab turns to another workspace or owner; a request goes on.
SwitchScope(t, c) ==
    /\ Try
    /\ c # page[t].scope
    /\ page' = [page EXCEPT ![t].scope = c]
    /\ UNCHANGED <<slot, uploads, reserved>>

\* The page is reloaded, or its client replaced. The upload may still arrive.
Reload(t) ==
    LET q == page[t].request IN
    /\ Try
    /\ page' = [page EXCEPT ![t].request = Idle, ![t].shown = "none"]
    /\ \/ q.stage = "upload" /\ uploads' = [uploads EXCEPT ![q.authority.raw.upload] = "queued"]
       \/ UNCHANGED uploads
    /\ UNCHANGED <<slot, reserved>>

-----------------------------------------------------------------------------
ImportInit ==
    /\ slot = [c \in Scopes |-> None]
    /\ uploads = [u \in 1 .. MaxUploads |-> "absent"]
    /\ reserved = 0
    /\ \E c \in Scopes : page = [t \in Tabs |-> [scope |-> c, request |-> Idle, shown |-> "none"]]
    /\ trouble = 0

ImportNext ==
    \/ \E t \in Tabs :
          \/ Reconciled(t) \/ Reserve(t) \/ Uncertain(t) \/ Started(t) \/ Completed(t)
          \/ CancelJob(t) \/ StatusRead(t) \/ Fail(t) \/ Reload(t)
          \/ \E s \in Artifacts : Import(t, s)
          \/ \E outcome \in Outcomes : TakeUpload(t, outcome)
          \/ \E kind \in {"status", "cancel"} : Resume(t, kind)
          \/ \E c \in Scopes : SwitchScope(t, c)
    \/ \E u \in 1 .. reserved, outcome \in Outcomes : FinishJob(u, outcome)

ImportSpec == ImportInit /\ [][ImportNext]_importVars

-----------------------------------------------------------------------------
(* Properties *)

ImportTypeOK ==
    /\ slot \in [Scopes -> Reference \union {None}]
    /\ uploads \in [1 .. MaxUploads -> Outcomes]
    /\ reserved \in 0 .. MaxUploads
    /\ page \in [Tabs -> [scope : Scopes, shown : Statuses,
                          request : [stage : Stages, authority : Authority \union {None},
                                     source : Artifacts \union {None}]]]
    /\ trouble \in 0 .. MaxTrouble

\* An import the server is still carrying out is retained in a workspace's
\* storage, whatever the tabs do, where the workspace turns to and which
\* answers are lost: it can be resumed, and no second upload takes its place
\* (artifact-import.ts, assertAuthority around every await).
OpenUploadIsRetained ==
    \A u \in 1 .. reserved :
        uploads[u] = "queued" => \E c \in Scopes : slot[c] # None /\ slot[c].upload = u
=============================================================================
