---------------------------- MODULE HostSession ----------------------------
(***************************************************************************)
(* The human authority of one Studio element: the session adapter a host   *)
(* assigns (app/workspace-authority.ts, app/studio-workspace.ts), the      *)
(* AuthSession built from it (auth/host-session.ts, auth/oidc-session.ts), *)
(* the requests sent through it (client/studio-client.ts) and the source   *)
(* catalog it may read (app/source-catalog.ts).                            *)
(*                                                                         *)
(* A cookie session is a lease: the host replaces it by a newer one of the *)
(* same principal while reads and writes are in flight, and what reports   *)
(* the end of a lease (its timer, its host, a refused request) may arrive  *)
(* after it was replaced.                                                  *)
(***************************************************************************)
EXTENDS Naturals, FiniteSets

CONSTANTS
    Adapters,   \* session adapters a host may assign
    Kind,       \* "cookie" or "bearer", per adapter
    Principal,  \* who each adapter acts for
    LongLeases, \* leases that last longer than a timer can wait: 2147483647 ms
    Requests,   \* names of the requests a behaviour may send
    None,       \* no adapter: the standalone sign-in; also no request, no catalog
    MaxEvents   \* what hosts, users and failures may do: the bound of a run

ASSUME KindAssumption == Kind \in [Adapters -> {"cookie", "bearer"}]
ASSUME LongLeasesAssumption == LongLeases \subseteq Adapters
ASSUME NoneIsNoAdapter == None \notin Adapters

VARIABLES
    connected,    \* the element is in the document
    hostAdapter,  \* WorkspaceAuthority.#session
    authEpoch,    \* WorkspaceAuthority.epoch
    auth,         \* the current AuthSession object
    lastStatus,   \* StudioWorkspace.#lastAuthStatus
    past,         \* adapters whose expiresAt has passed
    refused,      \* adapters the host has ended
    fetches,      \* per request: where it stands, or None
    carriedOut,   \* per request: how often the server carried it out
    catalog,      \* SourceCatalog.#catalog, #requested
    listings,     \* listCatalog calls of #fetchOnce in flight
    catalogFailed,\* a listing of this authority failed
    sessionSpent  \* how much of MaxEvents is spent

sessionVars == <<connected, hostAdapter, authEpoch, auth, lastStatus, past, refused, fetches,
                 carriedOut, catalog, listings, catalogFailed, sessionSpent>>

Spend == sessionSpent < MaxEvents /\ sessionSpent' = sessionSpent + 1

-----------------------------------------------------------------------------
(* Data *)

Statuses == {"signed-out", "fresh", "refreshing", "expired"}

\* Mode and adapter of an AuthSession, the lease its expiry timer is armed for.
AuthObject ==
    [id : Nat, renewals : Nat, mode : {"none", "cookie", "bearer", "standalone"},
     adapter : Adapters \union {None}, status : Statuses, timer : Adapters \union {None}]

ModeOf(a) == IF a = None THEN "standalone" ELSE Kind[a]

Stages == {"token", "sent", "resent", "body", "done", "failed"}

\* One authenticatedFetch: the session object it was given, the lease it was
\* sent with, the answer that arrived, whether it was sent again after a 401.
Fetch ==
    [kind : {"read", "write"}, by : Nat, renewals : Nat, mode : {"cookie", "bearer", "standalone"},
     lease : Adapters \union {None}, stage : Stages, again : BOOLEAN,
     reply : {"none", "ok", "denied", "lost"}]

ASSUME NoneIsNoFetch == None \notin Fetch

\* A catalog is told apart by whom it was listed for.
Listing == {Principal[a] : a \in Adapters} \union {None, "standalone"}

Catalog == [shown : Listing, requested : BOOLEAN]

\* One listCatalog call: the object and epoch it was made in, whom it lists
\* for, and the catalog it is to replace.
ListingCall == [by : Nat, epoch : Nat, principal : Listing, previous : Listing]

\* The events of reduceAuthState, by the status they lead to.
ReduceAuthState(event) ==
    CASE event \in {"host-authenticated", "credential-issued", "token-rotated"} -> "fresh"
      [] event = "refresh-started" -> "refreshing"
      [] event = "refresh-failed" -> "expired"
      [] event = "signed-out" -> "signed-out"

\* A cookie session's getAccessToken and getState: an ended lease is never fresh.
CookieStatus(a, status) == IF status = "expired" \/ a \in past THEN "expired" ELSE "fresh"

\* isSameCookiePrincipal
RenewsLease(a, b) ==
    /\ a # None /\ b # None
    /\ Kind[a] = "cookie" /\ Kind[b] = "cookie"
    /\ Principal[a] = Principal[b]

PrincipalOf(a) == IF a = None THEN "standalone" ELSE Principal[a]

-----------------------------------------------------------------------------
(* The catalog *)

\* #fetchOnce: nothing while a fetch was asked for, nothing while signed out.
FetchOnce(c, object, epoch) ==
    IF c.requested \/ object.status \notin {"fresh", "refreshing"}
    THEN catalog' = c /\ listings' = listings
    ELSE /\ catalog' = [c EXCEPT !.requested = TRUE]
         /\ listings' = listings \union
              {[by |-> object.id, epoch |-> epoch, principal |-> PrincipalOf(object.adapter),
                previous |-> c.shown]}

\* refresh
RefreshCatalog(object, epoch) ==
    FetchOnce([shown |-> None, requested |-> FALSE], object, epoch)

\* The listener of the AuthSession: a status that became fresh loads a missing
\* catalog; a repeated status does nothing.
AuthBecomes(object) ==
    /\ auth' = object
    /\ lastStatus' = IF connected THEN object.status ELSE lastStatus
    /\ IF connected /\ object.status # lastStatus /\ object.status = "fresh" /\ catalog.shown = None
       THEN RefreshCatalog(object, authEpoch)
       ELSE UNCHANGED <<catalog, listings>>

\* Mutated: the principal a listing was asked for is not compared.
ListingAppliedAnyway(l) ==
    /\ l \in listings
    /\ listings' = listings \ {l}
    /\ catalog' = IF connected /\ catalog.shown = l.previous
                  THEN [catalog EXCEPT !.shown = l.principal]
                  ELSE catalog
    /\ UNCHANGED <<connected, hostAdapter, authEpoch, auth, lastStatus, past, refused, fetches,
                   carriedOut, catalogFailed, sessionSpent>>

\* A listing replaces what is shown only in the authority and the session
\* object it was asked for, and only if nothing else replaced it meanwhile.
ListingReturns(l) ==
    /\ l \in listings
    /\ listings' = listings \ {l}
    /\ catalog' = IF connected /\ authEpoch = l.epoch /\ auth.id = l.by
                     /\ catalog.shown = l.previous
                  THEN [catalog EXCEPT !.shown = l.principal]
                  ELSE catalog
    /\ UNCHANGED <<connected, hostAdapter, authEpoch, auth, lastStatus, past, refused, fetches,
                   carriedOut, catalogFailed, sessionSpent>>

\* An unreachable catalog is not fetched again.
ListingFails(l) ==
    /\ Spend
    /\ l \in listings
    /\ listings' = listings \ {l}
    /\ catalogFailed' = TRUE
    /\ UNCHANGED <<connected, hostAdapter, authEpoch, auth, lastStatus, past, refused, fetches,
                   carriedOut, catalog>>

-----------------------------------------------------------------------------
(* The host assigns a session; the element comes and goes *)

\* resetAuth: a cookie session knows at once whether it is fresh, a bearer or
\* standalone session only after its first token.
NewAuth(a) ==
    LET mode == ModeOf(a)
        status == IF mode = "cookie" THEN CookieStatus(a, "fresh") ELSE "signed-out"
    IN  [id |-> auth.id + 1, renewals |-> 0, mode |-> mode, adapter |-> a, status |-> status,
         timer |-> IF status = "fresh" THEN a ELSE None]

NoAuth == [auth EXCEPT !.mode = "none", !.adapter = None, !.status = "signed-out", !.timer = None]

\* renewCookie: the same object goes on with the next lease.
RenewedAuth(a) ==
    LET status == CookieStatus(a, "fresh")
    IN  [auth EXCEPT !.adapter = a, !.renewals = @ + 1, !.status = status,
                     !.timer = IF status = "fresh" THEN a ELSE None]

\* Another lease of the same principal: the catalog stays and is read again.
RenewSession(a) ==
    /\ Spend
    /\ a # hostAdapter /\ RenewsLease(hostAdapter, a)
    /\ connected /\ auth.mode = "cookie"
    /\ hostAdapter' = a
    /\ auth' = RenewedAuth(a)
    /\ lastStatus' = auth'.status
    /\ IF auth'.status = "fresh" /\ auth'.status # lastStatus /\ catalog.shown = None
       THEN RefreshCatalog(auth', authEpoch)
       ELSE FetchOnce([catalog EXCEPT !.requested = FALSE], auth', authEpoch)
    /\ UNCHANGED <<connected, authEpoch, past, refused, fetches, carriedOut,
                   catalogFailed>>

\* Any other session: what the former principal could read goes, if Studio had
\* an authority.  Out of the document the session object is gone, and only the
\* host's session or a bound draft says so; drafts are DraftSync's.
ReplaceSession(a, draftBound) ==
    LET hadAuthority == hostAdapter # None \/ auth.mode # "none" \/ draftBound IN
    /\ Spend
    /\ a # hostAdapter /\ ~RenewsLease(hostAdapter, a)
    /\ hostAdapter' = a
    /\ authEpoch' = authEpoch + 1
    /\ catalogFailed' = FALSE
    /\ IF connected
       THEN /\ auth' = NewAuth(a)
            /\ lastStatus' = auth'.status
            /\ RefreshCatalog(auth', authEpoch + 1)
       ELSE /\ auth' = NoAuth
            /\ catalog' = IF hadAuthority THEN [shown |-> None, requested |-> FALSE] ELSE catalog
            /\ UNCHANGED <<lastStatus, listings>>
    /\ UNCHANGED <<connected, past, refused, fetches, carriedOut>>

\* A renewed lease while the element is out of the document is kept for later.
AssignWhileAway(a) ==
    /\ Spend
    /\ a # hostAdapter /\ RenewsLease(hostAdapter, a)
    /\ ~connected
    /\ hostAdapter' = a
    /\ auth' = NoAuth
    /\ UNCHANGED <<connected, authEpoch, lastStatus, past, refused, fetches, carriedOut, catalog,
                   listings, catalogFailed>>

\* onConnect: resetAuth, then connectCanvas loads the catalog once.
Connect ==
    /\ ~connected
    /\ connected' = TRUE
    /\ auth' = NewAuth(hostAdapter)
    /\ lastStatus' = auth'.status
    /\ IF auth'.status = "fresh" /\ auth'.status # lastStatus /\ catalog.shown = None
       THEN RefreshCatalog(auth', authEpoch)
       ELSE IF catalog.shown = None THEN FetchOnce(catalog, auth', authEpoch)
                                    ELSE UNCHANGED <<catalog, listings>>
    /\ UNCHANGED <<hostAdapter, authEpoch, past, refused, fetches, carriedOut,
                   catalogFailed, sessionSpent>>

\* onDisconnect: disposeAuth.
Disconnect ==
    /\ Spend
    /\ connected
    /\ connected' = FALSE
    /\ auth' = NoAuth
    /\ UNCHANGED <<hostAdapter, authEpoch, lastStatus, past, refused, fetches, carriedOut, catalog,
                   listings, catalogFailed>>

-----------------------------------------------------------------------------
(* The end of a lease *)

\* Date.now() reaches the expiresAt of a lease.
LeaseLapses(a) ==
    /\ Spend
    /\ Kind[a] = "cookie" /\ a \notin past
    /\ past' = past \union {a}
    /\ UNCHANGED <<connected, hostAdapter, authEpoch, auth, lastStatus, refused, fetches,
                   carriedOut, catalog, listings, catalogFailed>>

\* The host ends a session; its requests are refused from then on.
HostEnds(a) ==
    /\ Spend
    /\ a \notin refused
    /\ refused' = refused \union {a}
    /\ UNCHANGED <<connected, hostAdapter, authEpoch, auth, lastStatus, past, fetches, carriedOut,
                   catalog, listings, catalogFailed>>

Expire ==
    /\ AuthBecomes([auth EXCEPT !.status = "expired", !.timer = None])
    /\ UNCHANGED <<connected, hostAdapter, authEpoch, past, refused, fetches, carriedOut,
                   catalogFailed, sessionSpent>>

\* The timer of getAccessToken; renewCookie clears it and arms the next one.  It
\* waits for expiresAt or as long as a timer can, and compares no date then.
TimerFires ==
    /\ auth.timer # None /\ auth.timer \in past \union LongLeases
    /\ auth.status # "expired"
    /\ Expire

\* Mutated: an event of a replaced lease counts.
ExpiredEventUnchecked(a) ==
    /\ a \in refused
    /\ auth.mode \in {"cookie", "bearer"} /\ auth.status # "expired"
    /\ Expire

\* onExpired, also called late: only the adapter the object now holds counts.
ExpiredEvent(a) ==
    /\ a \in refused
    /\ auth.mode \in {"cookie", "bearer"} /\ auth.status # "expired"
    /\ auth.adapter = a
    /\ Expire

-----------------------------------------------------------------------------
(* Requests *)

Put(q, f) == fetches' = [fetches EXCEPT ![q] = f]

\* The session object of the request is in use: it is neither replaced nor disposed.
Current(f) == auth.id = f.by /\ auth.mode # "none"

\* A request goes out with the lease the session holds now.
SentWith(f, stage) ==
    [f EXCEPT !.stage = stage, !.lease = auth.adapter, !.renewals = auth.renewals, !.reply = "none"]

\* Only the object's own state changes when the session is still the current
\* one; a former object has no listener.
Touch(f, event) ==
    IF Current(f)
    THEN LET status == ReduceAuthState(event)
         IN  AuthBecomes([auth EXCEPT !.status = status,
                                      !.timer = IF status = "fresh" THEN @ ELSE None])
    ELSE UNCHANGED <<auth, lastStatus, catalog, listings>>

\* fetchWithAuth before the fetch: a cookie session answers at once and refuses
\* an ended lease; others await a token.
Ask(q, f) ==
    IF f.mode # "cookie"
    THEN /\ Put(q, [f EXCEPT !.stage = "token", !.reply = "none"])
         /\ IF f.mode = "standalone" /\ f.again THEN Touch(f, "refresh-started")
            ELSE UNCHANGED <<auth, lastStatus, catalog, listings>>
    ELSE LET status == IF Current(f) THEN CookieStatus(auth.adapter, auth.status) ELSE "expired"
         IN /\ Put(q, IF status = "fresh"
                      THEN SentWith(f, "sent")
                      ELSE [f EXCEPT !.stage = "failed", !.reply = "none"])
            /\ Touch(f, IF status = "fresh" THEN "host-authenticated" ELSE "refresh-failed")

StartRequest(q, kind) ==
    /\ Spend
    /\ fetches[q] = None /\ connected
    /\ Ask(q, [kind |-> kind, by |-> auth.id, renewals |-> auth.renewals, mode |-> auth.mode,
               lease |-> auth.adapter,
               stage |-> "token", again |-> FALSE, reply |-> "none"])
    /\ UNCHANGED <<connected, hostAdapter, authEpoch, past, refused, carriedOut, catalogFailed>>

\* getToken, or the provider's getCredentials; without a token the request goes
\* out unauthenticated.
TokenArrives(q, token) ==
    LET f == fetches[q] IN
    /\ f # None /\ f.stage = "token"
    /\ Put(q, [f EXCEPT !.stage = "sent", !.lease = IF token THEN @ ELSE None])
    /\ IF token THEN Touch(f, "credential-issued")
       ELSE IF f.mode = "standalone" /\ auth.status = "signed-out"
            THEN UNCHANGED <<auth, lastStatus, catalog, listings>>
            ELSE Touch(f, "refresh-failed")
    /\ UNCHANGED <<connected, hostAdapter, authEpoch, past, refused, carriedOut,
                   catalogFailed, sessionSpent>>

\* signOut: the provider's signed-out event.
SignOut ==
    /\ Spend
    /\ auth.mode = "standalone" /\ auth.status \in {"fresh", "refreshing"}
    /\ AuthBecomes([auth EXCEPT !.status = "signed-out"])
    /\ UNCHANGED <<connected, hostAdapter, authEpoch, past, refused, fetches, carriedOut,
                   catalogFailed>>

\* handleRedirectCallback at the end of a standalone sign-in.
SignedIn(issued) ==
    /\ Spend
    /\ auth.mode = "standalone" /\ auth.status \in {"signed-out", "expired"}
    /\ AuthBecomes([auth EXCEPT !.status = IF issued THEN "fresh" ELSE "expired"])
    /\ UNCHANGED <<connected, hostAdapter, authEpoch, past, refused, fetches, carriedOut,
                   catalogFailed>>

Sent(f) == f # None /\ f.stage \in {"sent", "resent"} /\ f.reply = "none"

CarryOut(q, f) ==
    carriedOut' = IF f.kind = "write" THEN [carriedOut EXCEPT ![q] = @ + 1] ELSE carriedOut

\* The server accepts a lease until the host or its time ends it, and may
\* refuse one that was replaced.
Accepts(f) == (f.lease # None /\ f.lease \notin refused \union past) \/ f.mode = "standalone"
Refuses(f) == f.lease = None \/ f.lease \in refused \union past \/ f.lease # hostAdapter

ServerAnswers(q) ==
    LET f == fetches[q] IN
    /\ Sent(f)
    /\ \/ /\ Accepts(f)
          /\ CarryOut(q, f)
          /\ Put(q, [f EXCEPT !.reply = "ok"])
       \/ /\ Refuses(f)
          /\ Put(q, [f EXCEPT !.reply = "denied"])
          /\ UNCHANGED carriedOut
    /\ UNCHANGED <<connected, hostAdapter, authEpoch, auth, lastStatus, past, refused, catalog,
                   listings, catalogFailed, sessionSpent>>

\* The connection fails, before or after the server acted.
LoseAnswer(q) ==
    LET f == fetches[q] IN
    /\ Spend
    /\ Sent(f)
    /\ \/ UNCHANGED carriedOut
       \/ Accepts(f) /\ CarryOut(q, f)
    /\ Put(q, [f EXCEPT !.reply = "lost"])
    /\ UNCHANGED <<connected, hostAdapter, authEpoch, auth, lastStatus, past, refused, catalog,
                   listings, catalogFailed>>

\* authenticatedFetch after a 401: one more attempt with a forced refresh.
RetryOrFail(q, f) ==
    IF f.again
    THEN Put(q, [f EXCEPT !.stage = "failed"]) /\ UNCHANGED <<auth, lastStatus, catalog, listings>>
    ELSE Ask(q, [f EXCEPT !.again = TRUE])

\* The read crossed a renewal of its lease.
Crossed(f) == f.mode = "cookie" /\ Current(f) /\ auth.renewals # f.renewals

\* fetchRequest and authenticatedFetch after the answer.  A read that crossed a
\* renewal is sent once more with the new lease; a write never is.
Resend(q, f) ==
    IF CookieStatus(auth.adapter, auth.status) = "fresh"
    THEN Put(q, SentWith(f, "resent"))
    ELSE Put(q, [f EXCEPT !.stage = "failed"])

\* Mutated: writes are sent again like reads.
MustResendAll(f) == f.stage = "sent" /\ Crossed(f)

MustResend(f) == f.kind = "read" /\ f.stage = "sent" /\ Crossed(f)

\* A disposed session accepts no answer; a read that crossed a second renewal
\* is given up.
Rejected(f) ==
    \/ f.reply = "lost"
    \/ f.mode = "cookie" /\ ~Current(f)
    \/ f.kind = "read" /\ f.stage = "resent" /\ Crossed(f)

\* A refused request ends the lease it was sent with, if that is still held.
EndsLease(f) == f.mode = "cookie" /\ f.reply = "denied" /\ ~Crossed(f)

AnswerArrives(q) ==
    LET f == fetches[q] IN
    /\ f # None /\ f.stage \in {"sent", "resent"} /\ f.reply # "none"
    /\ \/ /\ Rejected(f)
          /\ Put(q, [f EXCEPT !.stage = "failed"])
          /\ UNCHANGED <<auth, lastStatus, catalog, listings>>
       \/ /\ ~Rejected(f) /\ MustResend(f)
          /\ Resend(q, f)
          /\ UNCHANGED <<auth, lastStatus, catalog, listings>>
       \/ /\ ~Rejected(f) /\ ~MustResend(f) /\ EndsLease(f)
          /\ Put(q, [f EXCEPT !.stage = "failed"])
          /\ Touch(f, "refresh-failed")
       \/ /\ ~Rejected(f) /\ ~MustResend(f) /\ ~EndsLease(f) /\ f.reply = "denied"
          /\ RetryOrFail(q, f)
       \/ /\ ~Rejected(f) /\ ~MustResend(f) /\ f.reply = "ok"
          /\ Put(q, [f EXCEPT !.stage = "body"])
          /\ UNCHANGED <<auth, lastStatus, catalog, listings>>
    /\ UNCHANGED <<connected, hostAdapter, authEpoch, past, refused, carriedOut,
                   catalogFailed, sessionSpent>>

\* The guarded body: a cookie session's answer is read while it is current and
\* fresh, other sessions' bodies are not guarded.
BodyRead(q) ==
    LET f == fetches[q]
        ended == f.mode = "cookie"
                 /\ (~Current(f) \/ CookieStatus(auth.adapter, auth.status) # "fresh")
    IN
    /\ f # None /\ f.stage = "body"
    /\ Put(q, [f EXCEPT !.stage = IF ended THEN "failed" ELSE "done"])
    /\ IF ended THEN Touch(f, "refresh-failed") ELSE UNCHANGED <<auth, lastStatus, catalog, listings>>
    /\ UNCHANGED <<connected, hostAdapter, authEpoch, past, refused, carriedOut,
                   catalogFailed, sessionSpent>>

-----------------------------------------------------------------------------
Init ==
    /\ connected = FALSE
    /\ hostAdapter \in Adapters \union {None}
    /\ authEpoch = 0
    /\ auth = [id |-> 0, renewals |-> 0, mode |-> "none", adapter |-> None,
               status |-> "signed-out", timer |-> None]
    /\ lastStatus = "signed-out"
    /\ past = {} /\ refused = {}
    /\ fetches = [q \in Requests |-> None]
    /\ carriedOut = [q \in Requests |-> 0]
    /\ catalog = [shown |-> None, requested |-> FALSE]
    /\ listings = {} /\ catalogFailed = FALSE
    /\ sessionSpent = 0

Host ==
    \/ \E a \in Adapters \union {None}, draftBound \in BOOLEAN : ReplaceSession(a, draftBound)
    \/ \E a \in Adapters : RenewSession(a) \/ AssignWhileAway(a)
    \/ \E a \in Adapters : LeaseLapses(a) \/ HostEnds(a)
    \/ Disconnect

Human ==
    \/ \E q \in Requests, kind \in {"read", "write"} : StartRequest(q, kind)
    \/ SignOut
    \/ \E issued \in BOOLEAN : SignedIn(issued)

\* What runs as soon as a promise settles or a timer is due.
Run ==
    \/ Connect
    \/ TimerFires
    \/ \E a \in Adapters : ExpiredEvent(a)
    \/ \E q \in Requests : AnswerArrives(q)
    \/ \E q \in Requests : BodyRead(q)

Network ==
    \/ \E q \in Requests, token \in BOOLEAN : TokenArrives(q, token)
    \/ \E q \in Requests : ServerAnswers(q)
    \/ \E q \in Requests : LoseAnswer(q)
    \/ \E l \in listings : ListingReturns(l)
    \/ \E l \in listings : ListingFails(l)

Next == Host \/ Human \/ Run \/ Network

Spec == Init /\ [][Next]_sessionVars

-----------------------------------------------------------------------------
TypeOK ==
    /\ connected \in BOOLEAN
    /\ hostAdapter \in Adapters \union {None}
    /\ authEpoch \in Nat
    /\ auth \in AuthObject
    /\ lastStatus \in Statuses
    /\ past \subseteq Adapters /\ refused \subseteq Adapters
    /\ fetches \in [Requests -> {None} \union Fetch]
    /\ carriedOut \in [Requests -> Nat]
    /\ catalog \in Catalog /\ listings \subseteq ListingCall
    /\ catalogFailed \in BOOLEAN /\ sessionSpent \in Nat

\* "A write is never replayed": whatever leases are renewed while it is out,
\* and although a refused request is tried once more, the server carries a
\* write out at most once.
WritesOnce == \A q \in Requests : carriedOut[q] <= 1

\* A renewed lease is not ended by what reports the end of the lease it
\* replaced: the session of one object turns expired only when its own lease
\* has lapsed, was ended by the host, or is one its timer cannot wait for.
OnlyOwnLeaseEnds ==
    [][ auth.mode = "cookie" /\ auth'.id = auth.id /\ auth'.mode = "cookie"
        /\ auth.status = "fresh" /\ auth'.status = "expired"
        => auth'.adapter \in past' \union refused' \union LongLeases ]_sessionVars

\* "Fresh until expiresAt": a lease ends only when it has lapsed or its host
\* ended it.  This does not hold: the timer of a lease of more than 24.8 days
\* ends it without looking at the date.
LeaseLastsItsTime ==
    [][ auth.mode = "cookie" /\ auth'.id = auth.id /\ auth'.mode = "cookie"
        /\ auth.status = "fresh" /\ auth'.status = "expired"
        => auth'.adapter \in past' \union refused' ]_sessionVars

\* The catalog on the map was listed for the host principal Studio now acts
\* for, or for the standalone sign-in: no host session sees another's.
CatalogIsOwn ==
    catalog.shown \in {None, "standalone", PrincipalOf(hostAdapter)}

\* A listing is put on the map for the principal Studio acts for at that moment,
\* however late a former principal's arrives (#fetchOnce).
ListingsShownAreOwn ==
    [][ catalog'.shown \notin {catalog.shown, None}
        => catalog'.shown = PrincipalOf(hostAdapter') ]_sessionVars

\* "Everything the former principal could see or edit goes, including cached
\* source metadata" (#revokeAuthority).  This does not hold: the catalog of a
\* standalone sign-in stays when a host assigns its session while the element is
\* out of the document and no draft is bound, and is on the map once it is back.
NoFormerCatalog ==
    connected => catalog.shown \in {None, PrincipalOf(hostAdapter)}

\* The catalog is "fetched once per connection": a connected, signed-in element
\* without one is fetching it, unless a fetch failed.
\* This does not hold: a sign-out and a sign-in while the listing is out ask
\* for no other, and the former one is dropped.
CatalogIsComing ==
    connected /\ auth.status = "fresh" /\ catalog.shown = None
    => catalogFailed \/ \E l \in listings : l.by = auth.id

=============================================================================
