--------------------------- MODULE SurfacesProofs ---------------------------
(***************************************************************************)
(* What holds of the components of MCWorkspaceSurfaces for every value of  *)
(* their constants: each has an inductive invariant of its own, proved     *)
(* over its own specification, and SurfacesSpec is a behaviour of all of   *)
(* them, in which one moves.  RemoteWorkProofs has those that submit work. *)
(***************************************************************************)
EXTENDS RemoteWorkProofs

(***************************************************************************)
(* HostSession: types, a write carried out at most once, a catalog that is *)
(* the principal's, and a lease that only its own end ends.                *)
(*                                                                         *)
(* A request that may still be sent again has not been carried out, unless *)
(* it is a read.  A listing of the current epoch was made for the current  *)
(* principal, because only a lease of the same principal leaves the epoch  *)
(* as it is.  And a request that crossed no renewal was sent with the lease*)
(* the session holds: if it was refused, that lease has ended.             *)
(***************************************************************************)
\* A request the server may still receive, or was only ever a read.
MaySend(f) ==
    \/ f = None
    \/ f # None /\ f.kind = "read"
    \/ f # None /\ f.stage = "token"
    \/ f # None /\ f.stage \in {"sent", "resent"} /\ f.reply \in {"none", "denied"}

CarriedOutOnce ==
    \A q \in Requests : carriedOut[q] <= 1 /\ (MaySend(fetches[q]) => carriedOut[q] = 0)

\* The session object of a connected element acts for the adapter its host
\* assigned; a timer is armed for the lease in use.
SessionFollowsHost ==
    /\ connected => auth.adapter = hostAdapter /\ auth.mode = ModeOf(hostAdapter)
    /\ ~connected => auth.mode = "none"
    /\ auth.timer # None => auth.timer = auth.adapter

ListingsAreOwn ==
    \A l \in listings :
        /\ l.epoch <= authEpoch
        /\ l.epoch = authEpoch => l.principal = PrincipalOf(hostAdapter)

\* What a request knows of the session object it was given.
Held(f) ==
    /\ f.by <= auth.id
    /\ f.mode = "cookie" => f.stage # "token"
    /\ Current(f) /\ auth.mode = "cookie" => f.mode = "cookie" /\ f.renewals <= auth.renewals
    /\ Current(f) /\ auth.mode = "cookie" /\ f.renewals = auth.renewals
       => /\ f.lease = auth.adapter
          /\ f.reply = "denied" => f.lease \in refused \union past

LeasesAreKnown == \A q \in Requests : fetches[q] # None => Held(fetches[q])

IInv ==
    /\ TypeOK
    /\ CarriedOutOnce
    /\ SessionFollowsHost
    /\ CatalogIsOwn
    /\ ListingsAreOwn
    /\ LeasesAreKnown

-----------------------------------------------------------------------------
(* What the helpers of the actions may change *)

\* The listing FetchOnce starts is of the given epoch and object; nothing else
\* about the catalog changes.
LEMMA FetchOnceEffect ==
  ASSUME NEW c \in Catalog, NEW object \in AuthObject, NEW epoch \in Nat,
         listings \subseteq ListingCall, FetchOnce(c, object, epoch)
  PROVE  /\ catalog' \in Catalog /\ catalog'.shown = c.shown
         /\ listings' \subseteq ListingCall
         /\ \A l \in listings' :
              l \in listings \/ (l.epoch = epoch /\ l.principal = PrincipalOf(object.adapter))
<1>1. PrincipalOf(object.adapter) \in Listing
  BY DEF PrincipalOf, Listing, AuthObject
<1>2. CASE c.requested \/ object.status \notin {"fresh", "refreshing"}
  BY <1>2 DEF FetchOnce
<1>3. CASE ~(c.requested \/ object.status \notin {"fresh", "refreshing"})
  <2> DEFINE l == [by |-> object.id, epoch |-> epoch, principal |-> PrincipalOf(object.adapter),
                   previous |-> c.shown]
  <2>1. catalog' = [c EXCEPT !.requested = TRUE] /\ listings' = listings \union {l}
    BY <1>3 DEF FetchOnce
  <2>2. l \in ListingCall /\ l.epoch = epoch /\ l.principal = PrincipalOf(object.adapter)
    BY <1>1 DEF ListingCall, AuthObject, Catalog
  <2>3. catalog' \in Catalog /\ catalog'.shown = c.shown
    BY <2>1 DEF Catalog
  <2> HIDE DEF l
  <2> QED BY <2>1, <2>2, <2>3
<1> QED BY <1>2, <1>3

\* What a request, a timer or an event may change of the session: its status.
\* The same object goes on under the same lease.
Reports ==
    /\ auth' \in AuthObject
    /\ auth'.id = auth.id /\ auth'.renewals = auth.renewals
    /\ auth'.mode = auth.mode /\ auth'.adapter = auth.adapter
    /\ auth'.timer \in {auth.timer, None}
    /\ lastStatus' \in Statuses
    /\ catalog' \in Catalog /\ catalog'.shown \in {catalog.shown, None}
    /\ listings' \subseteq ListingCall
    /\ \A l \in listings' :
         \/ l \in listings
         \/ connected /\ l.epoch = authEpoch /\ l.principal = PrincipalOf(auth.adapter)

\* Turning the session's status reports it.
LEMMA AuthBecomesReports ==
  ASSUME TypeOK, NEW status \in Statuses, NEW timer \in {auth.timer, None},
         AuthBecomes([auth EXCEPT !.status = status, !.timer = timer])
  PROVE  Reports /\ auth'.status = status
<1> DEFINE object == [auth EXCEPT !.status = status, !.timer = timer]
<1>1. object \in AuthObject /\ object.status = status /\ object.id = auth.id
      /\ object.renewals = auth.renewals /\ object.mode = auth.mode
      /\ object.adapter = auth.adapter /\ object.timer = timer
  BY DEF TypeOK, AuthObject
<1>2. auth' = object /\ lastStatus' \in Statuses
  BY <1>1 DEF AuthBecomes, TypeOK
<1>3. CASE connected /\ object.status # lastStatus /\ object.status = "fresh"
           /\ catalog.shown = None
  <2>1. FetchOnce([shown |-> None, requested |-> FALSE], object, authEpoch)
    BY <1>3 DEF AuthBecomes, RefreshCatalog
  <2>2. [shown |-> None, requested |-> FALSE] \in Catalog
    BY DEF Catalog, Listing
  <2> HIDE DEF object
  <2>3. /\ catalog' \in Catalog /\ catalog'.shown = None
        /\ listings' \subseteq ListingCall
        /\ \A l \in listings' :
             l \in listings \/ (l.epoch = authEpoch /\ l.principal = PrincipalOf(object.adapter))
    BY <1>1, <2>1, <2>2, FetchOnceEffect DEF TypeOK
  <2> QED BY <1>1, <1>2, <1>3, <2>3 DEF Reports
<1>4. CASE ~(connected /\ object.status # lastStatus /\ object.status = "fresh"
             /\ catalog.shown = None)
  <2>1. UNCHANGED <<catalog, listings>>
    BY <1>4 DEF AuthBecomes
  <2> HIDE DEF object
  <2> QED BY <1>1, <1>2, <2>1 DEF Reports, TypeOK
<1> QED BY <1>3, <1>4

\* A step that leaves the session alone reports nothing.
LEMMA QuietReports ==
  ASSUME TypeOK, UNCHANGED <<auth, lastStatus, catalog, listings>>
  PROVE  Reports
BY DEF Reports, TypeOK

Events == {"host-authenticated", "credential-issued", "token-rotated", "refresh-started",
           "refresh-failed", "signed-out"}

\* An event reaches the session object it is about and no other.
LEMMA TouchReports ==
  ASSUME TypeOK, NEW f \in Fetch, NEW event \in Events, Touch(f, event)
  PROVE  /\ Reports
         /\ auth'.status = IF Current(f) THEN ReduceAuthState(event) ELSE auth.status
<1>1. CASE Current(f)
  <2> DEFINE status == ReduceAuthState(event)
             timer == IF status = "fresh" THEN auth.timer ELSE None
  <2>1. status \in Statuses
    BY DEF ReduceAuthState, Statuses, Events
  <2>2. AuthBecomes([auth EXCEPT !.status = status, !.timer = timer])
    BY <1>1 DEF Touch
  <2> HIDE DEF status
  <2>3. timer \in {auth.timer, None}
    OBVIOUS
  <2> HIDE DEF timer
  <2>4. Reports /\ auth'.status = status
    BY <2>1, <2>2, <2>3, AuthBecomesReports
  <2> QED BY <1>1, <2>4 DEF status
<1>2. CASE ~Current(f)
  BY <1>2, QuietReports DEF Touch
<1> QED BY <1>1, <1>2

\* Mode, kind and session of a request never change; what is sent, is sent
\* with the lease the session holds.
Resumes(q, f) ==
    /\ fetches' = [fetches EXCEPT ![q] = fetches'[q]]
    /\ fetches'[q] \in Fetch
    /\ fetches'[q].kind = f.kind /\ fetches'[q].by = f.by /\ fetches'[q].mode = f.mode
    /\ fetches'[q].reply = "none"
    /\ IF f.mode = "cookie" THEN fetches'[q].stage \in {"sent", "failed"}
                            ELSE fetches'[q].stage = "token"
    /\ \/ fetches'[q].lease = f.lease /\ fetches'[q].renewals = f.renewals
       \/ fetches'[q].lease = auth.adapter /\ fetches'[q].renewals = auth.renewals

\* fetchWithAuth: a token is awaited or the request goes out, and an ended
\* cookie session is reported; no other session turns expired.
LEMMA AskEffect ==
  ASSUME TypeOK, NEW q \in Requests, NEW f \in Fetch, Ask(q, f)
  PROVE  /\ Reports /\ Resumes(q, f)
         /\ auth'.status # auth.status
            => \/ f.mode # "cookie" /\ auth'.status = "refreshing"
               \/ Current(f) /\ auth'.status = "fresh"
               \/ Current(f) /\ (auth.status = "expired" \/ auth.adapter \in past)
<1>1. CASE f.mode # "cookie"
  <2> DEFINE g == [f EXCEPT !.stage = "token", !.reply = "none"]
  <2>1. fetches' = [fetches EXCEPT ![q] = g]
    BY <1>1 DEF Ask, Put
  <2>2. /\ g \in Fetch /\ g.kind = f.kind /\ g.by = f.by /\ g.mode = f.mode
        /\ g.reply = "none" /\ g.stage = "token" /\ g.lease = f.lease /\ g.renewals = f.renewals
    BY DEF Fetch, Stages
  <2> HIDE DEF g
  <2>3. fetches'[q] = g
    BY <2>1 DEF TypeOK
  <2>4. Resumes(q, f)
    BY <1>1, <2>1, <2>2, <2>3 DEF Resumes
  <2>5. CASE f.mode = "standalone" /\ f.again
    <3>1. Touch(f, "refresh-started")
      BY <1>1, <2>5 DEF Ask
    <3>2. Reports /\ auth'.status = IF Current(f) THEN "refreshing" ELSE auth.status
      BY <3>1, TouchReports DEF Events, ReduceAuthState
    <3> QED BY <1>1, <2>4, <3>2
  <2>6. CASE ~(f.mode = "standalone" /\ f.again)
    <3>1. UNCHANGED <<auth, lastStatus, catalog, listings>>
      BY <1>1, <2>6 DEF Ask
    <3> QED BY <2>4, <3>1, QuietReports
  <2> QED BY <2>5, <2>6
<1>2. CASE f.mode = "cookie"
  <2> DEFINE status == IF Current(f) THEN CookieStatus(auth.adapter, auth.status) ELSE "expired"
             g == IF status = "fresh" THEN SentWith(f, "sent")
                  ELSE [f EXCEPT !.stage = "failed", !.reply = "none"]
  <2>1. fetches' = [fetches EXCEPT ![q] = g]
    BY <1>2 DEF Ask, Put
  <2>2. /\ g \in Fetch /\ g.kind = f.kind /\ g.by = f.by /\ g.mode = f.mode
        /\ g.reply = "none" /\ g.stage \in {"sent", "failed"}
        /\ \/ g.lease = f.lease /\ g.renewals = f.renewals
           \/ g.lease = auth.adapter /\ g.renewals = auth.renewals
    BY DEF Fetch, Stages, SentWith, TypeOK, AuthObject
  <2> HIDE DEF g
  <2>3. fetches'[q] = g
    BY <2>1 DEF TypeOK
  <2>4. Resumes(q, f)
    BY <1>2, <2>1, <2>2, <2>3 DEF Resumes
  <2>5. Touch(f, IF status = "fresh" THEN "host-authenticated" ELSE "refresh-failed")
    BY <1>2 DEF Ask
  <2>6. CASE status = "fresh"
    <3>1. Touch(f, "host-authenticated")
      BY <2>5, <2>6
    <3>2. Reports /\ auth'.status = IF Current(f) THEN "fresh" ELSE auth.status
      BY <3>1, TouchReports DEF Events, ReduceAuthState
    <3> QED BY <2>4, <3>2
  <2>7. CASE status # "fresh"
    <3>1. Touch(f, "refresh-failed")
      BY <2>5, <2>7
    <3>2. Reports /\ auth'.status = IF Current(f) THEN "expired" ELSE auth.status
      BY <3>1, TouchReports DEF Events, ReduceAuthState
    <3>3. Current(f) => auth.status = "expired" \/ auth.adapter \in past
      BY <2>7 DEF CookieStatus
    <3> QED BY <2>4, <3>2, <3>3
  <2> QED BY <2>6, <2>7
<1> QED BY <1>1, <1>2

-----------------------------------------------------------------------------
(* What a step preserves, by what it may change *)

\* The session object is replaced, revoked, renewed or reported on.
AuthMoves ==
    \/ auth'.id = auth.id + 1
    \/ auth'.id = auth.id /\ auth'.mode = "none"
    \/ auth'.id = auth.id /\ auth'.mode = auth.mode /\ auth'.renewals = auth.renewals + 1
    \/ /\ auth'.id = auth.id /\ auth'.mode = auth.mode
       /\ auth'.renewals = auth.renewals /\ auth'.adapter = auth.adapter

\* A request that does not move still knows what it knew: of a replaced object
\* nothing is claimed, and of a renewed one only what was sent since.
LEMMA StillHeld ==
  ASSUME TypeOK, auth' \in AuthObject, AuthMoves, past \subseteq past', refused \subseteq refused',
         NEW f \in Fetch, Held(f)
  PROVE  Held(f)'
BY DEF TypeOK, AuthObject, AuthMoves, Fetch, Held, Current

\* No request moves.
LEMMA RequestsRest ==
  ASSUME IInv, auth' \in AuthObject, AuthMoves, past \subseteq past', refused \subseteq refused',
         UNCHANGED <<fetches, carriedOut>>
  PROVE  CarriedOutOnce' /\ LeasesAreKnown'
<1>1. CarriedOutOnce'
  BY DEF IInv, CarriedOutOnce, MaySend
<1>2. ASSUME NEW q \in Requests, fetches[q] # None PROVE Held(fetches[q])'
  <2>1. fetches[q] \in Fetch /\ Held(fetches[q])
    BY <1>2 DEF IInv, TypeOK, LeasesAreKnown
  <2>2. \A f \in Fetch : Held(f) => Held(f)'
    BY StillHeld DEF IInv
  <2> QED BY <2>1, <2>2 DEF Held, Current
<1> QED BY <1>1, <1>2 DEF LeasesAreKnown

\* One request moves and keeps to the two facts.
LEMMA OneRequestMoves ==
  ASSUME IInv, auth' \in AuthObject, AuthMoves, past' = past, refused' = refused,
         NEW q \in Requests, NEW g \in Fetch, fetches' = [fetches EXCEPT ![q] = g],
         carriedOut' \in [Requests -> Nat],
         \A p \in Requests : p # q => carriedOut'[p] = carriedOut[p],
         carriedOut'[q] <= 1, MaySend(g) => carriedOut'[q] = 0,
         Held(g)'
  PROVE  CarriedOutOnce' /\ LeasesAreKnown'
<1>1. /\ fetches'[q] = g
      /\ \A p \in Requests : p # q => fetches'[p] = fetches[p]
  BY DEF IInv, TypeOK
<1>2. CarriedOutOnce'
  <2>1. ASSUME NEW p \in Requests
        PROVE  carriedOut'[p] <= 1 /\ (MaySend(fetches'[p]) => carriedOut'[p] = 0)
    BY <1>1, <2>1 DEF IInv, CarriedOutOnce
  <2> QED BY <2>1 DEF CarriedOutOnce, MaySend
<1>3. ASSUME NEW p \in Requests, fetches'[p] # None PROVE Held(fetches[p])'
  <2>1. CASE p = q
    BY <1>1, <2>1 DEF Held, Current
  <2>2. CASE p # q
    <3>1. fetches[p] \in Fetch /\ Held(fetches[p])
      BY <1>1, <1>3, <2>2 DEF IInv, TypeOK, LeasesAreKnown
    <3>2. \A f \in Fetch : Held(f) => Held(f)'
      BY StillHeld DEF IInv
    <3> QED BY <1>1, <2>2, <3>1, <3>2 DEF Held, Current
  <2> QED BY <2>1, <2>2
<1> QED BY <1>2, <1>3 DEF LeasesAreKnown

\* A report leaves the host's session and the listings of other epochs alone.
LEMMA ReportsKeepSession ==
  ASSUME IInv, Reports,
         UNCHANGED <<connected, hostAdapter, authEpoch>>
  PROVE  SessionFollowsHost' /\ CatalogIsOwn' /\ ListingsAreOwn' /\ AuthMoves
<1> USE DEF IInv, Reports
<1>1. SessionFollowsHost'
  BY DEF SessionFollowsHost, TypeOK, AuthObject, ModeOf
<1>2. CatalogIsOwn'
  BY DEF CatalogIsOwn, PrincipalOf
<1>3. ListingsAreOwn'
  BY DEF ListingsAreOwn, SessionFollowsHost, PrincipalOf, TypeOK
<1> QED BY <1>1, <1>2, <1>3 DEF AuthMoves

-----------------------------------------------------------------------------
(* Every step preserves the invariant, and ends only its own lease *)

\* The steps of OnlyOwnLeaseEnds and ListingsShownAreOwn.
OwnOnly ==
    /\ auth.mode = "cookie" /\ auth'.id = auth.id /\ auth'.mode = "cookie"
       /\ auth.status = "fresh" /\ auth'.status = "expired"
       => auth'.adapter \in past' \union refused' \union LongLeases
    /\ catalog'.shown \in {catalog.shown, None, PrincipalOf(hostAdapter)'}

\* The session begins in the invariant.
LEMMA InitInvariant == Init => IInv
<1> SUFFICES ASSUME Init PROVE IInv
  OBVIOUS
<1> USE DEF Init
<1>1. TypeOK
  BY DEF TypeOK, AuthObject, Statuses, Catalog, Listing
<1>2. CarriedOutOnce /\ LeasesAreKnown
  BY DEF CarriedOutOnce, LeasesAreKnown
<1>3. SessionFollowsHost /\ CatalogIsOwn /\ ListingsAreOwn
  BY DEF SessionFollowsHost, CatalogIsOwn, ListingsAreOwn
<1> QED BY <1>1, <1>2, <1>3 DEF IInv

\* resetAuth and renewCookie build an object for the adapter they are given.
LEMMA NewAuthType ==
  ASSUME TypeOK, NEW a \in Adapters \union {None}
  PROVE  /\ NewAuth(a) \in AuthObject /\ NewAuth(a).id = auth.id + 1
         /\ NewAuth(a).adapter = a /\ NewAuth(a).mode = ModeOf(a)
         /\ NewAuth(a).timer \in {a, None}
<1>1. ModeOf(a) \in {"cookie", "bearer", "standalone"}
  BY KindAssumption DEF ModeOf
<1>2. CookieStatus(a, "fresh") \in Statuses
  BY DEF CookieStatus, Statuses
<1> QED BY <1>1, <1>2 DEF NewAuth, TypeOK, AuthObject, Statuses

\* The session nobody is signed in to.
LEMMA NoAuthType ==
  ASSUME TypeOK
  PROVE  /\ NoAuth \in AuthObject /\ NoAuth.id = auth.id
         /\ NoAuth.mode = "none" /\ NoAuth.timer = None
BY DEF NoAuth, TypeOK, AuthObject, Statuses

\* A renewed session: the next renewal, with the adapter it was renewed with.
LEMMA RenewedAuthType ==
  ASSUME TypeOK, NEW a \in Adapters
  PROVE  /\ RenewedAuth(a) \in AuthObject /\ RenewedAuth(a).id = auth.id
         /\ RenewedAuth(a).renewals = auth.renewals + 1
         /\ RenewedAuth(a).adapter = a /\ RenewedAuth(a).mode = auth.mode
         /\ RenewedAuth(a).timer \in {a, None}
         /\ RenewedAuth(a).status = "expired" => a \in past
<1> DEFINE status == CookieStatus(a, "fresh")
           timer == IF status = "fresh" THEN a ELSE None
           renewals == auth.renewals + 1
<1>1. status \in Statuses /\ (status = "expired" => a \in past) /\ timer \in {a, None}
  BY DEF CookieStatus, Statuses
<1>2. RenewedAuth(a) = [auth EXCEPT !.adapter = a, !.renewals = renewals, !.status = status,
                                    !.timer = timer]
  BY DEF RenewedAuth
<1>3. auth \in AuthObject /\ renewals \in Nat
  BY DEF TypeOK, AuthObject
<1> HIDE DEF status, timer, renewals
<1>4. RenewedAuth(a) \in AuthObject
  BY <1>1, <1>2, <1>3, ZenonT(60) DEF AuthObject
<1>5. /\ RenewedAuth(a).id = auth.id /\ RenewedAuth(a).renewals = renewals
      /\ RenewedAuth(a).adapter = a /\ RenewedAuth(a).mode = auth.mode
      /\ RenewedAuth(a).timer = timer /\ RenewedAuth(a).status = status
  BY <1>2, <1>3 DEF AuthObject
<1> QED BY <1>1, <1>4, <1>5 DEF renewals

\* A newer lease of the same principal: listings stay its own, and what was
\* sent before the renewal claims nothing of the lease.
LEMMA RenewSessionKeeps ==
  ASSUME IInv, NEW a \in Adapters, RenewSession(a)
  PROVE  IInv' /\ OwnOnly
<1> USE DEF IInv
<1>1. /\ UNCHANGED <<connected, authEpoch, past, refused, fetches, carriedOut, catalogFailed>>
      /\ hostAdapter' = a /\ auth' = RenewedAuth(a) /\ lastStatus' = auth'.status
      /\ connected /\ auth.mode = "cookie" /\ RenewsLease(hostAdapter, a)
      /\ sessionSpent' = sessionSpent + 1
  BY DEF RenewSession, Spend
<1>2. /\ auth' \in AuthObject /\ auth'.id = auth.id /\ auth'.renewals = auth.renewals + 1
      /\ auth'.adapter = a /\ auth'.mode = auth.mode /\ auth'.timer \in {a, None}
      /\ auth'.status = "expired" => a \in past
  BY <1>1, RenewedAuthType
<1>3. ModeOf(a) = "cookie" /\ PrincipalOf(a) = PrincipalOf(hostAdapter)
  BY <1>1, NoneIsNoAdapter DEF RenewsLease, ModeOf, PrincipalOf
<1>4. /\ catalog' \in Catalog /\ catalog'.shown \in {catalog.shown, None}
      /\ listings' \subseteq ListingCall
      /\ \A l \in listings' :
           l \in listings \/ (l.epoch = authEpoch /\ l.principal = PrincipalOf(a))
  <2>1. CASE auth'.status = "fresh" /\ auth'.status # lastStatus /\ catalog.shown = None
    <3> DEFINE c == [shown |-> None, requested |-> FALSE]
    <3>1. FetchOnce(c, auth', authEpoch)
      BY <2>1 DEF RenewSession, RefreshCatalog
    <3>2. c \in Catalog /\ c.shown = None
      BY DEF Catalog, Listing
    <3> HIDE DEF c
    <3> QED BY <1>2, <3>1, <3>2, FetchOnceEffect DEF TypeOK
  <2>2. CASE ~(auth'.status = "fresh" /\ auth'.status # lastStatus /\ catalog.shown = None)
    <3> DEFINE c == [catalog EXCEPT !.requested = FALSE]
    <3>1. FetchOnce(c, auth', authEpoch)
      BY <2>2 DEF RenewSession
    <3>2. c \in Catalog /\ c.shown = catalog.shown
      BY DEF TypeOK, Catalog
    <3> HIDE DEF c
    <3> QED BY <1>2, <3>1, <3>2, FetchOnceEffect DEF TypeOK
  <2> QED BY <2>1, <2>2
<1>5. TypeOK'
  <2>1. lastStatus' \in Statuses
    BY <1>1, <1>2 DEF AuthObject
  <2> QED BY <1>1, <1>2, <1>4, <2>1 DEF TypeOK
<1>6. CarriedOutOnce' /\ LeasesAreKnown'
  BY <1>1, <1>2, RequestsRest DEF AuthMoves
<1>7. SessionFollowsHost'
  BY <1>1, <1>2, <1>3 DEF SessionFollowsHost
<1>8. CatalogIsOwn'
  <2>1. PrincipalOf(hostAdapter)' = PrincipalOf(hostAdapter)
    BY <1>1, <1>3 DEF PrincipalOf
  <2> QED BY <1>4, <2>1 DEF CatalogIsOwn
<1>9. ListingsAreOwn'
  <2>1. PrincipalOf(hostAdapter)' = PrincipalOf(hostAdapter)
    BY <1>1, <1>3 DEF PrincipalOf
  <2> QED BY <1>1, <1>3, <1>4, <2>1 DEF ListingsAreOwn, TypeOK
<1>10. OwnOnly
  BY <1>1, <1>2, <1>4 DEF OwnOnly
<1> QED BY <1>5, <1>6, <1>7, <1>8, <1>9, <1>10

\* Any other session opens a new epoch: no listing in flight is of it.  Where the
\* catalog stays, no host had a session and it is the standalone sign-in's.
LEMMA ReplaceSessionKeeps ==
  ASSUME IInv, NEW a \in Adapters \union {None}, NEW draftBound \in BOOLEAN,
         ReplaceSession(a, draftBound)
  PROVE  IInv' /\ OwnOnly
<1> USE DEF IInv
<1>1. /\ UNCHANGED <<connected, past, refused, fetches, carriedOut>>
      /\ hostAdapter' = a /\ authEpoch' = authEpoch + 1 /\ catalogFailed' = FALSE
      /\ sessionSpent' = sessionSpent + 1
  BY DEF ReplaceSession, Spend
<1>2. /\ auth' \in AuthObject /\ auth'.timer \in {auth'.adapter, None}
      /\ lastStatus' \in Statuses
      /\ IF connected THEN auth'.id = auth.id + 1 /\ auth'.adapter = a /\ auth'.mode = ModeOf(a)
                      ELSE auth'.id = auth.id /\ auth'.mode = "none" /\ auth'.timer = None
      /\ catalog' \in Catalog /\ catalog'.shown \in {None, "standalone"}
      /\ catalog'.shown \in {None, catalog.shown}
      /\ listings' \subseteq ListingCall
      /\ \A l \in listings' :
           l \in listings \/ (l.epoch = authEpoch + 1 /\ l.principal = PrincipalOf(a))
  <2> DEFINE c == [shown |-> None, requested |-> FALSE]
  <2>1. c \in Catalog /\ c.shown = None
    BY DEF Catalog, Listing
  <2>2. CASE connected
    <3>1. /\ auth' = NewAuth(a) /\ lastStatus' = auth'.status
          /\ FetchOnce(c, auth', authEpoch + 1)
      BY <2>2 DEF ReplaceSession, RefreshCatalog
    <3>2. /\ auth' \in AuthObject /\ auth'.id = auth.id + 1 /\ auth'.adapter = a
          /\ auth'.mode = ModeOf(a) /\ auth'.timer \in {a, None}
      BY <3>1, NewAuthType
    <3>3. lastStatus' \in Statuses
      BY <3>1, <3>2 DEF AuthObject
    <3>4. authEpoch + 1 \in Nat /\ listings \subseteq ListingCall
      BY DEF TypeOK
    <3> HIDE DEF c
    <3> QED BY <2>1, <2>2, <3>1, <3>2, <3>3, <3>4, FetchOnceEffect
  <2>3. CASE ~connected
    <3>1. /\ auth' = NoAuth /\ UNCHANGED <<lastStatus, listings>>
          /\ catalog' = c \/ (catalog' = catalog /\ hostAdapter = None)
      BY <2>3 DEF ReplaceSession
    <3>2. /\ catalog' \in Catalog /\ catalog'.shown \in {None, "standalone"}
          /\ catalog'.shown \in {None, catalog.shown}
      BY <2>1, <3>1 DEF TypeOK, CatalogIsOwn, PrincipalOf
    <3> HIDE DEF c
    <3> QED BY <2>3, <3>1, <3>2, NoAuthType DEF TypeOK
  <2> QED BY <2>2, <2>3
<1>3. TypeOK'
  <2>1. /\ auth' \in AuthObject /\ lastStatus' \in Statuses /\ catalog' \in Catalog
        /\ listings' \subseteq ListingCall
    BY <1>2
  <2>2. authEpoch' \in Nat /\ hostAdapter' \in Adapters \union {None}
        /\ sessionSpent' \in Nat
    BY <1>1 DEF TypeOK
  <2>3. /\ connected' \in BOOLEAN /\ past' \subseteq Adapters /\ refused' \subseteq Adapters
        /\ fetches' \in [Requests -> {None} \union Fetch] /\ carriedOut' \in [Requests -> Nat]
    BY <1>1 DEF TypeOK
  <2>4. catalogFailed' \in BOOLEAN
    BY <1>1
  <2> QED BY <2>1, <2>2, <2>3, <2>4 DEF TypeOK
<1>4. CarriedOutOnce' /\ LeasesAreKnown'
  BY <1>1, <1>2, RequestsRest DEF AuthMoves
<1>5. SessionFollowsHost'
  BY <1>1, <1>2 DEF SessionFollowsHost, ModeOf, TypeOK
<1>6. CatalogIsOwn'
  BY <1>2 DEF CatalogIsOwn
<1>7. ListingsAreOwn'
  <2>1. PrincipalOf(hostAdapter)' = PrincipalOf(a)
    BY <1>1 DEF PrincipalOf
  <2>2. \A l \in listings : l.epoch \in Nat /\ l.epoch <= authEpoch
    BY DEF TypeOK, ListingCall, ListingsAreOwn
  <2> QED BY <1>1, <1>2, <2>1, <2>2 DEF ListingsAreOwn, TypeOK
<1>8. OwnOnly
  BY <1>2 DEF OwnOnly, TypeOK, AuthObject
<1> QED BY <1>3, <1>4, <1>5, <1>6, <1>7, <1>8

\* resetAuth at onConnect: a new object for the adapter the host assigned.
LEMMA ConnectKeeps ==
  ASSUME IInv, Connect
  PROVE  IInv' /\ OwnOnly
<1> USE DEF IInv
<1>1. /\ UNCHANGED <<hostAdapter, authEpoch, past, refused, fetches, carriedOut, catalogFailed,
                     sessionSpent>>
      /\ connected' = TRUE /\ auth' = NewAuth(hostAdapter) /\ lastStatus' = auth'.status
  BY DEF Connect
<1>2. /\ auth' \in AuthObject /\ auth'.id = auth.id + 1 /\ auth'.adapter = hostAdapter
      /\ auth'.mode = ModeOf(hostAdapter) /\ auth'.timer \in {hostAdapter, None}
  BY <1>1, NewAuthType DEF TypeOK
<1>3. /\ catalog' \in Catalog /\ catalog'.shown \in {catalog.shown, None}
      /\ listings' \subseteq ListingCall
      /\ \A l \in listings' :
           l \in listings \/ (l.epoch = authEpoch /\ l.principal = PrincipalOf(hostAdapter))
  <2> DEFINE c == [shown |-> None, requested |-> FALSE]
  <2>1. c \in Catalog /\ c.shown = None
    BY DEF Catalog, Listing
  <2>2. \/ FetchOnce(c, auth', authEpoch)
        \/ FetchOnce(catalog, auth', authEpoch)
        \/ UNCHANGED <<catalog, listings>>
    BY DEF Connect, RefreshCatalog
  <2> HIDE DEF c
  <2>3. CASE FetchOnce(c, auth', authEpoch)
    BY <1>2, <2>1, <2>3, FetchOnceEffect DEF TypeOK
  <2>4. CASE FetchOnce(catalog, auth', authEpoch)
    BY <1>2, <2>4, FetchOnceEffect DEF TypeOK
  <2>5. CASE UNCHANGED <<catalog, listings>>
    BY <2>5 DEF TypeOK
  <2> QED BY <2>2, <2>3, <2>4, <2>5
<1>4. TypeOK'
  <2>1. lastStatus' \in Statuses
    BY <1>1, <1>2 DEF AuthObject
  <2> QED BY <1>1, <1>2, <1>3, <2>1 DEF TypeOK
<1>5. CarriedOutOnce' /\ LeasesAreKnown'
  BY <1>1, <1>2, RequestsRest DEF AuthMoves
<1>6. SessionFollowsHost'
  BY <1>1, <1>2 DEF SessionFollowsHost, ModeOf
<1>7. CatalogIsOwn' /\ ListingsAreOwn'
  <2>1. PrincipalOf(hostAdapter)' = PrincipalOf(hostAdapter)
    BY <1>1 DEF PrincipalOf
  <2> QED BY <1>1, <1>3, <2>1 DEF CatalogIsOwn, ListingsAreOwn, TypeOK
<1>8. OwnOnly
  BY <1>2, <1>3 DEF OwnOnly, TypeOK, AuthObject
<1> QED BY <1>4, <1>5, <1>6, <1>7, <1>8

\* Out of the document there is no session object in use, and nothing is listed.
LEMMA AwayKeeps ==
  ASSUME IInv, connected' = FALSE, auth' = NoAuth, hostAdapter' \in Adapters \union {None},
         PrincipalOf(hostAdapter)' = PrincipalOf(hostAdapter), sessionSpent' \in Nat,
         UNCHANGED <<authEpoch, lastStatus, past, refused, fetches, carriedOut, catalog,
                     listings, catalogFailed>>
  PROVE  IInv' /\ OwnOnly
<1> USE DEF IInv
<1>1. /\ auth' \in AuthObject /\ auth'.id = auth.id /\ auth'.mode = "none"
      /\ auth'.timer = None
  BY NoAuthType
<1>2. TypeOK'
  BY <1>1 DEF TypeOK
<1>3. CarriedOutOnce' /\ LeasesAreKnown'
  BY <1>1, RequestsRest DEF AuthMoves
<1>4. SessionFollowsHost'
  BY <1>1 DEF SessionFollowsHost
<1>5. CatalogIsOwn' /\ ListingsAreOwn'
  BY DEF CatalogIsOwn, ListingsAreOwn
<1>6. OwnOnly
  BY <1>1 DEF OwnOnly
<1> QED BY <1>2, <1>3, <1>4, <1>5, <1>6

\* The host's other steps: a lease lapses or is ended.
LEMMA HostKeeps ==
  ASSUME IInv, Host
  PROVE  IInv' /\ OwnOnly
<1> USE DEF IInv
<1>1. CASE \E a \in Adapters \union {None}, draftBound \in BOOLEAN :
             ReplaceSession(a, draftBound)
  BY <1>1, ReplaceSessionKeeps
<1>2. CASE \E a \in Adapters : RenewSession(a)
  BY <1>2, RenewSessionKeeps
<1>3. ASSUME NEW a \in Adapters, AssignWhileAway(a) PROVE IInv' /\ OwnOnly
  <2>1. /\ connected' = FALSE /\ auth' = NoAuth /\ hostAdapter' = a
        /\ UNCHANGED <<authEpoch, lastStatus, past, refused, fetches, carriedOut, catalog,
                       listings, catalogFailed>>
    BY <1>3 DEF AssignWhileAway, TypeOK
  <2>2. sessionSpent' \in Nat
    BY <1>3 DEF AssignWhileAway, Spend, TypeOK
  <2>3. PrincipalOf(hostAdapter)' = PrincipalOf(hostAdapter)
    BY <1>3, <2>1, NoneIsNoAdapter DEF AssignWhileAway, RenewsLease, PrincipalOf
  <2> QED BY <2>1, <2>2, <2>3, AwayKeeps
<1>4. ASSUME Disconnect PROVE IInv' /\ OwnOnly
  <2>1. /\ connected' = FALSE /\ auth' = NoAuth
        /\ UNCHANGED <<hostAdapter, authEpoch, lastStatus, past, refused, fetches, carriedOut,
                       catalog, listings, catalogFailed>>
    BY <1>4 DEF Disconnect
  <2>2. sessionSpent' \in Nat
    BY <1>4 DEF Disconnect, Spend, TypeOK
  <2> QED BY <2>1, <2>2, AwayKeeps DEF TypeOK, PrincipalOf
<1>5. ASSUME NEW a \in Adapters, LeaseLapses(a) \/ HostEnds(a) PROVE IInv' /\ OwnOnly
  <2>1. /\ UNCHANGED <<connected, hostAdapter, authEpoch, auth, lastStatus, fetches, carriedOut,
                       catalog, listings, catalogFailed>>
        /\ past \subseteq past' /\ refused \subseteq refused'
        /\ past' \subseteq Adapters /\ refused' \subseteq Adapters
    BY <1>5 DEF LeaseLapses, HostEnds, TypeOK
  <2>2. sessionSpent' \in Nat
    BY <1>5 DEF LeaseLapses, HostEnds, Spend, TypeOK
  <2>3. TypeOK'
    BY <2>1, <2>2 DEF TypeOK
  <2>4. CarriedOutOnce' /\ LeasesAreKnown'
    <3>1. auth' \in AuthObject /\ AuthMoves
      BY <2>1 DEF TypeOK, AuthMoves
    <3> QED BY <2>1, <3>1, RequestsRest
  <2>5. SessionFollowsHost' /\ CatalogIsOwn' /\ ListingsAreOwn'
    BY <2>1 DEF SessionFollowsHost, CatalogIsOwn, ListingsAreOwn, PrincipalOf, ModeOf
  <2>6. OwnOnly
    BY <2>1 DEF OwnOnly
  <2> QED BY <2>3, <2>4, <2>5, <2>6
<1> QED BY <1>1, <1>2, <1>3, <1>4, <1>5 DEF Host

\* A report about the session while no request moves.
LEMMA ReportKeeps ==
  ASSUME IInv, Reports, sessionSpent' \in Nat, OwnOnly,
         UNCHANGED <<connected, hostAdapter, authEpoch, past, refused, fetches, carriedOut,
                     catalogFailed>>
  PROVE  IInv'
<1> USE DEF IInv
<1>1. SessionFollowsHost' /\ CatalogIsOwn' /\ ListingsAreOwn' /\ AuthMoves
  BY ReportsKeepSession
<1>2. TypeOK'
  BY DEF TypeOK, Reports
<1>3. CarriedOutOnce' /\ LeasesAreKnown'
  BY <1>1, RequestsRest DEF Reports
<1> QED BY <1>1, <1>2, <1>3

\* The timer and the host's event report the lease in use only.
LEMMA ExpireKeeps ==
  ASSUME IInv, Expire, auth.adapter \in past \union refused \union LongLeases
  PROVE  IInv' /\ OwnOnly
<1>1. "expired" \in Statuses /\ None \in {auth.timer, None}
  BY DEF Statuses
<1>2. AuthBecomes([auth EXCEPT !.status = "expired", !.timer = None])
  BY DEF Expire
<1>3. Reports
  BY <1>1, <1>2, AuthBecomesReports DEF IInv
<1>4. UNCHANGED <<connected, hostAdapter, authEpoch, past, refused, fetches, carriedOut,
                  catalogFailed, sessionSpent>>
  BY DEF Expire
<1>5. OwnOnly
  BY <1>3, <1>4 DEF OwnOnly, Reports
<1> QED BY <1>3, <1>4, <1>5, ReportKeeps DEF IInv, TypeOK

\* Signing out and in again concern a standalone session.
LEMMA SignKeeps ==
  ASSUME IInv, SignOut \/ \E issued \in BOOLEAN : SignedIn(issued)
  PROVE  IInv' /\ OwnOnly
<1>1. PICK status \in Statuses : AuthBecomes([auth EXCEPT !.status = status])
  BY DEF SignOut, SignedIn, Statuses
<1>2. /\ UNCHANGED <<connected, hostAdapter, authEpoch, past, refused, fetches, carriedOut,
                     catalogFailed>>
      /\ auth.mode = "standalone"
  BY DEF SignOut, SignedIn
<1>3. sessionSpent' \in Nat
  <2>1. sessionSpent' = sessionSpent + 1
    BY DEF SignOut, SignedIn, Spend
  <2> QED BY <2>1 DEF IInv, TypeOK
<1>4. [auth EXCEPT !.status = status] = [auth EXCEPT !.status = status, !.timer = auth.timer]
  <2>1. auth \in AuthObject
    BY DEF IInv, TypeOK
  <2> QED BY <2>1 DEF AuthObject
<1>5. Reports
  <2> DEFINE timer == auth.timer
  <2>1. AuthBecomes([auth EXCEPT !.status = status, !.timer = timer])
    BY <1>1, <1>4
  <2>2. timer \in {auth.timer, None}
    OBVIOUS
  <2> HIDE DEF timer
  <2> QED BY <2>1, <2>2, AuthBecomesReports DEF IInv
<1>6. OwnOnly
  BY <1>2, <1>5 DEF OwnOnly, Reports
<1> QED BY <1>2, <1>3, <1>5, <1>6, ReportKeeps

\* A listing that returns is shown in the epoch it was asked for only.
LEMMA ListingKeeps ==
  ASSUME IInv, NEW l \in listings, ListingReturns(l) \/ ListingFails(l)
  PROVE  IInv' /\ OwnOnly
<1> USE DEF IInv
<1>1. /\ UNCHANGED <<connected, hostAdapter, authEpoch, auth, lastStatus, past, refused, fetches,
                     carriedOut>>
      /\ listings' \subseteq listings
  BY DEF ListingReturns, ListingFails
<1>2. sessionSpent' \in Nat /\ catalogFailed' \in BOOLEAN
  <2>1. CASE ListingReturns(l)
    BY <2>1 DEF ListingReturns, TypeOK
  <2>2. CASE ListingFails(l)
    <3>1. sessionSpent' \in Nat
      BY <2>2 DEF ListingFails, Spend, TypeOK
    <3>2. catalogFailed' = TRUE
      BY <2>2 DEF ListingFails
    <3> QED BY <3>1, <3>2
  <2> QED BY <2>1, <2>2
<1>3. /\ catalog' \in Catalog
      /\ \/ catalog'.shown = catalog.shown
         \/ l.epoch = authEpoch /\ catalog'.shown = l.principal
  <2>1. catalog' = catalog
        \/ (l.epoch = authEpoch /\ catalog' = [catalog EXCEPT !.shown = l.principal])
    BY DEF ListingReturns, ListingFails
  <2>2. catalog \in Catalog /\ l.principal \in Listing
    BY DEF TypeOK, ListingCall
  <2> QED BY <2>1, <2>2 DEF Catalog
<1>4. TypeOK'
  <2>1. listings' \subseteq ListingCall
    BY <1>1 DEF TypeOK
  <2> QED BY <1>1, <1>2, <1>3, <2>1 DEF TypeOK
<1>5. CarriedOutOnce' /\ LeasesAreKnown'
  <2>1. auth' \in AuthObject /\ AuthMoves
    BY <1>1 DEF TypeOK, AuthMoves
  <2> QED BY <1>1, <2>1, RequestsRest
<1>6. SessionFollowsHost' /\ ListingsAreOwn'
  BY <1>1 DEF SessionFollowsHost, ListingsAreOwn, PrincipalOf, ModeOf
<1>7. CatalogIsOwn'
  BY <1>1, <1>3 DEF CatalogIsOwn, ListingsAreOwn, PrincipalOf
<1>8. OwnOnly
  <2>1. l.epoch = authEpoch => l.principal = PrincipalOf(hostAdapter)'
    BY <1>1 DEF ListingsAreOwn, PrincipalOf
  <2> QED BY <1>1, <1>3, <2>1 DEF OwnOnly
<1> QED BY <1>4, <1>5, <1>6, <1>7, <1>8

-----------------------------------------------------------------------------
(* The steps of requests *)

\* One request moves to g, and the session is reported on or left alone.
LEMMA RequestKeeps ==
  ASSUME IInv, Reports, OwnOnly, sessionSpent' \in Nat,
         UNCHANGED <<connected, hostAdapter, authEpoch, past, refused, catalogFailed>>,
         NEW q \in Requests, NEW g \in Fetch, fetches' = [fetches EXCEPT ![q] = g], Held(g),
         carriedOut' \in [Requests -> Nat],
         \A p \in Requests : p # q => carriedOut'[p] = carriedOut[p],
         carriedOut'[q] <= 1, MaySend(g) => carriedOut'[q] = 0
  PROVE  IInv' /\ OwnOnly
<1> USE DEF IInv
<1>1. SessionFollowsHost' /\ CatalogIsOwn' /\ ListingsAreOwn' /\ AuthMoves
  BY ReportsKeepSession
<1>2. fetches' \in [Requests -> {None} \union Fetch]
  BY DEF TypeOK
<1>3. TypeOK'
  BY <1>2 DEF TypeOK, Reports
<1>4. Held(g)'
  BY DEF Held, Current, Reports
<1>5. auth' \in AuthObject
  BY DEF Reports
<1>6. CarriedOutOnce' /\ LeasesAreKnown'
  BY <1>1, <1>4, <1>5, OneRequestMoves
<1> QED BY <1>1, <1>3, <1>6

\* A request that goes on as Ask says, having been carried out by nobody.
LEMMA AskKeeps ==
  ASSUME IInv, NEW q \in Requests, NEW f \in Fetch, Ask(q, f),
         f.by <= auth.id, carriedOut[q] = 0,
         Current(f) /\ auth.mode = "cookie" => f.mode = "cookie" /\ f.renewals <= auth.renewals,
         Current(f) /\ auth.mode = "cookie" /\ f.renewals = auth.renewals =>
           f.lease = auth.adapter,
         sessionSpent' \in Nat,
         UNCHANGED <<connected, hostAdapter, authEpoch, past, refused, carriedOut, catalogFailed>>
  PROVE  IInv' /\ OwnOnly
<1> DEFINE g == fetches'[q]
<1>1. /\ Reports /\ Resumes(q, f)
      /\ auth'.status # auth.status
         => \/ f.mode # "cookie" /\ auth'.status = "refreshing"
            \/ Current(f) /\ auth'.status = "fresh"
            \/ Current(f) /\ (auth.status = "expired" \/ auth.adapter \in past)
  BY AskEffect DEF IInv
<1>2. OwnOnly
  BY <1>1 DEF OwnOnly, Reports
<1>3. /\ fetches' = [fetches EXCEPT ![q] = g] /\ g \in Fetch
      /\ g.by = f.by /\ g.mode = f.mode /\ g.reply = "none"
      /\ f.mode = "cookie" => g.stage # "token"
      /\ \/ g.lease = f.lease /\ g.renewals = f.renewals
         \/ g.lease = auth.adapter /\ g.renewals = auth.renewals
  BY <1>1 DEF Resumes
<1> HIDE DEF g
<1>4. Held(g)
  BY <1>3 DEF Held, Current, Fetch, IInv, TypeOK, AuthObject
<1>5. carriedOut' \in [Requests -> Nat] /\ carriedOut'[q] <= 1
      /\ (MaySend(g) => carriedOut'[q] = 0)
      /\ \A p \in Requests : p # q => carriedOut'[p] = carriedOut[p]
  BY DEF IInv, TypeOK
<1> QED BY <1>1, <1>2, <1>3, <1>4, <1>5, RequestKeeps

\* A request starts.
LEMMA StartRequestKeeps ==
  ASSUME IInv, NEW q \in Requests, NEW kind \in {"read", "write"}, StartRequest(q, kind)
  PROVE  IInv' /\ OwnOnly
<1> DEFINE f == [kind |-> kind, by |-> auth.id, renewals |-> auth.renewals, mode |-> auth.mode,
                 lease |-> auth.adapter,
                 stage |-> "token", again |-> FALSE, reply |-> "none"]
<1>1. /\ Ask(q, f) /\ fetches[q] = None /\ connected
      /\ UNCHANGED <<connected, hostAdapter, authEpoch, past, refused, carriedOut, catalogFailed>>
      /\ sessionSpent' = sessionSpent + 1
  BY DEF StartRequest, Spend
<1>2. auth.mode \in {"cookie", "bearer", "standalone"}
  BY <1>1, KindAssumption DEF IInv, SessionFollowsHost, ModeOf, TypeOK
<1>3. /\ f \in Fetch /\ f.by = auth.id /\ f.renewals = auth.renewals /\ f.mode = auth.mode
      /\ f.lease = auth.adapter
  BY <1>2 DEF Fetch, Stages, IInv, TypeOK, AuthObject
<1>4. carriedOut[q] = 0
  BY <1>1 DEF IInv, CarriedOutOnce, MaySend
<1>5. sessionSpent' \in Nat
  BY <1>1 DEF IInv, TypeOK
<1> HIDE DEF f
<1>6. f.by <= auth.id /\ f.renewals <= auth.renewals
  BY <1>3 DEF Fetch
<1> QED BY <1>1, <1>3, <1>4, <1>5, <1>6, AskKeeps

\* Its token arrives.
LEMMA TokenArrivesKeeps ==
  ASSUME IInv, NEW q \in Requests, NEW token \in BOOLEAN, TokenArrives(q, token)
  PROVE  IInv' /\ OwnOnly
<1> DEFINE f == fetches[q]
           g == [f EXCEPT !.stage = "sent", !.lease = IF token THEN @ ELSE None]
<1>1. /\ f # None /\ f.stage = "token"
      /\ fetches' = [fetches EXCEPT ![q] = g]
      /\ UNCHANGED <<connected, hostAdapter, authEpoch, past, refused, carriedOut,
                     catalogFailed, sessionSpent>>
  BY DEF TokenArrives, Put
<1>2. f \in Fetch /\ Held(f) /\ carriedOut[q] = 0
  BY <1>1 DEF IInv, TypeOK, LeasesAreKnown, CarriedOutOnce, MaySend
<1>3. Reports
  <2>1. CASE token
    <3>1. Touch(f, "credential-issued")
      BY <2>1 DEF TokenArrives
    <3> HIDE DEF f
    <3> QED BY <1>2, <3>1, TouchReports DEF Events, IInv
  <2>2. CASE ~token
    <3>1. UNCHANGED <<auth, lastStatus, catalog, listings>> \/ Touch(f, "refresh-failed")
      BY <2>2 DEF TokenArrives
    <3> HIDE DEF f
    <3> QED BY <1>2, <3>1, TouchReports, QuietReports DEF Events, IInv
  <2> QED BY <2>1, <2>2
<1>4. g \in Fetch /\ g.by = f.by /\ g.mode = f.mode /\ g.stage = "sent"
  <2> HIDE DEF f
  <2> QED BY <1>2 DEF Fetch, Stages
<1>5. f.mode # "cookie"
  BY <1>1, <1>2 DEF Held
<1>6. ~(Current(f) /\ auth.mode = "cookie")
  BY <1>2, <1>5 DEF Held
<1>7. Held(g)
  BY <1>2, <1>4, <1>5, <1>6 DEF Held, Current
<1>8. OwnOnly
  <2>1. ~Current(f) => auth' = auth
    BY DEF TokenArrives, Touch
  <2> QED BY <1>3, <1>6, <2>1 DEF OwnOnly, Reports, Current
<1>9. /\ carriedOut' \in [Requests -> Nat] /\ carriedOut'[q] = 0 /\ carriedOut'[q] <= 1
      /\ \A p \in Requests : p # q => carriedOut'[p] = carriedOut[p]
      /\ sessionSpent' \in Nat
  BY <1>1, <1>2 DEF IInv, TypeOK
<1> HIDE DEF g
<1> QED BY <1>1, <1>3, <1>4, <1>7, <1>8, <1>9, RequestKeeps

\* The server refuses what was sent without a lease, with an ended one, or with
\* another than the host's; of these only an ended lease can be the one in use.
LEMMA AnswerKeeps ==
  ASSUME IInv, NEW q \in Requests, ServerAnswers(q) \/ LoseAnswer(q)
  PROVE  IInv' /\ OwnOnly
<1> DEFINE f == fetches[q]
<1>1. /\ Sent(f)
      /\ UNCHANGED <<connected, hostAdapter, authEpoch, auth, lastStatus, past, refused, catalog,
                     listings, catalogFailed>>
  BY DEF ServerAnswers, LoseAnswer
<1>2. sessionSpent' \in Nat
  BY DEF ServerAnswers, LoseAnswer, Spend, IInv, TypeOK
<1>3. /\ f \in Fetch /\ Held(f) /\ carriedOut[q] = 0
      /\ f.stage \in {"sent", "resent"} /\ f.reply = "none" /\ f # None
  BY <1>1 DEF Sent, IInv, TypeOK, LeasesAreKnown, CarriedOutOnce, MaySend
<1>4. carriedOut' = carriedOut \/ CarryOut(q, f)
  BY DEF ServerAnswers, LoseAnswer
<1>5. PICK reply \in {"ok", "denied", "lost"} :
        /\ fetches' = [fetches EXCEPT ![q] = [f EXCEPT !.reply = reply]]
        /\ reply = "denied" => Refuses(f) /\ carriedOut' = carriedOut
  BY DEF ServerAnswers, LoseAnswer, Put
<1> DEFINE g == [f EXCEPT !.reply = reply]
<1>6. /\ fetches' = [fetches EXCEPT ![q] = g]
      /\ reply = "denied" => Refuses(f) /\ carriedOut' = carriedOut
  BY <1>5
<1> HIDE DEF f
<1>7. /\ g \in Fetch /\ g.by = f.by /\ g.mode = f.mode /\ g.stage = f.stage /\ g.kind = f.kind
      /\ g.renewals = f.renewals /\ g.lease = f.lease /\ g.reply = reply
  BY <1>3, <1>5 DEF Fetch
<1> HIDE DEF g
<1>8. Held(g)
  <2>1. ASSUME Current(f), auth.mode = "cookie", f.renewals = auth.renewals, reply = "denied"
        PROVE  f.lease \in refused \union past
    <3>1. f.lease = auth.adapter
      BY <1>3, <2>1 DEF Held
    <3>2. connected /\ hostAdapter = auth.adapter /\ auth.adapter # None
      BY <2>1 DEF IInv, SessionFollowsHost, ModeOf, TypeOK
    <3> QED BY <1>6, <2>1, <3>1, <3>2 DEF Refuses
  <2> QED BY <1>3, <1>7, <2>1 DEF Held, Current
<1>9. /\ carriedOut' \in [Requests -> Nat] /\ carriedOut'[q] <= 1
      /\ \A p \in Requests : p # q => carriedOut'[p] = carriedOut[p]
      /\ (f.kind = "read" => carriedOut'[q] = 0)
      /\ (carriedOut' = carriedOut => carriedOut'[q] = 0)
  BY <1>3, <1>4 DEF CarryOut, IInv, TypeOK
<1>10. MaySend(g) => carriedOut'[q] = 0
  <2>1. CASE f.kind = "read"
    BY <1>9, <2>1
  <2>2. CASE f.kind # "read"
    BY <1>3, <1>6, <1>7, <1>9, <2>2, NoneIsNoFetch DEF MaySend
  <2> QED BY <2>1, <2>2
<1>11. Reports /\ OwnOnly
  BY <1>1, QuietReports DEF OwnOnly, IInv
<1> QED BY <1>1, <1>2, <1>6, <1>7, <1>8, <1>9, <1>10, <1>11, RequestKeeps

\* A request that ends, or whose body is awaited: it is not sent again.
LEMMA SettledKeeps ==
  ASSUME IInv, NEW q \in Requests, NEW stage \in {"failed", "body", "done"}, fetches[q] # None,
         fetches' = [fetches EXCEPT ![q] = [fetches[q] EXCEPT !.stage = stage]],
         Reports, OwnOnly, sessionSpent' \in Nat,
         UNCHANGED <<connected, hostAdapter, authEpoch, past, refused, carriedOut, catalogFailed>>
  PROVE  IInv' /\ OwnOnly
<1> DEFINE f == fetches[q]
           g == [f EXCEPT !.stage = stage]
<1>1. f \in Fetch /\ Held(f) /\ (f.kind = "read" => carriedOut[q] = 0) /\ carriedOut[q] <= 1
  BY DEF IInv, TypeOK, LeasesAreKnown, CarriedOutOnce, MaySend
<1>2. fetches' = [fetches EXCEPT ![q] = g]
  OBVIOUS
<1> HIDE DEF f
<1>3. /\ g \in Fetch /\ g.by = f.by /\ g.mode = f.mode /\ g.stage = stage /\ g.kind = f.kind
      /\ g.renewals = f.renewals /\ g.lease = f.lease /\ g.reply = f.reply
  BY <1>1 DEF Fetch, Stages
<1> HIDE DEF g
<1>4. Held(g)
  BY <1>1, <1>3 DEF Held, Current
<1>5. MaySend(g) => carriedOut[q] = 0
  BY <1>1, <1>3, NoneIsNoFetch DEF MaySend
<1>6. /\ carriedOut' \in [Requests -> Nat] /\ carriedOut'[q] <= 1
      /\ \A p \in Requests : p # q => carriedOut'[p] = carriedOut[p]
      /\ MaySend(g) => carriedOut'[q] = 0
  BY <1>1, <1>5 DEF IInv, TypeOK
<1> QED BY <1>2, <1>3, <1>4, <1>6, RequestKeeps

\* A report that a request's session ended, under a lease that has.
LEMMA EndReported ==
  ASSUME IInv, NEW f \in Fetch, Touch(f, "refresh-failed"),
         UNCHANGED <<past, refused>>,
         Current(f) /\ auth.mode = "cookie" /\ auth.status = "fresh"
         => auth.adapter \in refused \union past
  PROVE  Reports /\ OwnOnly
<1>1. Reports /\ auth'.status = IF Current(f) THEN "expired" ELSE auth.status
  BY TouchReports DEF Events, ReduceAuthState, IInv
<1> QED BY <1>1 DEF OwnOnly, Reports

\* Its body is read.
LEMMA BodyReadKeeps ==
  ASSUME IInv, NEW q \in Requests, BodyRead(q)
  PROVE  IInv' /\ OwnOnly
<1> DEFINE f == fetches[q]
           ended == f.mode = "cookie"
                    /\ (~Current(f) \/ CookieStatus(auth.adapter, auth.status) # "fresh")
<1>1. /\ f # None /\ fetches' = [fetches EXCEPT ![q] =
                                   [f EXCEPT !.stage = IF ended THEN "failed" ELSE "done"]]
      /\ IF ended THEN Touch(f, "refresh-failed")
         ELSE UNCHANGED <<auth, lastStatus, catalog, listings>>
      /\ UNCHANGED <<connected, hostAdapter, authEpoch, past, refused, carriedOut,
                     catalogFailed, sessionSpent>>
  BY DEF BodyRead, Put
<1>2. f \in Fetch
  BY <1>1 DEF IInv, TypeOK
<1>3. Reports /\ OwnOnly
  <2>1. CASE ended
    <3>1. Current(f) /\ auth.mode = "cookie" /\ auth.status = "fresh"
          => auth.adapter \in refused \union past
      BY <2>1 DEF CookieStatus
    <3>2. Touch(f, "refresh-failed")
      BY <1>1, <2>1
    <3> HIDE DEF f
    <3> QED BY <1>1, <1>2, <3>1, <3>2, EndReported
  <2>2. CASE ~ended
    BY <1>1, <2>2, QuietReports DEF OwnOnly, IInv
  <2> QED BY <2>1, <2>2
<1>4. sessionSpent' \in Nat
  BY <1>1 DEF IInv, TypeOK
<1>5. CASE ended
  BY <1>1, <1>3, <1>4, <1>5, SettledKeeps
<1>6. CASE ~ended
  BY <1>1, <1>3, <1>4, <1>6, SettledKeeps
<1> QED BY <1>5, <1>6

\* Only a read is sent again over a renewed lease.
LEMMA ResendKeeps ==
  ASSUME IInv, NEW q \in Requests, fetches[q] # None, MustResend(fetches[q]),
         Resend(q, fetches[q]), Reports, OwnOnly, sessionSpent' \in Nat,
         UNCHANGED <<connected, hostAdapter, authEpoch, past, refused, carriedOut, catalogFailed>>
  PROVE  IInv' /\ OwnOnly
<1> DEFINE f == fetches[q]
           g == SentWith(f, "resent")
<1>1. f \in Fetch /\ Held(f) /\ f.kind = "read" /\ carriedOut[q] = 0
  BY DEF IInv, TypeOK, LeasesAreKnown, CarriedOutOnce, MaySend, MustResend
<1>2. CASE CookieStatus(auth.adapter, auth.status) = "fresh"
  <2>1. fetches' = [fetches EXCEPT ![q] = g]
    BY <1>2 DEF Resend, Put
  <2> HIDE DEF f
  <2>2. /\ g \in Fetch /\ g.by = f.by /\ g.mode = f.mode /\ g.stage = "resent"
        /\ g.renewals = auth.renewals /\ g.lease = auth.adapter /\ g.reply = "none"
    BY <1>1 DEF SentWith, Fetch, Stages, IInv, TypeOK, AuthObject
  <2> HIDE DEF g
  <2>3. Held(g)
    BY <1>1, <2>2 DEF Held, Current, IInv, TypeOK, AuthObject
  <2>4. /\ carriedOut' \in [Requests -> Nat] /\ carriedOut'[q] <= 1
        /\ \A p \in Requests : p # q => carriedOut'[p] = carriedOut[p]
        /\ MaySend(g) => carriedOut'[q] = 0
    BY <1>1 DEF IInv, TypeOK
  <2> QED BY <2>1, <2>2, <2>3, <2>4, RequestKeeps
<1>3. CASE CookieStatus(auth.adapter, auth.status) # "fresh"
  BY <1>3, SettledKeeps DEF Resend, Put
<1> QED BY <1>2, <1>3

\* authenticatedFetch after a 401: nothing was carried out yet.
LEMMA RetryKeeps ==
  ASSUME IInv, NEW q \in Requests, fetches[q] # None, fetches[q].reply = "denied",
         fetches[q].stage \in {"sent", "resent"},
         RetryOrFail(q, fetches[q]), sessionSpent' \in Nat,
         UNCHANGED <<connected, hostAdapter, authEpoch, past, refused, carriedOut, catalogFailed>>
  PROVE  IInv' /\ OwnOnly
<1> DEFINE f == fetches[q]
           g == [f EXCEPT !.again = TRUE]
<1>1. f \in Fetch /\ Held(f) /\ carriedOut[q] = 0
  BY DEF IInv, TypeOK, LeasesAreKnown, CarriedOutOnce, MaySend
<1>2. CASE f.again
  <2>1. UNCHANGED <<auth, lastStatus, catalog, listings>>
        /\ fetches' = [fetches EXCEPT ![q] = [fetches[q] EXCEPT !.stage = "failed"]]
    BY <1>2 DEF RetryOrFail, Put
  <2>2. Reports /\ OwnOnly
    BY <2>1, QuietReports DEF OwnOnly, IInv
  <2> QED BY <2>1, <2>2, SettledKeeps
<1>3. CASE ~f.again
  <2>1. Ask(q, g)
    BY <1>3 DEF RetryOrFail
  <2> HIDE DEF f
  <2>2. /\ g \in Fetch /\ g.by = f.by /\ g.mode = f.mode
        /\ g.renewals = f.renewals /\ g.lease = f.lease
    BY <1>1 DEF Fetch
  <2> HIDE DEF g
  <2>3. /\ g.by <= auth.id
        /\ Current(g) /\ auth.mode = "cookie" => g.mode = "cookie" /\ g.renewals <= auth.renewals
        /\ Current(g) /\ auth.mode = "cookie" /\ g.renewals = auth.renewals
           => g.lease = auth.adapter
    BY <1>1, <2>2 DEF Held, Current
  <2> QED BY <1>1, <2>1, <2>2, <2>3, AskKeeps
<1> QED BY <1>2, <1>3

\* fetchRequest after the answer.
LEMMA AnswerArrivesKeeps ==
  ASSUME IInv, NEW q \in Requests, AnswerArrives(q)
  PROVE  IInv' /\ OwnOnly
<1> DEFINE f == fetches[q]
           failed == fetches' = [fetches EXCEPT ![q] = [fetches[q] EXCEPT !.stage = "failed"]]
           quiet == UNCHANGED <<auth, lastStatus, catalog, listings>>
<1>1. /\ f # None /\ f.stage \in {"sent", "resent"}
      /\ UNCHANGED <<connected, hostAdapter, authEpoch, past, refused, carriedOut,
                     catalogFailed, sessionSpent>>
      /\ \/ failed /\ quiet
         \/ MustResend(f) /\ Resend(q, f) /\ quiet
         \/ ~Rejected(f) /\ EndsLease(f) /\ failed /\ Touch(f, "refresh-failed")
         \/ f.reply = "denied" /\ RetryOrFail(q, f)
         \/ /\ fetches' = [fetches EXCEPT ![q] = [fetches[q] EXCEPT !.stage = "body"]]
            /\ quiet
  BY DEF AnswerArrives, Put
<1>2. sessionSpent' \in Nat
  BY <1>1 DEF IInv, TypeOK
<1>3. ASSUME quiet PROVE Reports /\ OwnOnly
  BY <1>3, QuietReports DEF OwnOnly, IInv
<1>4. CASE failed /\ quiet
  BY <1>1, <1>2, <1>3, <1>4, SettledKeeps
<1>5. CASE MustResend(f) /\ Resend(q, f) /\ quiet
  BY <1>1, <1>2, <1>3, <1>5, ResendKeeps
<1>6. CASE ~Rejected(f) /\ EndsLease(f) /\ failed /\ Touch(f, "refresh-failed")
  <2>1. f \in Fetch /\ Held(f)
    BY <1>1 DEF IInv, TypeOK, LeasesAreKnown
  <2>2. Current(f) /\ auth.renewals = f.renewals /\ f.reply = "denied"
    BY <1>6 DEF Rejected, EndsLease, Crossed
  <2>3. auth.mode = "cookie" => auth.adapter \in refused \union past
    BY <2>1, <2>2 DEF Held
  <2>4. Reports /\ OwnOnly
    <3> HIDE DEF f
    <3> QED BY <1>1, <1>6, <2>1, <2>3, EndReported
  <2> QED BY <1>1, <1>2, <1>6, <2>4, SettledKeeps
<1>7. CASE f.reply = "denied" /\ RetryOrFail(q, f)
  BY <1>1, <1>2, <1>7, RetryKeeps
<1>8. CASE fetches' = [fetches EXCEPT ![q] = [fetches[q] EXCEPT !.stage = "body"]] /\ quiet
  BY <1>1, <1>2, <1>3, <1>8, SettledKeeps
<1> QED BY <1>1, <1>4, <1>5, <1>6, <1>7, <1>8

\* Every step keeps the invariant, and a session turns expired by its own lease alone.
LEMMA StepKeeps ==
  ASSUME IInv, Next
  PROVE  IInv' /\ OwnOnly
<1>1. CASE Host
  BY <1>1, HostKeeps
<1>2. CASE Human
  BY <1>2, StartRequestKeeps, SignKeeps DEF Human
<1>3. CASE Run
  <2>1. CASE TimerFires
    <3>1. Expire /\ auth.adapter \in past \union LongLeases
      BY <2>1 DEF TimerFires, IInv, SessionFollowsHost
    <3> QED BY <3>1, ExpireKeeps
  <2>2. ASSUME NEW a \in Adapters, ExpiredEvent(a) PROVE IInv' /\ OwnOnly
    BY <2>2, ExpireKeeps DEF ExpiredEvent
  <2> QED BY <1>3, <2>1, <2>2, ConnectKeeps, AnswerArrivesKeeps, BodyReadKeeps DEF Run
<1>4. CASE Network
  BY <1>4, TokenArrivesKeeps, AnswerKeeps, ListingKeeps DEF Network
<1> QED BY <1>1, <1>2, <1>3, <1>4 DEF Next

\* A step that changes nothing keeps the invariant.
LEMMA StutterKeeps ==
  ASSUME IInv, UNCHANGED sessionVars
  PROVE  IInv'
BY DEF sessionVars, IInv, TypeOK, CarriedOutOnce, MaySend, SessionFollowsHost, CatalogIsOwn,
       ListingsAreOwn, LeasesAreKnown, Held, Current, PrincipalOf, ModeOf

-----------------------------------------------------------------------------
(* What is proved *)

\* The inductive invariant: what a request, a listing and the session object
\* know of each other (host-session.ts, studio-client.ts, source-catalog.ts).
THEOREM Invariance == Spec => []IInv
<1>1. IInv /\ [Next]_sessionVars => IInv'
  BY StepKeeps, StutterKeeps
<1> QED BY InitInvariant, <1>1, PTL DEF Spec

\* Every value the session code builds has its type.
THEOREM TypeCorrect == Spec => []TypeOK
<1>1. IInv => TypeOK
  BY DEF IInv
<1> QED BY Invariance, <1>1, PTL

\* A write is carried out at most once, although a refused request is tried
\* again and reads cross renewals (authenticatedFetch, fetchRequest).
THEOREM WriteOnce == Spec => []WritesOnce
<1>1. IInv => WritesOnce
  BY DEF IInv, CarriedOutOnce, WritesOnce
<1> QED BY Invariance, <1>1, PTL

\* What each step of the session may end or show.
LEMMA StepsAreOwn == Spec => [][OwnOnly]_sessionVars
<1>1. IInv /\ [Next]_sessionVars => [OwnOnly]_sessionVars
  BY StepKeeps
<1> QED BY Invariance, <1>1, PTL DEF Spec

\* No host principal's catalog is another's, and a listing is shown to the principal
\* Studio acts for, however late it arrives (#revokeAuthority, #fetchOnce).
THEOREM OwnCatalog == Spec => []CatalogIsOwn /\ ListingsShownAreOwn
<1>1. IInv => CatalogIsOwn
  BY DEF IInv
<1>2. [OwnOnly]_sessionVars =>
        [catalog'.shown \notin {catalog.shown, None}
         => catalog'.shown = PrincipalOf(hostAdapter')]_sessionVars
  BY DEF OwnOnly, PrincipalOf
<1>3. Spec => ListingsShownAreOwn
  BY StepsAreOwn, <1>2, PTL DEF ListingsShownAreOwn
<1> QED BY Invariance, <1>1, <1>3, PTL

\* A session turns expired only by the end of the lease it holds, or by the timer
\* of its own lease when that cannot wait so long, whatever reports the end of a
\* lease it replaced (renewCookie, onExpired, getAccessToken).
THEOREM OwnLeaseEnds == Spec => OnlyOwnLeaseEnds
<1>1. [OwnOnly]_sessionVars =>
        [auth.mode = "cookie" /\ auth'.id = auth.id /\ auth'.mode = "cookie"
         /\ auth.status = "fresh" /\ auth'.status = "expired"
         => auth'.adapter \in past' \union refused' \union LongLeases]_sessionVars
  BY DEF OwnOnly
<1> QED BY StepsAreOwn, <1>1, PTL DEF OnlyOwnLeaseEnds

(***************************************************************************)
(* ActivityLog: no entry takes a number in use.                            *)
(*                                                                         *)
(* Every number of the log, of an export of it and of what is merged from  *)
(* two exports is at most the number of entries ever appended, and the next*)
(* number follows all of the log's.                                        *)
(***************************************************************************)
\* A set of numbers has a least one, and a bounded one its greatest.
LEMMA Least ==
    ASSUME NEW T, T \subseteq Nat, T # {}
    PROVE  \E x \in T : \A y \in T : x <= y
  <1> DEFINE R == OpToRel(<, Nat)
  <1>1. IsWellFoundedOn(R, Nat)
    BY NatLessThanWellFounded
  <1>2. R = {pair \in Nat \X Nat : pair[1] < pair[2]}
    BY DEF OpToRel
  <1> HIDE DEF R
  <1>3. PICK x \in T : \A y \in T : <<y, x>> \notin R
    BY <1>1, WFMin
  <1>4. \A y \in T : ~(y < x)
    BY <1>2, <1>3
  <1> QED
    BY <1>4

\* A bounded set of numbers has its greatest.
LEMMA Greatest ==
    ASSUME NEW b \in Nat, NEW S, S \subseteq 0 .. b, S # {}
    PROVE  Activity!Max(S) \in S /\ \A y \in S : y <= Activity!Max(S)
  <1> DEFINE T == {b - y : y \in S}
  <1>0. \A y \in S : y \in Nat /\ b - y \in Nat
    OBVIOUS
  <1>1. T \subseteq Nat /\ T # {}
    BY <1>0
  <1> HIDE DEF T
  <1>2. PICK x \in T : \A y \in T : x <= y
    BY <1>1, Least
  <1> USE DEF T
  <1>3. PICK z \in S : x = b - z
    BY <1>2
  <1>4. \A y \in S : b - y \in T
    OBVIOUS
  <1>5. \A y \in S : b - z <= b - y
    BY <1>2, <1>3, <1>4
  <1>6. \A y \in S : z >= y
    BY <1>5
  <1> QED
    BY <1>6 DEF Activity!Max

LogEntry == [seq : Nat, at : Nat]

LogTypes ==
  /\ logEntries \in Seq(LogEntry) /\ seq \in Nat /\ appended \in Nat
  /\ exported \subseteq Seq(LogEntry)
  /\ snapshot \in Seq(LogEntry) /\ position \in 0 .. Len(snapshot) /\ replayed \subseteq Nat

Numbered(log) == \A i \in DOMAIN log : log[i].seq <= appended

LogNumbers ==
  /\ seq <= appended
  /\ \A i \in DOMAIN logEntries : logEntries[i].seq <= seq
  /\ \A log \in exported : Numbered(log)

LogInv == LogTypes /\ LogNumbers

\* What a log holds.
LEMMA EntriesAre ==
  ASSUME NEW log \in Seq(LogEntry)
  PROVE  \A i \in DOMAIN log : log[i] \in LogEntry /\ log[i].seq \in Nat /\ log[i].at \in Nat
<1>1. \A i \in DOMAIN log : log[i] \in LogEntry
  <2> HIDE DEF LogEntry
  <2> QED OBVIOUS
<1> QED BY <1>1 DEF LogEntry

\* The last number of a log is the greatest of its entries.
LEMMA LoadedNumbers ==
  ASSUME NEW log \in Seq(LogEntry), appended \in Nat, Numbered(log)
  PROVE  /\ Activity!LastSeq(log) \in 0 .. appended
         /\ \A i \in DOMAIN log : log[i].seq <= Activity!LastSeq(log)
  <1> DEFINE S == {log[i].seq : i \in DOMAIN log} \cup {0}
  <1>1. \A i \in DOMAIN log : log[i] \in LogEntry
    OBVIOUS
  <1>2. \A i \in DOMAIN log : log[i].seq \in 0 .. appended
    BY <1>1 DEF LogEntry, Numbered
  <1>3. S \subseteq 0 .. appended /\ S # {}
    BY <1>2
  <1>4. Activity!Max(S) \in S /\ \A y \in S : y <= Activity!Max(S)
    <2> HIDE DEF S
    <2> QED BY <1>3, Greatest
  <1>5. Activity!LastSeq(log) = Activity!Max(S)
    BY DEF Activity!LastSeq
  <1> QED
    BY <1>3, <1>4, <1>5

\* The log begins empty.
LEMMA LogBegins == Activity!LogInit => LogInv
  BY DEF Activity!LogInit, LogInv, LogTypes, LogNumbers, LogEntry

\* What is merged from two exports has numbers in use.
LEMMA Merged ==
  ASSUME NEW f \in Seq(LogEntry), NEW g \in Seq(LogEntry), f # <<>>, g # <<>>,
         appended \in Nat, Numbered(f), Numbered(g)
  PROVE  <<f[Len(f)], Head(g)>> \in Seq(LogEntry) /\ Numbered(<<f[Len(f)], Head(g)>>)
<1>1. PICK x \in LogEntry : x = f[Len(f)] /\ x.seq <= appended
  <2>1. Len(f) \in DOMAIN f
    OBVIOUS
  <2> QED BY <2>1 DEF Numbered
<1>2. PICK y \in LogEntry : y = g[1] /\ y.seq <= appended
  <2>1. 1 \in DOMAIN g
    OBVIOUS
  <2> QED BY <2>1 DEF Numbered
<1>3. f[Len(f)] = x /\ Head(g) = y
  BY <1>1, <1>2
<1>4. <<x, y>> \in Seq(LogEntry) /\ DOMAIN <<x, y>> = {1, 2}
  <2> HIDE DEF LogEntry
  <2> QED OBVIOUS
<1>5. Numbered(<<x, y>>)
  BY <1>1, <1>2, <1>4 DEF Numbered
<1> QED
  BY <1>3, <1>4, <1>5

\* Every step keeps the invariant.
LEMMA LogKept ==
  LogInv /\ [Activity!LogNext]_Activity!logVars => LogInv'
<1> SUFFICES ASSUME LogInv, [Activity!LogNext]_Activity!logVars PROVE LogInv'
  OBVIOUS
<1> USE DEF LogInv
<1>1. CASE Activity!AppendEntry
  <2>0. appended' = appended + 1 /\ seq' = seq + 1 /\ exported' = exported
        /\ appended' \in Nat /\ seq' \in Nat /\ seq' <= appended'
    BY <1>1 DEF Activity!AppendEntry, LogTypes, LogNumbers
  <2>1. PICK e \in LogEntry : e.seq = seq + 1 /\ logEntries' = Append(logEntries, e)
    <3>1. [seq |-> seq + 1, at |-> appended + 1] \in LogEntry
      BY DEF LogTypes, LogEntry
    <3> QED BY <1>1, <3>1 DEF Activity!AppendEntry
  <2>2. LogTypes'
    <3> HIDE DEF LogEntry
    <3> QED BY <1>1, <2>0, <2>1 DEF Activity!AppendEntry, LogTypes
  <2>3. \A i \in DOMAIN logEntries : logEntries[i].seq \in Nat /\ logEntries[i].seq <= seq
    BY EntriesAre DEF LogTypes, LogNumbers
  <2>4. \A i \in DOMAIN logEntries' : logEntries'[i].seq <= seq'
    <3> HIDE DEF LogEntry
    <3> QED BY <2>0, <2>1, <2>3 DEF LogTypes
  <2>5. \A log \in exported : \A i \in DOMAIN log : log[i].seq \in Nat /\ log[i].seq <= appended
    <3>1. \A log \in exported : log \in Seq(LogEntry) /\ Numbered(log)
      BY DEF LogTypes, LogNumbers
    <3> QED BY <3>1, EntriesAre DEF Numbered
  <2>6. \A log \in exported' : \A i \in DOMAIN log : log[i].seq <= appended'
    BY <2>0, <2>5 DEF LogTypes
  <2> QED BY <2>0, <2>2, <2>4, <2>6 DEF LogNumbers, Numbered
<1>2. CASE Activity!Clear
  BY <1>2 DEF Activity!Clear, LogTypes, LogNumbers, Numbered
<1>3. CASE Activity!Export
  <2>1. LogTypes'
    BY <1>3 DEF Activity!Export, LogTypes
  <2>2. Numbered(logEntries)
    <3>1. \A i \in DOMAIN logEntries : logEntries[i].seq \in Nat
      BY EntriesAre DEF LogTypes
    <3> QED BY <3>1 DEF LogTypes, LogNumbers, Numbered
  <2> QED BY <1>3, <2>1, <2>2 DEF Activity!Export, LogNumbers, Numbered
<1>4. CASE Activity!Import
  <2>1. PICK loaded \in exported : logEntries' = loaded /\ seq' = Activity!LastSeq(loaded)
    BY <1>4 DEF Activity!Import
  <2>2. loaded \in Seq(LogEntry) /\ Numbered(loaded) /\ appended \in Nat
    BY DEF LogTypes, LogNumbers
  <2>3. /\ Activity!LastSeq(loaded) \in 0 .. appended
        /\ \A i \in DOMAIN loaded : loaded[i].seq <= Activity!LastSeq(loaded)
    BY <2>2, LoadedNumbers
  <2> QED
    BY <1>4, <2>1, <2>2, <2>3 DEF Activity!Import, LogTypes, LogNumbers, Numbered
<1>5. CASE Activity!ImportMerged
  <2>1. PICK f \in exported, g \in exported :
           /\ f # <<>> /\ g # <<>>
           /\ logEntries' = <<f[Len(f)], Head(g)>>
                /\ seq' = Activity!LastSeq(<<f[Len(f)], Head(g)>>)
    BY <1>5 DEF Activity!ImportMerged
  <2>2. PICK loaded : loaded = <<f[Len(f)], Head(g)>>
    OBVIOUS
  <2>3. loaded \in Seq(LogEntry) /\ Numbered(loaded) /\ appended \in Nat
    BY <2>1, <2>2, Merged DEF LogTypes, LogNumbers
  <2>4. /\ Activity!LastSeq(loaded) \in 0 .. appended
        /\ \A i \in DOMAIN loaded : loaded[i].seq <= Activity!LastSeq(loaded)
    BY <2>3, LoadedNumbers
  <2>5. logEntries' = loaded /\ seq' = Activity!LastSeq(loaded)
    BY <2>1, <2>2
  <2>6. UNCHANGED <<exported, snapshot, position, replayed, appended>>
    BY <1>5 DEF Activity!ImportMerged
  <2>7. LogTypes'
    BY <2>3, <2>4, <2>5, <2>6 DEF LogTypes
  <2>8. LogNumbers'
    BY <2>4, <2>5, <2>6 DEF LogNumbers, Numbered, LogTypes
  <2> QED
    BY <2>7, <2>8
<1>6. CASE Activity!StartReplay
  BY <1>6 DEF Activity!StartReplay, LogTypes, LogNumbers, Numbered
<1>7. CASE Activity!ReplayNext
  <2>1. snapshot[position + 1] \in LogEntry
    BY <1>7 DEF Activity!ReplayNext, LogTypes
  <2>2. snapshot[position + 1].seq \in Nat
    BY <2>1 DEF LogEntry
  <2>3. LogTypes'
    <3>1. replayed' \subseteq Nat /\ position' \in 0 .. Len(snapshot)
      <4>1. position < Len(snapshot) /\ position' = position + 1
            /\ replayed' = replayed \cup {snapshot[position + 1].seq}
        BY <1>7 DEF Activity!ReplayNext
      <4>2. replayed' \subseteq Nat
        BY <4>1, <2>2 DEF LogTypes
      <4>3. Len(snapshot) \in Nat
        <5> HIDE DEF LogEntry
        <5> QED BY DEF LogTypes
      <4>4. position' \in 0 .. Len(snapshot)
        BY <4>1, <4>3 DEF LogTypes
      <4> QED BY <4>2, <4>4
    <3> HIDE DEF LogEntry
    <3> QED BY <1>7, <3>1 DEF Activity!ReplayNext, LogTypes
  <2> QED BY <1>7, <2>3 DEF Activity!ReplayNext, LogTypes, LogNumbers, Numbered
<1>8. CASE Activity!ResetReplay
  BY <1>8 DEF Activity!ResetReplay, LogTypes, LogNumbers, Numbered
<1>9. CASE UNCHANGED Activity!logVars
  BY <1>9 DEF Activity!logVars, LogTypes, LogNumbers, Numbered
<1> QED
  BY <1>1, <1>2, <1>3, <1>4, <1>5, <1>6, <1>7, <1>8, <1>9 DEF Activity!LogNext

\* An entry is appended under a number no entry has.
LEMMA LogAppends ==
  LogInv /\ Activity!AppendEntry
    => \A i \in DOMAIN logEntries : logEntries[i].seq # logEntries'[Len(logEntries')].seq
<1> SUFFICES ASSUME LogInv, Activity!AppendEntry
             PROVE  \A i \in DOMAIN logEntries :
                      logEntries[i].seq # logEntries'[Len(logEntries')].seq
  OBVIOUS
<1>1. PICK e : e = [seq |-> seq + 1, at |-> appended + 1]
  OBVIOUS
<1>2. logEntries' = Append(logEntries, e) /\ e.seq = seq + 1
  BY <1>1 DEF Activity!AppendEntry
<1>3. logEntries'[Len(logEntries')] = e
  BY <1>2 DEF LogInv, LogTypes
<1>4. \A i \in DOMAIN logEntries : logEntries[i].seq \in Nat /\ logEntries[i].seq <= seq
  BY EntriesAre DEF LogInv, LogTypes, LogNumbers
<1> QED
  BY <1>2, <1>3, <1>4 DEF LogInv, LogTypes

\* The invariant implies the types.
LEMMA LogIsTyped == LogInv => Activity!LogTypeOK
<1> SUFFICES ASSUME LogInv PROVE Activity!LogTypeOK
  OBVIOUS
<1>1. \A i \in DOMAIN logEntries : logEntries[i] \in LogEntry
  BY EntriesAre DEF LogInv, LogTypes
<1> QED
  BY <1>1 DEF LogInv, LogTypes, Activity!LogTypeOK, LogEntry

\* An appended entry takes a number no entry of the log has, whatever exports were loaded and
\* merged before (activity-log.ts).
THEOREM ImportsCollideWithNothing ==
  Activity!LogSpec => []Activity!LogTypeOK /\ Activity!NumbersNeverCollide
<1>1. LogInv /\ [Activity!LogNext]_Activity!logVars
        => [Activity!AppendEntry
              => \A i \in DOMAIN logEntries :
                   logEntries[i].seq # logEntries'[Len(logEntries')].seq]_Activity!logVars
  BY LogAppends
<1> QED
  BY LogBegins, LogKept, LogIsTyped, <1>1, PTL DEF Activity!LogSpec, Activity!NumbersNeverCollide

(***************************************************************************)
(* Chat: the records follow the turns, and a detached session is silent.   *)
(*                                                                         *)
(* A running turn is logged exactly when something settled it, a message of*)
(* a turn shows what its log says last, the history holds a reply for each *)
(* turn the host completed, and an agent speaks in no detached turn.       *)
(***************************************************************************)
ChatMessage == Conversation!MessageShape
EndsAs == {"complete", "error", "cancelled"}
ChatState == [messages : Seq(ChatMessage), pending : SUBSET Notes, streaming : BOOLEAN]
ChatTurn == [agent : BOOLEAN, running : BOOLEAN, aborted : BOOLEAN, settled : BOOLEAN,
             detached : BOOLEAN, log : Seq(EndsAs)]
HistoryEntry == [role : {"user", "assistant"}, of : Nat]

ChatTypes ==
  /\ chat \in ChatState
  /\ messageSeq \in Nat
  /\ chatHistory \in Seq(HistoryEntry)
  /\ \A i \in DOMAIN chatHistory : chatHistory[i].of \in DOMAIN turns
  /\ DOMAIN turns \subseteq 1 .. messageSeq
  /\ turns \in [DOMAIN turns -> ChatTurn]
  /\ activeTurn \in DOMAIN turns \cup {None}
  /\ agentMessage \in DOMAIN turns \cup {None}
  /\ chatAdapter \in BOOLEAN /\ agentPending \in BOOLEAN

\* A running turn has been logged exactly when something settled it.
Sound(turn) ==
  /\ turn.settled \/ ~turn.running => turn.log # <<>>
  /\ turn.running /\ ~turn.settled => turn.log = <<>>
  /\ turn.detached => turn.agent

TurnsSound == \A t \in DOMAIN turns : Sound(turns[t])

LastOf(log) == IF log = <<>> THEN "streaming" ELSE log[Len(log)]

OwnMessage(m) == m.role = "assistant" /\ ~m.hosted

MessagesAgree ==
  \A i \in DOMAIN chat.messages :
     OwnMessage(chat.messages[i]) =>
       /\ chat.messages[i].id \in DOMAIN turns
       /\ chat.messages[i].status = LastOf(turns[chat.messages[i].id].log)

Replied(turn) == ~turn.agent /\ \E k \in DOMAIN turn.log : turn.log[k] = "complete"
RepliesOf(t) == {i \in DOMAIN chatHistory :
                   chatHistory[i].role = "assistant" /\ chatHistory[i].of = t}

HistoryAgrees ==
  \A t \in DOMAIN turns :
     IF Replied(turns[t]) THEN \E i : RepliesOf(t) = {i} ELSE RepliesOf(t) = {}

AgentSpeaks == agentMessage # None => ~turns[agentMessage].detached

ChatInv == ChatTypes /\ TurnsSound /\ MessagesAgree /\ HistoryAgrees /\ AgentSpeaks

-----------------------------------------------------------------------------
(* What the reducer does to a state *)

LEMMA MessageFields ==
  ASSUME NEW m \in ChatMessage
  PROVE  /\ m.id \in Nat /\ m.role \in {"user", "assistant"} /\ m.status \in Conversation!Statuses
         /\ m.notes \in SUBSET Notes /\ m.call \in Conversation!CallStatuses
         /\ m.wrote \in SUBSET Nat /\ m.hosted \in BOOLEAN
  BY DEF ChatMessage, Conversation!MessageShape

\* What a state of the chat holds.
LEMMA StateFields ==
  ASSUME NEW s \in ChatState
  PROVE  /\ s.messages \in Seq(ChatMessage) /\ s.pending \in SUBSET Notes
         /\ s.streaming \in BOOLEAN
         /\ \A i \in DOMAIN s.messages : s.messages[i] \in ChatMessage
<1>1. s.messages \in Seq(ChatMessage) /\ s.pending \in SUBSET Notes /\ s.streaming \in BOOLEAN
  BY DEF ChatState
<1> QED
  BY <1>1

Identity(m) == <<m.id, m.role, m.hosted>>
SameMessage(m, n) == n \in ChatMessage /\ n.id = m.id /\ n.role = m.role /\ n.hosted = m.hosted
SameSaid(m, n) == n.wrote = m.wrote /\ n.call = m.call

\* A stream event leaves a message its id, its turn and its status.
LEMMA Streamed ==
  ASSUME NEW m \in ChatMessage, NEW event \in Conversation!StreamEvents, NEW t \in Nat
  PROVE  LET n == Conversation!ApplyAiEvent(m, event, t) IN SameMessage(m, n)
           /\ n.status = m.status
<1>1. CASE event = "textDelta"
  <2>1. PICK n : n = [m EXCEPT !.wrote = @ \cup {t}]
    OBVIOUS
  <2>2. n \in ChatMessage /\ n.id = m.id /\ n.role = m.role /\ n.hosted = m.hosted
        /\ n.status = m.status
    BY <2>1 DEF ChatMessage, Conversation!MessageShape
  <2>3. Conversation!ApplyAiEvent(m, event, t) = n
    BY <1>1, <2>1 DEF Conversation!ApplyAiEvent
  <2> QED BY <2>2, <2>3 DEF SameMessage
<1>2. ASSUME NEW c \in Conversation!CallStatuses
      PROVE  LET n == [m EXCEPT !.call = c] IN SameMessage(m, n) /\ n.status = m.status
  BY DEF ChatMessage, Conversation!MessageShape, SameMessage
<1>3. SameMessage(m, m)
  BY DEF SameMessage
<1>4. CASE event = "toolCallStart"
  <2>1. "pending" \in Conversation!CallStatuses
    BY DEF Conversation!CallStatuses
  <2> QED BY <1>2, <1>4, <2>1 DEF Conversation!ApplyAiEvent
<1>5. CASE event = "toolCallStop"
  <2>1. "complete" \in Conversation!CallStatuses
    BY DEF Conversation!CallStatuses
  <2> QED BY <1>2, <1>3, <1>5, <2>1 DEF Conversation!ApplyAiEvent, Conversation!UpdateCall
<1> QED BY <1>1, <1>4, <1>5 DEF Conversation!StreamEvents

EndStatus(event) == IF event = "messageStop" THEN "complete" ELSE "error"

\* A message that takes another status keeps everything else it says.
LEMMA Restated ==
  ASSUME NEW m \in ChatMessage, NEW c \in Conversation!Statuses
  PROVE  LET n == [m EXCEPT !.status = c] IN SameMessage(m, n) /\ SameSaid(m, n) /\ n.status = c
  BY DEF ChatMessage, Conversation!MessageShape, SameMessage, SameSaid

\* An end event gives a message its last status.
LEMMA Ended ==
  ASSUME NEW m \in ChatMessage, NEW event \in Conversation!EndEvents, NEW t \in Nat
  PROVE  LET n == Conversation!ApplyAiEvent(m, event, t)
         IN  SameMessage(m, n) /\ SameSaid(m, n) /\ n.status = EndStatus(event)
<1>1. EndStatus(event) \in Conversation!Statuses
  BY DEF EndStatus, Conversation!Statuses
<1>2. Conversation!ApplyAiEvent(m, event, t) = [m EXCEPT !.status = EndStatus(event)]
  BY DEF Conversation!ApplyAiEvent, EndStatus, Conversation!EndEvents
<1> QED BY <1>1, <1>2, Restated

\* A tool call's result leaves a message its status.
LEMMA CallUpdated ==
  ASSUME NEW m \in ChatMessage, NEW c \in Conversation!CallStatuses
  PROVE  LET n == Conversation!UpdateCall(m, c) IN SameMessage(m, n) /\ n.status = m.status
  BY DEF ChatMessage, Conversation!MessageShape, SameMessage, Conversation!UpdateCall

\* s2 differs from s in the messages of one id only, in none of which the identity changes.
SameButFor(s, s2, id) ==
  /\ s2 \in ChatState
  /\ DOMAIN s2.messages = DOMAIN s.messages
  /\ \A i \in DOMAIN s.messages :
       /\ SameMessage(s.messages[i], s2.messages[i])
       /\ s.messages[i].id # id => s2.messages[i] = s.messages[i]

SameSayings(s, s2) == \A i \in DOMAIN s.messages : SameSaid(s.messages[i], s2.messages[i])
SameStatus(s, s2) == \A i \in DOMAIN s.messages : s2.messages[i].status = s.messages[i].status
StatusOf(s, id, status) == \A i \in DOMAIN s.messages : s.messages[i].id = id =>
  s.messages[i].status = status

With(s, messages, streaming) == [s EXCEPT !.messages = messages, !.streaming = streaming]

\* Updating the message of an id leaves the others.
LEMMA Updated ==
  ASSUME NEW s \in ChatState, NEW id \in Nat, NEW updated, NEW streaming \in BOOLEAN,
         DOMAIN updated = DOMAIN s.messages,
         \A i \in DOMAIN s.messages : SameMessage(s.messages[i], updated[i]),
         NEW s2, s2 = With(s, Conversation!UpdateMessage(s.messages, id, updated), streaming)
  PROVE  /\ SameButFor(s, s2, id)
         /\ \A i \in DOMAIN s.messages : s.messages[i].id = id => s2.messages[i] = updated[i]
<1>1. PICK ms : ms = Conversation!UpdateMessage(s.messages, id, updated)
  OBVIOUS
<1>2. s2 = [s EXCEPT !.messages = ms, !.streaming = streaming]
  BY <1>1 DEF With
<1>3. /\ DOMAIN ms = DOMAIN s.messages
      /\ \A i \in DOMAIN s.messages :
           ms[i] = IF s.messages[i].id = id THEN updated[i] ELSE s.messages[i]
  BY <1>1 DEF Conversation!UpdateMessage
<1>4. \A i \in DOMAIN s.messages : ms[i] \in ChatMessage
  BY <1>3, StateFields DEF SameMessage
<1>5. ms \in Seq(ChatMessage)
  <2>1. s.messages \in Seq(ChatMessage)
    BY StateFields
  <2>2. PICK n \in Nat : DOMAIN s.messages = 1 .. n
    BY <2>1
  <2>3. ms = [i \in 1 .. n |-> IF s.messages[i].id = id THEN updated[i] ELSE s.messages[i]]
    BY <1>1, <2>2 DEF Conversation!UpdateMessage
  <2>4. ms \in [1 .. n -> ChatMessage]
    BY <1>3, <1>4, <2>2, <2>3
  <2> HIDE DEF ChatMessage
  <2> QED BY <2>4
<1>6. s2 \in ChatState /\ s2.messages = ms
  BY <1>2, <1>5 DEF ChatState
<1>7. \A i \in DOMAIN s.messages : SameMessage(s.messages[i], ms[i])
  <2>1. \A i \in DOMAIN s.messages : SameMessage(s.messages[i], s.messages[i])
    BY StateFields DEF SameMessage
  <2> QED BY <1>3, <2>1
<1> QED
  BY <1>3, <1>6, <1>7 DEF SameButFor

\* The reducer on a stream event.
LEMMA StreamApplies ==
  ASSUME NEW s \in ChatState, NEW id \in Nat, NEW event \in Conversation!StreamEvents,
           NEW t \in Nat,
         NEW s2, s2 = Conversation!AiEvent(s, id, event, t)
  PROVE  SameButFor(s, s2, id) /\ SameStatus(s, s2)
<1>1. PICK updated : updated =
        [i \in DOMAIN s.messages |-> Conversation!ApplyAiEvent(s.messages[i], event, t)]
  OBVIOUS
<1>2. /\ DOMAIN updated = DOMAIN s.messages
      /\ \A i \in DOMAIN s.messages :
           SameMessage(s.messages[i], updated[i]) /\ updated[i].status = s.messages[i].status
  BY <1>1, StateFields, Streamed
<1>3. PICK streaming \in BOOLEAN : streaming = (s.streaming /\ event \notin Conversation!EndEvents)
  BY StateFields
<1>4. s2 = With(s, Conversation!UpdateMessage(s.messages, id, updated), streaming)
  BY <1>1, <1>3 DEF Conversation!AiEvent, With
<1>5. /\ SameButFor(s, s2, id)
      /\ \A i \in DOMAIN s.messages : s.messages[i].id = id => s2.messages[i] = updated[i]
  <2>1. \A i \in DOMAIN s.messages : SameMessage(s.messages[i], updated[i])
    BY <1>2
  <2>2. DOMAIN updated = DOMAIN s.messages
    BY <1>2
  <2> QED BY <1>4, <2>1, <2>2, Updated
<1> QED
  BY <1>2, <1>5 DEF SameButFor, SameStatus

\* The reducer on an end event.
LEMMA EndApplies ==
  ASSUME NEW s \in ChatState, NEW id \in Nat, NEW event \in Conversation!EndEvents, NEW t \in Nat,
         NEW s2, s2 = Conversation!AiEvent(s, id, event, t)
  PROVE  SameButFor(s, s2, id) /\ SameSayings(s, s2) /\ StatusOf(s2, id, EndStatus(event))
<1>1. PICK updated : updated =
        [i \in DOMAIN s.messages |-> Conversation!ApplyAiEvent(s.messages[i], event, t)]
  OBVIOUS
<1>2. /\ DOMAIN updated = DOMAIN s.messages
      /\ \A i \in DOMAIN s.messages :
           /\ SameMessage(s.messages[i], updated[i]) /\ SameSaid(s.messages[i], updated[i])
           /\ updated[i].status = EndStatus(event)
  BY <1>1, StateFields, Ended
<1>3. PICK streaming \in BOOLEAN : streaming = (s.streaming /\ event \notin Conversation!EndEvents)
  BY StateFields
<1>4. s2 = With(s, Conversation!UpdateMessage(s.messages, id, updated), streaming)
  BY <1>1, <1>3 DEF Conversation!AiEvent, With
<1>5. /\ SameButFor(s, s2, id)
      /\ \A i \in DOMAIN s.messages : s.messages[i].id = id => s2.messages[i] = updated[i]
  <2>1. \A i \in DOMAIN s.messages : SameMessage(s.messages[i], updated[i])
    BY <1>2
  <2>2. DOMAIN updated = DOMAIN s.messages
    BY <1>2
  <2> QED BY <1>4, <2>1, <2>2, Updated
<1>6. SameSayings(s, s2)
  BY <1>2, <1>5 DEF SameButFor, SameSayings, SameSaid
<1>7. StatusOf(s2, id, EndStatus(event))
  BY <1>2, <1>5 DEF SameButFor, StatusOf, SameMessage
<1> QED
  BY <1>5, <1>6, <1>7

\* The reducer on a tool's result.
LEMMA ToolApplies ==
  ASSUME NEW s \in ChatState, NEW id \in Nat, NEW ok \in BOOLEAN,
         NEW s2, s2 = Conversation!ToolResult(s, id, ok)
  PROVE  SameButFor(s, s2, id) /\ SameStatus(s, s2)
<1>1. PICK c \in Conversation!CallStatuses : c = IF ok THEN "complete" ELSE "error"
  BY DEF Conversation!CallStatuses
<1>2. PICK updated : updated =
        [i \in DOMAIN s.messages |-> Conversation!UpdateCall(s.messages[i], c)]
  OBVIOUS
<1>3. /\ DOMAIN updated = DOMAIN s.messages
      /\ \A i \in DOMAIN s.messages :
           SameMessage(s.messages[i], updated[i]) /\ updated[i].status = s.messages[i].status
  BY <1>2, StateFields, CallUpdated
<1>4. PICK ms : ms = Conversation!UpdateMessage(s.messages, id, updated)
  OBVIOUS
<1>5. s2 = [s EXCEPT !.messages = ms]
  BY <1>1, <1>2, <1>4 DEF Conversation!ToolResult
<1>6. [s EXCEPT !.messages = ms] = [s EXCEPT !.messages = ms, !.streaming = s.streaming]
  BY DEF ChatState
<1>7. s2 = With(s, Conversation!UpdateMessage(s.messages, id, updated), s.streaming)
  BY <1>4, <1>5, <1>6 DEF With
<1>8. s.streaming \in BOOLEAN
  BY StateFields
<1>9. /\ SameButFor(s, s2, id)
      /\ \A i \in DOMAIN s.messages : s.messages[i].id = id => s2.messages[i] = updated[i]
  <2>1. \A i \in DOMAIN s.messages : SameMessage(s.messages[i], updated[i])
    BY <1>3
  <2>2. DOMAIN updated = DOMAIN s.messages
    BY <1>3
  <2>3. s.streaming \in BOOLEAN
    BY <1>8
  <2> QED BY <1>7, <1>8, <2>1, <2>2, <2>3, Updated
<1> QED
  BY <1>3, <1>9 DEF SameButFor, SameStatus

\* The reducer on a cancelled turn: a message still streaming ends cancelled.
LEMMA CancelApplies ==
  ASSUME NEW s \in ChatState, NEW id \in Nat,
         NEW s2, s2 = Conversation!TurnCancelled(s, id)
  PROVE  /\ SameButFor(s, s2, id) /\ SameSayings(s, s2)
         /\ \A i \in DOMAIN s.messages :
              s.messages[i].id = id /\ s.messages[i].status = "streaming"
                => s2.messages[i].status = "cancelled"
<1>1. PICK updated : updated =
        [i \in DOMAIN s.messages |->
           [s.messages[i] EXCEPT !.status = IF @ = "streaming" THEN "cancelled" ELSE @]]
  OBVIOUS
<1>2. /\ DOMAIN updated = DOMAIN s.messages
      /\ \A i \in DOMAIN s.messages :
           /\ SameMessage(s.messages[i], updated[i]) /\ SameSaid(s.messages[i], updated[i])
           /\ s.messages[i].status = "streaming" => updated[i].status = "cancelled"
  <2>1. DOMAIN updated = DOMAIN s.messages
    BY <1>1
  <2>2. ASSUME NEW i \in DOMAIN s.messages
        PROVE  /\ SameMessage(s.messages[i], updated[i]) /\ SameSaid(s.messages[i], updated[i])
               /\ s.messages[i].status = "streaming" => updated[i].status = "cancelled"
    <3>1. PICK m \in ChatMessage : m = s.messages[i]
      BY StateFields
    <3>2. PICK c \in Conversation!Statuses : c = IF m.status = "streaming" THEN "cancelled"
                 ELSE m.status
      BY MessageFields DEF Conversation!Statuses
    <3>3. updated[i] = [m EXCEPT !.status = c]
      BY <1>1, <3>1, <3>2
    <3> QED BY <3>1, <3>2, <3>3, Restated
  <2> QED BY <2>1, <2>2
<1>3. PICK streaming \in BOOLEAN : streaming = FALSE
  OBVIOUS
<1>4. s2 = With(s, Conversation!UpdateMessage(s.messages, id, updated), streaming)
  BY <1>1, <1>3 DEF Conversation!TurnCancelled, With
<1>5. /\ SameButFor(s, s2, id)
      /\ \A i \in DOMAIN s.messages : s.messages[i].id = id => s2.messages[i] = updated[i]
  <2>1. \A i \in DOMAIN s.messages : SameMessage(s.messages[i], updated[i])
    BY <1>2
  <2>2. DOMAIN updated = DOMAIN s.messages
    BY <1>2
  <2> QED BY <1>4, <2>1, <2>2, Updated
<1>6. SameSayings(s, s2)
  BY <1>2, <1>5 DEF SameButFor, SameSayings, SameSaid
<1> QED
  BY <1>2, <1>5, <1>6

\* The next id of a message is in use nowhere.
LEMMA IdsAreFree ==
  ASSUME NEW after \in Nat, NEW ms \in Seq(ChatMessage), NEW n,
         n = Conversation!NextMessageId(after, ms)
  PROVE  n \in Nat /\ after < n /\ \A i \in DOMAIN ms : ms[i].id # n
<1> DEFINE ids == (after + 1) .. (after + 1 + Len(ms))
           free == {k \in ids : \A i \in DOMAIN ms : ms[i].id # k}
<1>0. Len(ms) \in Nat /\ DOMAIN ms = 1 .. Len(ms)
  <2> HIDE DEF ChatMessage
  <2> QED OBVIOUS
<1>1. free # {}
  <2> SUFFICES ASSUME free = {} PROVE FALSE
    OBVIOUS
  <2>1. \A k \in ids : \E i \in DOMAIN ms : ms[i].id = k
    OBVIOUS
  <2> DEFINE f == [k \in ids |-> CHOOSE i \in DOMAIN ms : ms[i].id = k]
  <2>2. f \in [ids -> DOMAIN ms] /\ \A k \in ids : ms[f[k]].id = k
    BY <2>1
  <2>3. IsFiniteSet(DOMAIN ms) /\ Cardinality(DOMAIN ms) = Len(ms)
    <3>1. IsFiniteSet(1 .. Len(ms))
          /\ Cardinality(1 .. Len(ms)) = IF 1 > Len(ms) THEN 0 ELSE Len(ms) - 1 + 1
      <4>1. 1 \in Int /\ Len(ms) \in Int
        BY <1>0
      <4> QED BY <4>1, FS_Interval
    <3> QED BY <1>0, <3>1
  <2>4. IsFiniteSet(ids) /\ Cardinality(ids) = Len(ms) + 1
    <3>1. after + 1 \in Int /\ after + 1 + Len(ms) \in Int
      BY <1>0
    <3>2. /\ IsFiniteSet(ids)
          /\ Cardinality(ids) = IF after + 1 > after + 1 + Len(ms) THEN 0
                                ELSE (after + 1 + Len(ms)) - (after + 1) + 1
      BY <3>1, FS_Interval
    <3> QED BY <1>0, <3>2
  <2>5. Cardinality(DOMAIN ms) < Cardinality(ids)
    BY <1>0, <2>3, <2>4
  <2> HIDE DEF f, ids
  <2>6. \E x, y \in ids : x # y /\ f[x] = f[y]
    BY <2>2, <2>3, <2>4, <2>5, FS_PigeonHole
  <2> QED BY <2>2, <2>6
<1>2. free \subseteq Nat
  BY <1>0
<1>3. n = Conversation!Min(free)
  BY DEF Conversation!NextMessageId
<1>4. \E x \in free : \A y \in free : x <= y
  <2> HIDE DEF free
  <2> QED BY <1>1, <1>2, Least
<1>5. n \in free
  <2> HIDE DEF free
  <2> QED BY <1>3, <1>4 DEF Conversation!Min
<1> QED
  BY <1>0, <1>5

-----------------------------------------------------------------------------
(* A turn's end *)

LEMMA LogGrows ==
  ASSUME NEW log \in Seq(EndsAs), NEW e \in EndsAs, NEW more, more = Append(log, e)
  PROVE  /\ more \in Seq(EndsAs) /\ more # <<>> /\ LastOf(more) = e
         /\ (\E k \in DOMAIN more : more[k] = "complete")
              <=> (e = "complete" \/ \E k \in DOMAIN log : log[k] = "complete")
<1> HIDE DEF EndsAs
<1>1. more \in Seq(EndsAs) /\ more # <<>> /\ Len(more) = Len(log) + 1 /\ more[Len(log) + 1] = e
      /\ DOMAIN more = 1 .. Len(log) + 1 /\ DOMAIN log = 1 .. Len(log) /\ Len(log) \in Nat
      /\ \A k \in 1 .. Len(log) : more[k] = log[k]
  OBVIOUS
<1>2. LastOf(more) = e
  BY <1>1 DEF LastOf
<1> QED
  BY <1>1, <1>2

\* u ends as v, with a last word of the log or none.
EndedAs(u, v, word) ==
  /\ v \in ChatTurn /\ v.agent = u.agent /\ v.detached = u.detached
  /\ IF word = "none" THEN v.log = u.log ELSE v.log = Append(u.log, word)
  /\ v.settled \/ ~v.running
  /\ word = "none" => v.log # <<>>

\* A turn that ends once has one more word in its log, and stays sound.
LEMMA EndedIs ==
  ASSUME NEW u \in ChatTurn, NEW v, NEW word \in EndsAs \union {"none"}, EndedAs(u, v, word),
           Sound(u)
  PROVE  /\ v \in ChatTurn /\ Sound(v) /\ v.agent = u.agent /\ v.detached = u.detached
         /\ word # "none" => LastOf(v.log) = word
         /\ word = "none" => LastOf(v.log) = LastOf(u.log)
         /\ Replied(v) <=> Replied(u) \/ (~u.agent /\ word = "complete")
<1>1. u.log \in Seq(EndsAs) /\ u.agent \in BOOLEAN /\ u.detached \in BOOLEAN
  BY DEF ChatTurn
<1>2. CASE word = "none"
  BY <1>1, <1>2 DEF EndedAs, Sound, Replied
<1>3. CASE word \in EndsAs
  <2>0. word # "none"
    BY <1>3 DEF EndsAs
  <2>1. /\ v.log # <<>> /\ LastOf(v.log) = word
        /\ (\E k \in DOMAIN v.log : v.log[k] = "complete")
              <=> (word = "complete" \/ \E k \in DOMAIN u.log : u.log[k] = "complete")
    BY <1>1, <1>3, <2>0, LogGrows DEF EndedAs
  <2>2. Sound(v)
    BY <2>1, <1>1 DEF EndedAs, Sound
  <2>3. Replied(v) <=> Replied(u) \/ (~u.agent /\ word = "complete")
    BY <2>1 DEF Replied, EndedAs
  <2> QED BY <2>0, <2>1, <2>2, <2>3 DEF EndedAs
<1> QED BY <1>2, <1>3

\* The turn t, and only it, ends or is told how it ended; its message follows its log.
EndsTurn(t, v, word) ==
  /\ t \in DOMAIN turns /\ turns' = [turns EXCEPT ![t] = v]
  /\ EndedAs(turns[t], v, word)
  /\ SameButFor(chat, chat', t) /\ SameSayings(chat, chat')
  /\ \A i \in DOMAIN chat.messages :
       OwnMessage(chat.messages[i]) /\ chat.messages[i].id = t
         => chat'.messages[i].status = IF word = "none" THEN chat.messages[i].status ELSE word
  /\ IF word = "complete" /\ ~turns[t].agent
     THEN ~Replied(turns[t])
       /\ chatHistory' = Append(chatHistory, [role |-> "assistant", of |-> t])
     ELSE chatHistory' = chatHistory
  /\ messageSeq' = messageSeq /\ activeTurn' \in {activeTurn, None}
  /\ agentMessage' \in {agentMessage, None}
  /\ chatAdapter' = chatAdapter /\ agentPending' = agentPending

\* What a turn holds.
LEMMA TurnFields ==
  ASSUME ChatTypes, NEW t \in DOMAIN turns
  PROVE  /\ turns[t] \in ChatTurn /\ turns[t].log \in Seq(EndsAs) /\ t \in Nat
              /\ chat \in ChatState
         /\ turns[t].agent \in BOOLEAN /\ turns[t].running \in BOOLEAN
              /\ turns[t].settled \in BOOLEAN
         /\ turns[t].detached \in BOOLEAN /\ turns[t].aborted \in BOOLEAN
<1>1. turns[t] \in ChatTurn
  BY DEF ChatTypes
<1> QED
  BY <1>1 DEF ChatTypes, ChatTurn

\* A turn that settles ends with its word.
LEMMA SettledTurn ==
  ASSUME NEW u \in ChatTurn, NEW word \in EndsAs, NEW v,
         v = [u EXCEPT !.settled = TRUE, !.log = Append(@, word)]
  PROVE  EndedAs(u, v, word) /\ v.running = u.running /\ v.settled = TRUE
<1>0. u.log \in Seq(EndsAs)
  BY DEF ChatTurn
<1>1. PICK log \in Seq(EndsAs) : log = Append(u.log, word)
  <2> HIDE DEF EndsAs
  <2>1. Append(u.log, word) \in Seq(EndsAs)
    BY <1>0
  <2> QED BY <2>1
<1>2. v = [u EXCEPT !.settled = TRUE, !.log = log]
  BY <1>1 DEF ChatTurn
<1>3. /\ v \in ChatTurn /\ v.agent = u.agent /\ v.detached = u.detached /\ v.running = u.running
      /\ v.log = log /\ v.settled = TRUE
  BY <1>2 DEF ChatTurn
<1> QED
  BY <1>1, <1>3 DEF EndedAs, EndsAs

\* So does one that throws.
LEMMA ThrownTurn ==
  ASSUME NEW u \in ChatTurn, NEW word \in EndsAs, NEW v,
         v = [u EXCEPT !.settled = TRUE, !.running = FALSE, !.log = Append(@, word)]
  PROVE  EndedAs(u, v, word)
<1>0. u.log \in Seq(EndsAs)
  BY DEF ChatTurn
<1>1. PICK log \in Seq(EndsAs) : log = Append(u.log, word)
  <2> HIDE DEF EndsAs
  <2>1. Append(u.log, word) \in Seq(EndsAs)
    BY <1>0
  <2> QED BY <2>1
<1>2. v = [u EXCEPT !.settled = TRUE, !.running = FALSE, !.log = log]
  BY <1>1 DEF ChatTurn
<1>3. /\ v \in ChatTurn /\ v.agent = u.agent /\ v.detached = u.detached
      /\ v.log = log /\ v.settled = TRUE
  BY <1>2 DEF ChatTurn
<1> QED
  BY <1>1, <1>3 DEF EndedAs, EndsAs

\* A turn whose stream closes without a word is cancelled.
LEMMA ClosedTurn ==
  ASSUME NEW u \in ChatTurn, NEW v, v = Conversation!Closed(u), u.settled => u.log # <<>>
  PROVE  EndedAs(u, v, IF u.settled THEN "none" ELSE "cancelled")
<1>1. PICK log \in Seq(EndsAs) : log = IF u.settled THEN u.log ELSE Append(u.log, "cancelled")
  <2>1. u.log \in Seq(EndsAs) /\ "cancelled" \in EndsAs
    BY DEF ChatTurn, EndsAs
  <2> HIDE DEF EndsAs
  <2>2. Append(u.log, "cancelled") \in Seq(EndsAs)
    BY <2>1
  <2> QED BY <2>1, <2>2
<1>2. v = [u EXCEPT !.running = FALSE, !.log = log]
  BY <1>1 DEF ChatTurn, Conversation!Closed
<1>3. /\ v \in ChatTurn /\ v.agent = u.agent /\ v.detached = u.detached
      /\ v.log = log /\ v.running = FALSE
  BY <1>2 DEF ChatTurn
<1> QED
  BY <1>1, <1>3 DEF EndedAs

\* A stream that stops ends its turn.
LEMMA StopEnds ==
  ASSUME ChatInv, NEW t \in DOMAIN turns, Conversation!StreamStops(t)
  PROVE  \E v, word : word \in EndsAs \union {"none"} /\ EndsTurn(t, v, word)
<1>1. PICK u \in ChatTurn : u = turns[t] /\ u.log \in Seq(EndsAs) /\ t \in Nat
           /\ chat \in ChatState
  BY TurnFields DEF ChatInv
<1>2. ~u.agent /\ ~u.settled /\ u.running
  BY <1>1 DEF Conversation!StreamStops, Conversation!Running
<1>3. PICK v : v = [u EXCEPT !.settled = TRUE, !.log = Append(@, "complete")]
  OBVIOUS
<1>4. turns' = [turns EXCEPT ![t] = v]
  BY <1>1, <1>3 DEF Conversation!StreamStops
<1>5. EndedAs(turns[t], v, "complete")
  BY <1>1, <1>3, SettledTurn DEF EndsAs
<1>6. SameButFor(chat, chat', t) /\ SameSayings(chat, chat') /\ StatusOf(chat', t, "complete")
  <2>1. chat' = Conversation!AiEvent(chat, t, "messageStop", t)
    BY DEF Conversation!StreamStops
  <2>2. "messageStop" \in Conversation!EndEvents /\ EndStatus("messageStop") = "complete"
    BY DEF Conversation!EndEvents, EndStatus
  <2> QED BY <1>1, <2>1, <2>2, EndApplies
<1>7. ~Replied(turns[t])
  <2>1. u.log = <<>>
    BY <1>1, <1>2 DEF ChatInv, TurnsSound, Sound
  <2> QED BY <1>1, <2>1 DEF Replied
<1>8. EndsTurn(t, v, "complete")
  BY <1>1, <1>2, <1>4, <1>5, <1>6, <1>7
     DEF EndsTurn, Conversation!StreamStops, StatusOf, SameButFor, SameMessage
<1> QED BY <1>8 DEF EndsAs

\* So does one that reports an error or throws.
LEMMA ErrorEnds ==
  ASSUME ChatInv, NEW t \in DOMAIN turns,
         Conversation!StreamReportsError(t) \/ Conversation!StreamThrows(t)
  PROVE  \E v, word : word \in EndsAs \union {"none"} /\ EndsTurn(t, v, word)
<1>1. PICK u \in ChatTurn : u = turns[t] /\ u.log \in Seq(EndsAs) /\ t \in Nat
           /\ chat \in ChatState
  BY TurnFields DEF ChatInv
<1>4. PICK v : turns' = [turns EXCEPT ![t] = v] /\ EndedAs(turns[t], v, "error")
  <2>1. CASE Conversation!StreamReportsError(t)
    <3>1. PICK v : v = [u EXCEPT !.settled = TRUE, !.log = Append(@, "error")]
      OBVIOUS
    <3>2. turns' = [turns EXCEPT ![t] = v]
      BY <1>1, <2>1, <3>1 DEF Conversation!StreamReportsError
    <3>3. EndedAs(turns[t], v, "error")
      BY <1>1, <3>1, SettledTurn DEF EndsAs
    <3> QED BY <3>2, <3>3
  <2>2. CASE Conversation!StreamThrows(t)
    <3>1. PICK v : v = [u EXCEPT !.settled = TRUE, !.running = FALSE, !.log = Append(@, "error")]
      OBVIOUS
    <3>2. turns' = [turns EXCEPT ![t] = v]
      BY <1>1, <2>2, <3>1 DEF Conversation!StreamThrows
    <3>3. EndedAs(turns[t], v, "error")
      BY <1>1, <3>1, ThrownTurn DEF EndsAs
    <3> QED BY <3>2, <3>3
  <2> QED BY <2>1, <2>2
<1>6. SameButFor(chat, chat', t) /\ SameSayings(chat, chat') /\ StatusOf(chat', t, "error")
  <2>1. chat' = Conversation!AiEvent(chat, t, "error", t)
    BY DEF Conversation!StreamReportsError, Conversation!StreamThrows
  <2>2. "error" \in Conversation!EndEvents /\ EndStatus("error") = "error"
    BY DEF Conversation!EndEvents, EndStatus
  <2> QED BY <1>1, <2>1, <2>2, EndApplies
<1>8. EndsTurn(t, v, "error")
  BY <1>1, <1>4, <1>6
     DEF EndsTurn, Conversation!StreamReportsError, Conversation!StreamThrows,
       Conversation!Released,
         StatusOf, SameButFor, SameMessage
<1> QED BY <1>8 DEF EndsAs

\* The message of a turn nothing settled is cancelled; the message is still streaming.
LEMMA UnsettledApplies ==
  ASSUME ChatInv, NEW t \in DOMAIN turns, turns[t].running, NEW s2,
         s2 = Conversation!Unsettled(chat, turns[t], t)
  PROVE  /\ SameButFor(chat, s2, t) /\ SameSayings(chat, s2)
         /\ \A i \in DOMAIN chat.messages :
              OwnMessage(chat.messages[i]) /\ chat.messages[i].id = t
                => s2.messages[i].status =
                     IF turns[t].settled THEN chat.messages[i].status ELSE "cancelled"
<1>1. chat \in ChatState /\ t \in Nat
  BY TurnFields DEF ChatInv
<1>2. CASE turns[t].settled
  <2>1. s2 = chat
    BY <1>2 DEF Conversation!Unsettled
  <2>2. \A i \in DOMAIN chat.messages : chat.messages[i] \in ChatMessage
    BY <1>1, StateFields
  <2> QED BY <1>1, <1>2, <2>1, <2>2 DEF SameButFor, SameMessage, SameSayings, SameSaid
<1>3. CASE ~turns[t].settled
  <2>1. s2 = Conversation!TurnCancelled(chat, t)
    BY <1>3 DEF Conversation!Unsettled
  <2>2. /\ SameButFor(chat, s2, t) /\ SameSayings(chat, s2)
        /\ \A i \in DOMAIN chat.messages :
             chat.messages[i].id = t /\ chat.messages[i].status = "streaming"
               => s2.messages[i].status = "cancelled"
    BY <1>1, <2>1, CancelApplies
  <2>3. turns[t].log = <<>>
    BY <1>3 DEF ChatInv, TurnsSound, Sound
  <2>4. \A i \in DOMAIN chat.messages :
          OwnMessage(chat.messages[i]) /\ chat.messages[i].id = t
            => chat.messages[i].status = "streaming"
    BY <2>3 DEF ChatInv, MessagesAgree, LastOf
  <2> QED BY <1>3, <2>2, <2>4
<1> QED BY <1>2, <1>3

\* So does the end of a stream.
LEMMA StreamEndsIt ==
  ASSUME ChatInv, NEW t \in DOMAIN turns, Conversation!StreamEnds(t)
  PROVE  \E v, word : word \in EndsAs \union {"none"} /\ EndsTurn(t, v, word)
<1>1. PICK u \in ChatTurn : u = turns[t] /\ u.log \in Seq(EndsAs) /\ t \in Nat
           /\ chat \in ChatState
  BY TurnFields DEF ChatInv
<1>2. ~u.agent /\ u.running /\ Sound(u)
  BY <1>1 DEF Conversation!StreamEnds, Conversation!Running, ChatInv, TurnsSound
<1>3. PICK v : v = Conversation!Closed(u)
  OBVIOUS
<1>4. turns' = [turns EXCEPT ![t] = v]
  BY <1>1, <1>3 DEF Conversation!StreamEnds
<1>5. PICK word : word = IF u.settled THEN "none" ELSE "cancelled"
  OBVIOUS
<1>6. EndedAs(turns[t], v, word)
  BY <1>1, <1>2, <1>3, <1>5, ClosedTurn DEF Sound
<1>7. /\ SameButFor(chat, chat', t) /\ SameSayings(chat, chat')
      /\ \A i \in DOMAIN chat.messages :
              OwnMessage(chat.messages[i]) /\ chat.messages[i].id = t
                => chat'.messages[i].status =
                     IF turns[t].settled THEN chat.messages[i].status ELSE "cancelled"
  <2>1. chat' = Conversation!Unsettled(chat, turns[t], t)
    BY DEF Conversation!StreamEnds
  <2> QED BY <1>1, <1>2, <2>1, UnsettledApplies
<1>8. word \in EndsAs \union {"none"} /\ word # "complete"
  BY <1>5 DEF EndsAs
<1>9. EndsTurn(t, v, word)
  BY <1>1, <1>4, <1>5, <1>6, <1>7, <1>8
     DEF EndsTurn, Conversation!StreamEnds, Conversation!Released
<1> QED BY <1>8, <1>9

\* So does the end of an agent's request.
LEMMA AgentEnds ==
  ASSUME ChatInv, NEW t \in DOMAIN turns, NEW outcome \in {"completed", "cancelled", "failed"},
         Conversation!AgentSettles(t, outcome)
  PROVE  \E v, word : word \in EndsAs \union {"none"} /\ EndsTurn(t, v, word)
<1>1. PICK u \in ChatTurn : u = turns[t] /\ u.log \in Seq(EndsAs) /\ t \in Nat
           /\ chat \in ChatState
  BY TurnFields DEF ChatInv
<1>2. u.agent /\ u.running /\ Sound(u)
  BY <1>1 DEF Conversation!AgentSettles, Conversation!Running, ChatInv, TurnsSound
<1>3. CASE outcome = "cancelled"
  <2>3. PICK v : v = Conversation!Closed(u)
    OBVIOUS
  <2>4. turns' = [turns EXCEPT ![t] = v]
    BY <1>1, <1>3, <2>3 DEF Conversation!AgentSettles
  <2>5. PICK word : word = IF u.settled THEN "none" ELSE "cancelled"
    OBVIOUS
  <2>6. EndedAs(turns[t], v, word)
    BY <1>1, <1>2, <2>3, <2>5, ClosedTurn DEF Sound
  <2>7. /\ SameButFor(chat, chat', t) /\ SameSayings(chat, chat')
        /\ \A i \in DOMAIN chat.messages :
                OwnMessage(chat.messages[i]) /\ chat.messages[i].id = t
                  => chat'.messages[i].status =
                       IF turns[t].settled THEN chat.messages[i].status ELSE "cancelled"
    <3>1. chat' = Conversation!Unsettled(chat, turns[t], t)
      BY <1>3 DEF Conversation!AgentSettles
    <3> QED BY <1>1, <1>2, <3>1, UnsettledApplies
  <2>8. word \in EndsAs \union {"none"} /\ word # "complete"
    BY <2>5 DEF EndsAs
  <2>9. EndsTurn(t, v, word)
    BY <1>1, <2>4, <2>5, <2>6, <2>7, <2>8
       DEF EndsTurn, Conversation!AgentSettles, Conversation!Released
  <2> QED BY <2>8, <2>9
<1>4. CASE outcome # "cancelled"
  <2>1. PICK event, word : /\ event = IF outcome = "completed" THEN "messageStop" ELSE "error"
                           /\ word = IF outcome = "completed" THEN "complete" ELSE "error"
    OBVIOUS
  <2>2. event \in Conversation!EndEvents /\ word \in EndsAs /\ EndStatus(event) = word
    BY <2>1 DEF EndsAs, Conversation!EndEvents, EndStatus
  <2>3. PICK w : w = [u EXCEPT !.settled = TRUE, !.log = Append(@, word)]
    OBVIOUS
  <2>4. EndedAs(u, w, word) /\ w.settled = TRUE /\ w \in ChatTurn
    <3>1. EndedAs(u, w, word) /\ w.settled = TRUE
      BY <1>1, <2>2, <2>3, SettledTurn
    <3> QED BY <3>1 DEF EndedAs
  <2>5. PICK v : v = Conversation!Closed(w)
    OBVIOUS
  <2>6. chat' = Conversation!Unsettled(Conversation!AiEvent(chat, t, event, t), w, t)
        /\ turns' = [turns EXCEPT ![t] = v]
    BY <1>1, <1>4, <2>1, <2>3, <2>5 DEF Conversation!AgentSettles
  <2>7. chat' = Conversation!AiEvent(chat, t, event, t)
    BY <2>4, <2>6 DEF Conversation!Unsettled
  <2>8. SameButFor(chat, chat', t) /\ SameSayings(chat, chat') /\ StatusOf(chat', t, word)
    BY <1>1, <2>2, <2>7, EndApplies
  <2>9. EndedAs(u, v, word)
    <3>1. w.log # <<>> /\ word # "none"
      BY <1>1, <2>2, <2>4, LogGrows DEF EndedAs, EndsAs
    <3>2. EndedAs(w, v, "none")
      BY <2>4, <2>5, <3>1, ClosedTurn
    <3> QED BY <2>4, <3>1, <3>2 DEF EndedAs
  <2>10. EndsTurn(t, v, word)
    BY <1>1, <1>2, <2>2, <2>6, <2>8, <2>9
       DEF EndsTurn, Conversation!AgentSettles, Conversation!Released, StatusOf, SameButFor,
           SameMessage, EndsAs
  <2> QED BY <2>2, <2>10
<1> QED BY <1>3, <1>4

-----------------------------------------------------------------------------
(* The kinds of step *)

\* A message is told something about: one of a turn whose session is not detached.
Tells(id) ==
  /\ id \in Nat /\ (id \in DOMAIN turns => ~turns[id].detached)
  /\ SameButFor(chat, chat', id) /\ SameStatus(chat, chat')
  /\ UNCHANGED <<messageSeq, chatHistory, turns, activeTurn, chatAdapter, agentPending,
       agentMessage>>

SameTurn(u, v) ==
  /\ v \in ChatTurn
  /\ v.agent = u.agent /\ v.running = u.running /\ v.settled = u.settled /\ v.log = u.log

\* Turns are aborted or detached, and sessions change.
Rearranges ==
  /\ DOMAIN turns' = DOMAIN turns /\ turns' \in [DOMAIN turns -> ChatTurn]
  /\ \A t \in DOMAIN turns :
       SameTurn(turns[t], turns'[t]) /\ (turns'[t].detached => turns[t].detached \/ turns[t].agent)
  /\ \/ agentMessage' = None
     \/ /\ agentMessage' = agentMessage
        /\ \A t \in DOMAIN turns : turns'[t].detached = turns[t].detached
  /\ activeTurn' \in {activeTurn, None}
  /\ chatAdapter' \in BOOLEAN /\ agentPending' \in BOOLEAN
  /\ UNCHANGED <<chat, messageSeq, chatHistory>>

\* A stream tells the message of its turn and no other.
LEMMA StreamTells ==
  ASSUME ChatInv, NEW t \in DOMAIN turns, NEW event \in Conversation!StreamEvents,
         Conversation!StreamYields(t, event)
  PROVE  Tells(t)
<1>1. t \in Nat /\ chat \in ChatState
  BY TurnFields DEF ChatInv
<1>2. ~turns[t].agent
  BY DEF Conversation!StreamYields
<1>3. ~turns[t].detached
  BY <1>2 DEF ChatInv, TurnsSound, Sound
<1>4. chat' = Conversation!AiEvent(chat, t, event, t)
  BY DEF Conversation!StreamYields
<1>5. SameButFor(chat, chat', t) /\ SameStatus(chat, chat')
  BY <1>1, <1>4, StreamApplies
<1> QED
  BY <1>1, <1>3, <1>5 DEF Tells, Conversation!StreamYields

\* So does an agent.
LEMMA AgentTells ==
  ASSUME ChatInv, NEW t \in DOMAIN turns, agentMessage # None,
         UNCHANGED <<messageSeq, chatHistory, turns, activeTurn, chatAdapter, agentPending,
           agentMessage>>,
         \/ \E event \in Conversation!StreamEvents :
              chat' = Conversation!AiEvent(chat, agentMessage, event, t)
         \/ \E ok \in BOOLEAN : chat' = Conversation!ToolResult(chat, agentMessage, ok)
  PROVE  Tells(agentMessage)
<1>1. t \in Nat /\ chat \in ChatState
  BY TurnFields DEF ChatInv
<1>2. PICK id \in DOMAIN turns : id = agentMessage
  BY DEF ChatInv, ChatTypes
<1>3. id \in Nat /\ ~turns[id].detached
  BY <1>2, TurnFields DEF ChatInv, AgentSpeaks
<1>4. SameButFor(chat, chat', id) /\ SameStatus(chat, chat')
  <2>1. CASE \E event \in Conversation!StreamEvents :
               chat' = Conversation!AiEvent(chat, id, event, t)
    BY <1>1, <1>3, <2>1, StreamApplies
  <2>2. CASE \E ok \in BOOLEAN : chat' = Conversation!ToolResult(chat, id, ok)
    BY <1>1, <1>3, <2>2, ToolApplies
  <2> QED BY <1>2, <2>1, <2>2
<1> QED
  BY <1>2, <1>3, <1>4 DEF Tells

\* An annotation tells no message.
LEMMA NoteTells ==
  ASSUME ChatInv, NEW note \in Notes,
         Conversation!AddAnnotation(note) \/ Conversation!RemoveAnnotation(note)
  PROVE  Tells(0)
<1>1. chat \in ChatState /\ chat.pending \in SUBSET Notes
  BY StateFields DEF ChatInv, ChatTypes
<1>2. PICK pending \in SUBSET Notes : chat' = [chat EXCEPT !.pending = pending]
  BY <1>1 DEF Conversation!AddAnnotation, Conversation!RemoveAnnotation
<1>3. chat' \in ChatState /\ chat'.messages = chat.messages
  BY <1>1, <1>2 DEF ChatState
<1>4. \A i \in DOMAIN chat.messages : chat.messages[i] \in ChatMessage
  BY <1>1, StateFields
<1>5. SameButFor(chat, chat', 0) /\ SameStatus(chat, chat')
  BY <1>3, <1>4 DEF SameButFor, SameStatus, SameMessage
<1>6. 0 \notin DOMAIN turns
  BY DEF ChatInv, ChatTypes
<1> QED
  BY <1>5, <1>6 DEF Tells, Conversation!AddAnnotation, Conversation!RemoveAnnotation

\* Aborting leaves every turn what it was about and what it said.
LEMMA AbortedIs ==
  ASSUME ChatInv, NEW f, f = Conversation!Aborted
  PROVE  /\ f \in [DOMAIN turns -> ChatTurn]
         /\ \A t \in DOMAIN turns : SameTurn(turns[t], f[t]) /\ f[t].detached = turns[t].detached
<1>1. turns \in [DOMAIN turns -> ChatTurn]
  BY DEF ChatInv, ChatTypes
<1>2. CASE activeTurn = None
  BY <1>1, <1>2 DEF Conversation!Aborted, SameTurn
<1>3. CASE activeTurn # None
  <2>1. PICK a \in DOMAIN turns : a = activeTurn
    BY <1>3 DEF ChatInv, ChatTypes
  <2>2. PICK u \in ChatTurn : u = turns[a]
    BY <1>1
  <2>3. PICK v : v = [u EXCEPT !.aborted = TRUE]
    OBVIOUS
  <2>4. SameTurn(u, v) /\ v.detached = u.detached
    BY <2>3 DEF ChatTurn, SameTurn
  <2>5. f = [turns EXCEPT ![a] = v]
    BY <1>3, <2>1, <2>2, <2>3 DEF Conversation!Aborted
  <2>6. v \in ChatTurn
    BY <2>4 DEF SameTurn
  <2>7. \A t \in DOMAIN turns : SameTurn(turns[t], turns[t])
    BY <1>1 DEF SameTurn
  <2> QED BY <1>1, <2>2, <2>4, <2>5, <2>6, <2>7
<1> QED BY <1>2, <1>3

\* So does detaching, and detaches agents alone.
LEMMA DetachingIs ==
  ASSUME ChatInv, NEW f, f = Conversation!Detaching
  PROVE  /\ f \in [DOMAIN turns -> ChatTurn]
         /\ \A t \in DOMAIN turns :
              /\ SameTurn(turns[t], f[t])
              /\ f[t].detached => turns[t].detached \/ turns[t].agent
<1>1. PICK g : g = Conversation!Aborted
  OBVIOUS
<1>2. /\ g \in [DOMAIN turns -> ChatTurn]
      /\ \A t \in DOMAIN turns : SameTurn(turns[t], g[t]) /\ g[t].detached = turns[t].detached
  BY <1>1, AbortedIs
<1>3. f = [t \in DOMAIN turns |->
             [g[t] EXCEPT !.detached = @ \/ (turns[t].agent /\ turns[t].running)]]
  BY <1>1 DEF Conversation!Detaching
<1>4. ASSUME NEW t \in DOMAIN turns
      PROVE  /\ f[t] \in ChatTurn /\ SameTurn(turns[t], f[t])
             /\ f[t].detached => turns[t].detached \/ turns[t].agent
  <2>1. PICK u \in ChatTurn : u = g[t]
    BY <1>2
  <2>2. PICK d \in BOOLEAN : d = (u.detached \/ (turns[t].agent /\ turns[t].running))
    OBVIOUS
  <2>3. f[t] = [u EXCEPT !.detached = d]
    BY <1>3, <2>1, <2>2
  <2>4. /\ f[t] \in ChatTurn /\ SameTurn(u, f[t]) /\ f[t].detached = d
    BY <2>3 DEF ChatTurn, SameTurn
  <2>5. SameTurn(turns[t], u) /\ u.detached = turns[t].detached
    BY <1>2, <2>1
  <2> QED BY <2>2, <2>4, <2>5 DEF SameTurn
<1> QED
  BY <1>3, <1>4

Rearranging ==
  \/ Conversation!Cancel \/ Conversation!AttachAgentSession \/ Conversation!DetachAgentSession
  \/ Conversation!SetAdapter \/ Conversation!SetAgentSessionPending \/ Conversation!OnDisconnect

\* Cancelling, attaching and detaching an agent, replacing the adapter and disconnecting
\* rearrange the turns.
LEMMA SessionsRearrange == ChatInv /\ Rearranging => Rearranges
<1> SUFFICES ASSUME ChatInv, Rearranging PROVE Rearranges
  OBVIOUS
<1>0. chatAdapter \in BOOLEAN /\ agentPending \in BOOLEAN
  BY DEF ChatInv, ChatTypes
<1>1. CASE Conversation!Cancel \/ Conversation!AttachAgentSession \/ Conversation!OnDisconnect
  <2>1. turns' = Conversation!Aborted
    BY <1>1 DEF Conversation!Cancel, Conversation!AttachAgentSession, Conversation!OnDisconnect
  <2>2. /\ turns' \in [DOMAIN turns -> ChatTurn]
        /\ \A t \in DOMAIN turns : SameTurn(turns[t], turns'[t])
             /\ turns'[t].detached = turns[t].detached
    BY <2>1, AbortedIs
  <2> QED
    BY <1>0, <1>1, <2>2 DEF Rearranges, Conversation!Cancel, Conversation!AttachAgentSession,
       Conversation!OnDisconnect
<1>2. CASE Conversation!DetachAgentSession \/ Conversation!SetAdapter
  <2>1. turns' = Conversation!Detaching /\ agentMessage' = None
    BY <1>2 DEF Conversation!DetachAgentSession, Conversation!SetAdapter, Conversation!AfterDetach
  <2>2. /\ turns' \in [DOMAIN turns -> ChatTurn]
        /\ \A t \in DOMAIN turns :
              /\ SameTurn(turns[t], turns'[t])
              /\ turns'[t].detached => turns[t].detached \/ turns[t].agent
    BY <2>1, DetachingIs
  <2>3. chatAdapter' \in BOOLEAN
    BY <1>0, <1>2 DEF Conversation!DetachAgentSession, Conversation!SetAdapter
  <2> QED
    BY <1>0, <1>2, <2>1, <2>2, <2>3 DEF Rearranges, Conversation!DetachAgentSession,
         Conversation!SetAdapter
<1>3. CASE Conversation!SetAgentSessionPending
  <2>1. turns \in [DOMAIN turns -> ChatTurn]
    BY DEF ChatInv, ChatTypes
  <2>2. \A t \in DOMAIN turns : SameTurn(turns[t], turns[t])
    BY <2>1 DEF SameTurn
  <2>3. agentPending' \in BOOLEAN
    BY <1>0, <1>3 DEF Conversation!SetAgentSessionPending
  <2> QED
    BY <1>0, <1>3, <2>1, <2>2, <2>3 DEF Rearranges, Conversation!SetAgentSessionPending
<1> QED BY <1>1, <1>2, <1>3 DEF Rearranging

-----------------------------------------------------------------------------
(* Preservation *)

LEMMA HistoryGrows ==
  ASSUME NEW h \in Seq(HistoryEntry), NEW e \in HistoryEntry, NEW more, more = Append(h, e)
  PROVE  \E k : /\ k \notin DOMAIN h /\ DOMAIN more = DOMAIN h \union {k} /\ more[k] = e
               /\ more \in Seq(HistoryEntry)
               /\ \A i \in DOMAIN h : more[i] = h[i]
<1> HIDE DEF HistoryEntry
<1>1. Len(h) + 1 \notin DOMAIN h
  OBVIOUS
<1>2. DOMAIN more = DOMAIN h \union {Len(h) + 1}
  OBVIOUS
<1> QED
  BY <1>1, <1>2

\* What a turn tells of its message keeps the invariant.
LEMMA TellingKeeps ==
  ASSUME ChatInv, NEW id, Tells(id)
  PROVE  ChatInv'
<1>1. ChatTypes'
  BY DEF ChatInv, ChatTypes, Tells, SameButFor
<1>2. TurnsSound'
  BY DEF ChatInv, TurnsSound, Tells
<1>3. MessagesAgree'
  BY DEF ChatInv, MessagesAgree, Tells, SameButFor, SameStatus, SameMessage, OwnMessage
<1>4. HistoryAgrees' /\ AgentSpeaks'
  BY DEF ChatInv, HistoryAgrees, AgentSpeaks, Tells, RepliesOf
<1> QED
  BY <1>1, <1>2, <1>3, <1>4 DEF ChatInv

\* So does rearranging.
LEMMA RearrangingKeeps ==
  ASSUME ChatInv, Rearranges
  PROVE  ChatInv'
<1>1. ChatTypes'
  BY DEF ChatInv, ChatTypes, Rearranges
<1>2. TurnsSound'
  BY DEF ChatInv, TurnsSound, Rearranges, SameTurn, Sound
<1>3. MessagesAgree'
  BY DEF ChatInv, MessagesAgree, Rearranges, SameTurn
<1>4. HistoryAgrees'
  <2>1. \A t \in DOMAIN turns : Replied(turns[t]) <=> Replied(turns'[t])
    BY DEF Rearranges, SameTurn, Replied
  <2>2. \A t : RepliesOf(t)' = RepliesOf(t)
    BY DEF Rearranges, RepliesOf
  <2>3. DOMAIN turns' = DOMAIN turns
    BY DEF Rearranges
  <2> QED BY <2>1, <2>2, <2>3 DEF ChatInv, HistoryAgrees, Replied
<1>5. AgentSpeaks'
  BY DEF ChatInv, ChatTypes, AgentSpeaks, Rearranges
<1> QED
  BY <1>1, <1>2, <1>3, <1>4, <1>5 DEF ChatInv

\* So does the end of a turn.
LEMMA EndingKeeps ==
  ASSUME ChatInv, NEW t, NEW v, NEW word \in EndsAs \union {"none"}, EndsTurn(t, v, word)
  PROVE  ChatInv'
<1>0. t \in DOMAIN turns /\ t \in Nat /\ turns[t] \in ChatTurn /\ Sound(turns[t])
  BY TurnFields DEF ChatInv, TurnsSound, EndsTurn
<1>1. /\ DOMAIN turns' = DOMAIN turns /\ turns'[t] = v
      /\ \A x \in DOMAIN turns : x # t => turns'[x] = turns[x]
  BY DEF EndsTurn, ChatInv, ChatTypes
<1>2. /\ v \in ChatTurn /\ Sound(v) /\ v.agent = turns[t].agent /\ v.detached = turns[t].detached
      /\ word # "none" => LastOf(v.log) = word
      /\ word = "none" => LastOf(v.log) = LastOf(turns[t].log)
      /\ Replied(v) <=> Replied(turns[t]) \/ (~turns[t].agent /\ word = "complete")
  BY <1>0, EndedIs DEF EndsTurn
<1>3. ChatTypes'
  <2>1. turns' \in [DOMAIN turns' -> ChatTurn]
    BY <1>1, <1>2 DEF EndsTurn, ChatInv, ChatTypes
  <2>2. chatHistory' \in Seq(HistoryEntry)
        /\ \A i \in DOMAIN chatHistory' : chatHistory'[i].of \in DOMAIN turns'
    <3>1. CASE chatHistory' = chatHistory
      BY <1>1, <3>1 DEF ChatInv, ChatTypes
    <3>2. CASE chatHistory' # chatHistory
      <4>1. PICK e : e = [role |-> "assistant", of |-> t]
        OBVIOUS
      <4>2. chatHistory' = Append(chatHistory, e)
        BY <3>2, <4>1 DEF EndsTurn
      <4>3. e \in HistoryEntry /\ e.of = t
        BY <1>0, <4>1 DEF HistoryEntry
      <4>4. chatHistory \in Seq(HistoryEntry)
        BY DEF ChatInv, ChatTypes
      <4>5. PICK k : /\ DOMAIN chatHistory' = DOMAIN chatHistory \union {k} /\ chatHistory'[k] = e
                     /\ chatHistory' \in Seq(HistoryEntry)
                     /\ \A i \in DOMAIN chatHistory : chatHistory'[i] = chatHistory[i]
        BY <4>2, <4>3, <4>4, HistoryGrows
      <4> QED BY <1>0, <1>1, <4>3, <4>5 DEF ChatInv, ChatTypes
    <3> QED BY <3>1, <3>2
  <2>3. chat' \in ChatState
    BY DEF EndsTurn, SameButFor
  <2> QED BY <1>1, <2>1, <2>2, <2>3 DEF EndsTurn, ChatInv, ChatTypes
<1>4. TurnsSound'
  BY <1>1, <1>2 DEF ChatInv, TurnsSound
<1>5. MessagesAgree'
  <2> SUFFICES ASSUME NEW i \in DOMAIN chat'.messages, OwnMessage(chat'.messages[i])
               PROVE  /\ chat'.messages[i].id \in DOMAIN turns'
                      /\ chat'.messages[i].status = LastOf(turns'[chat'.messages[i].id].log)
    BY DEF MessagesAgree
  <2>1. /\ i \in DOMAIN chat.messages /\ OwnMessage(chat.messages[i])
        /\ chat'.messages[i].id = chat.messages[i].id
        /\ chat.messages[i].id # t => chat'.messages[i] = chat.messages[i]
    BY DEF EndsTurn, SameButFor, SameMessage, OwnMessage
  <2>2. /\ chat.messages[i].id \in DOMAIN turns
        /\ chat.messages[i].status = LastOf(turns[chat.messages[i].id].log)
    BY <2>1 DEF ChatInv, MessagesAgree
  <2>3. CASE chat.messages[i].id = t
    BY <1>1, <1>2, <2>1, <2>2, <2>3 DEF EndsTurn
  <2> QED BY <1>1, <2>1, <2>2, <2>3
<1>6. HistoryAgrees'
  <2>1. CASE word = "complete" /\ ~turns[t].agent
    <3>1. PICK e : e = [role |-> "assistant", of |-> t]
      OBVIOUS
    <3>2. chatHistory' = Append(chatHistory, e) /\ ~Replied(turns[t]) /\ Replied(v)
      BY <1>2, <2>1, <3>1 DEF EndsTurn
    <3>3. e \in HistoryEntry /\ e.of = t /\ e.role = "assistant"
      BY <1>0, <3>1 DEF HistoryEntry
    <3>4. chatHistory \in Seq(HistoryEntry)
      BY DEF ChatInv, ChatTypes
    <3>5. PICK k : /\ DOMAIN chatHistory' = DOMAIN chatHistory \union {k} /\ chatHistory'[k] = e
                   /\ k \notin DOMAIN chatHistory
                   /\ \A i \in DOMAIN chatHistory : chatHistory'[i] = chatHistory[i]
      BY <3>2, <3>3, <3>4, HistoryGrows
    <3>6. RepliesOf(t) = {}
      BY <1>0, <3>2 DEF ChatInv, HistoryAgrees
    <3>7. RepliesOf(t)' = {k}
      BY <3>3, <3>5, <3>6 DEF RepliesOf
    <3>8. \A x : x # t => RepliesOf(x)' = RepliesOf(x)
      BY <3>3, <3>5 DEF RepliesOf
    <3>9. \A x \in DOMAIN turns : x # t =>
             IF Replied(turns[x]) THEN \E i : RepliesOf(x) = {i} ELSE RepliesOf(x) = {}
      BY DEF ChatInv, HistoryAgrees
    <3>10. ASSUME NEW x \in DOMAIN turns
           PROVE  IF Replied(turns'[x]) THEN \E i : RepliesOf(x)' = {i} ELSE RepliesOf(x)' = {}
      <4>1. CASE x = t
        BY <1>1, <3>2, <3>7, <4>1
      <4>2. CASE x # t
        BY <1>1, <3>8, <3>9, <4>2
      <4> QED BY <4>1, <4>2
    <3> QED BY <1>1, <3>10 DEF HistoryAgrees, Replied
  <2>2. CASE ~(word = "complete" /\ ~turns[t].agent)
    <3>1. chatHistory' = chatHistory /\ (Replied(v) <=> Replied(turns[t]))
      BY <1>2, <2>2 DEF EndsTurn
    <3>2. \A x : RepliesOf(x)' = RepliesOf(x)
      BY <3>1 DEF RepliesOf
    <3>3. \A x \in DOMAIN turns : Replied(turns'[x]) <=> Replied(turns[x])
      BY <1>1, <3>1
    <3> QED BY <1>1, <3>2, <3>3 DEF ChatInv, HistoryAgrees, Replied
  <2> QED BY <2>1, <2>2
<1>7. AgentSpeaks'
  BY <1>1, <1>2 DEF ChatInv, ChatTypes, AgentSpeaks, EndsTurn
<1> QED
  BY <1>3, <1>4, <1>5, <1>6, <1>7 DEF ChatInv

\* So does the conversation a workspace brings, whose messages are the host's.
LEMMA HostingKeeps ==
  ASSUME ChatInv, Conversation!SetWorkspaceConversation
  PROVE  /\ ChatInv'
         /\ \A i \in DOMAIN chat'.messages : chat'.messages[i].hosted
<1>1. PICK n \in 0 .. Conversation!Cardinality(Hosted), role \in {"user", "assistant"} :
        \E ids \in Conversation!Injection(1 .. n, Hosted) :
         chat' = [chat EXCEPT !.messages =
                    [i \in 1 .. n |-> Conversation!Message(ids[i], role, "complete", {}, TRUE)]]
  BY DEF Conversation!SetWorkspaceConversation
<1>2. PICK ids \in [1 .. n -> Hosted] :
         chat' = [chat EXCEPT !.messages =
                    [i \in 1 .. n |-> Conversation!Message(ids[i], role, "complete", {}, TRUE)]]
  BY <1>1 DEF Conversation!Injection
<1>3. PICK ms : ms = [i \in 1 .. n |-> Conversation!Message(ids[i], role, "complete", {}, TRUE)]
  OBVIOUS
<1>4. ASSUME NEW i \in 1 .. n
      PROVE  ms[i] \in ChatMessage /\ ms[i].hosted = TRUE
  <2>1. ids[i] \in Nat
    BY <1>2, ConversationAssumption
  <2>2. ms[i] = [id |-> ids[i], role |-> role, status |-> "complete", notes |-> {},
          call |-> "none",
                 wrote |-> {}, hosted |-> TRUE]
    BY <1>3 DEF Conversation!Message
  <2> QED
    BY <2>1, <2>2 DEF ChatMessage, Conversation!MessageShape, Conversation!Statuses,
                      Conversation!CallStatuses
<1>5. ms \in Seq(ChatMessage) /\ DOMAIN ms = 1 .. n
  <2>1. n \in Nat
    OBVIOUS
  <2>2. ms \in [1 .. n -> ChatMessage]
    BY <1>3, <1>4
  <2> HIDE DEF ChatMessage
  <2> QED BY <2>1, <2>2
<1>6. chat \in ChatState
  BY DEF ChatInv, ChatTypes
<1>7. chat' \in ChatState /\ chat'.messages = ms
  BY <1>2, <1>3, <1>5, <1>6 DEF ChatState
<1>8. \A i \in DOMAIN chat'.messages : chat'.messages[i].hosted
  BY <1>4, <1>5, <1>7
<1>9. UNCHANGED <<messageSeq, chatHistory, turns, activeTurn, chatSession, chatAdapter,
        agentPending,
                  agentMessage>>
  BY DEF Conversation!SetWorkspaceConversation
<1>10. ChatTypes'
  BY <1>7, <1>9 DEF ChatInv, ChatTypes
<1>11. MessagesAgree'
  BY <1>8 DEF MessagesAgree, OwnMessage
<1>12. TurnsSound' /\ AgentSpeaks'
  BY <1>9 DEF ChatInv, TurnsSound, AgentSpeaks
<1>13. HistoryAgrees'
  BY <1>9 DEF ChatInv, HistoryAgrees, RepliesOf
<1> QED
  BY <1>8, <1>10, <1>11, <1>12, <1>13 DEF ChatInv

\* Chat counts as the proof does.
LEMMA SameCount == \A S : Conversation!Cardinality(S) = Cardinality(S)
  BY DEF Conversation!Cardinality, Cardinality

\* Sending starts a turn with a message of its own, and leaves the others.
LEMMA SendKeeps ==
  ASSUME ChatInv, Conversation!Send
  PROVE  /\ ChatInv'
         /\ \A i \in DOMAIN chat.messages : chat'.messages[i] = chat.messages[i]
<1>1. PICK user, sent, reply :
        /\ user = Conversation!NextMessageId(messageSeq, chat.messages)
        /\ sent = Conversation!UserMessageSent(chat, user)
        /\ reply = Conversation!NextMessageId(user, sent.messages)
  OBVIOUS
<1>2. /\ chat' = Conversation!AssistantTurnStarted(sent, reply)
      /\ messageSeq' = reply
      /\ chatHistory' = IF Conversation!HasAgent THEN chatHistory
                        ELSE Append(chatHistory, [role |-> "user", of |-> reply])
      /\ turns' = [t \in DOMAIN turns \cup {reply} |->
                     IF t = reply THEN Conversation!Turn(Conversation!HasAgent) ELSE turns[t]]
      /\ activeTurn' = reply
      /\ agentMessage' = IF Conversation!HasAgent THEN reply ELSE agentMessage
      /\ UNCHANGED <<chatSession, chatAdapter, agentPending, chatSpent>>
  BY <1>1 DEF Conversation!Send
<1>3. chat \in ChatState /\ chat.messages \in Seq(ChatMessage) /\ chat.pending \in SUBSET Notes
  BY StateFields DEF ChatInv, ChatTypes
<1>4. user \in Nat /\ messageSeq < user
  BY <1>1, <1>3, IdsAreFree DEF ChatInv, ChatTypes
<1>5. PICK m : m = Conversation!Message(user, "user", "complete", chat.pending, FALSE)
  OBVIOUS
<1>6. m \in ChatMessage /\ ~OwnMessage(m)
  BY <1>3, <1>4, <1>5 DEF Conversation!Message, ChatMessage, Conversation!MessageShape, OwnMessage,
     Conversation!Statuses, Conversation!CallStatuses
<1>7. PICK ms : ms = Append(chat.messages, m)
  OBVIOUS
<1>8. PICK none \in SUBSET Notes : none = {}
  OBVIOUS
<1>9. sent = [chat EXCEPT !.messages = ms, !.pending = none]
  BY <1>1, <1>5, <1>7, <1>8, <1>3 DEF Conversation!UserMessageSent, ChatState
<1>10. ms \in Seq(ChatMessage)
  <2> HIDE DEF ChatMessage
  <2> QED BY <1>3, <1>6, <1>7
<1>11. sent \in ChatState /\ sent.messages = ms
  BY <1>3, <1>9, <1>10 DEF ChatState
<1>12. reply \in Nat /\ user < reply
  BY <1>1, <1>4, <1>10, <1>11, IdsAreFree
<1>13. PICK a : a = Conversation!Message(reply, "assistant", "streaming", {}, FALSE)
  OBVIOUS
<1>14. a \in ChatMessage /\ a.id = reply /\ a.status = "streaming"
  BY <1>12, <1>13 DEF Conversation!Message, ChatMessage, Conversation!MessageShape,
     Conversation!Statuses, Conversation!CallStatuses
<1>15. PICK all : all = Append(ms, a)
  OBVIOUS
<1>16. PICK yes \in BOOLEAN : yes = TRUE
  OBVIOUS
<1>17. chat' = [sent EXCEPT !.messages = all, !.streaming = yes]
  BY <1>2, <1>11, <1>13, <1>15, <1>16 DEF Conversation!AssistantTurnStarted, ChatState
<1>18. /\ all \in Seq(ChatMessage)
       /\ \A i \in DOMAIN chat.messages : i \in DOMAIN all /\ all[i] = chat.messages[i]
       /\ \A i \in DOMAIN all : i \in DOMAIN chat.messages \/ all[i] = m \/ all[i] = a
  <2> HIDE DEF ChatMessage
  <2>1. Len(ms) = Len(chat.messages) + 1 /\ ms[Len(chat.messages) + 1] = m
        /\ Len(chat.messages) \in Nat /\ DOMAIN chat.messages = 1 .. Len(chat.messages)
        /\ \A i \in 1 .. Len(chat.messages) : ms[i] = chat.messages[i]
    BY <1>3, <1>6, <1>7
  <2>2. all \in Seq(ChatMessage) /\ DOMAIN all = 1 .. Len(ms) + 1 /\ all[Len(ms) + 1] = a
        /\ \A i \in 1 .. Len(ms) : all[i] = ms[i]
    BY <1>10, <1>14, <1>15
  <2> QED BY <2>1, <2>2
<1>19. chat' \in ChatState /\ chat'.messages = all
  BY <1>11, <1>16, <1>17, <1>18 DEF ChatState
<1>20. reply \notin DOMAIN turns /\ messageSeq < reply /\ messageSeq \in Nat
  BY <1>4, <1>12 DEF ChatInv, ChatTypes
<1>21. PICK v : v = Conversation!Turn(Conversation!HasAgent)
  OBVIOUS
<1>22. v \in ChatTurn /\ Sound(v) /\ ~v.detached /\ v.log = <<>> /\ ~Replied(v)
  <2>1. PICK agent \in BOOLEAN : agent = Conversation!HasAgent
    BY DEF Conversation!HasAgent
  <2>2. v = [agent |-> agent, running |-> TRUE, aborted |-> FALSE, settled |-> FALSE,
             detached |-> FALSE, log |-> <<>>]
    BY <1>21, <2>1 DEF Conversation!Turn
  <2>3. PICK log \in Seq(EndsAs) : log = <<>>
    <3> HIDE DEF EndsAs
    <3>1. <<>> \in Seq(EndsAs)
      OBVIOUS
    <3> QED BY <3>1
  <2>4. v \in ChatTurn
    BY <2>2, <2>3 DEF ChatTurn
  <2> QED BY <2>2, <2>4 DEF Sound, Replied
<1>23. /\ DOMAIN turns' = DOMAIN turns \union {reply} /\ turns'[reply] = v
       /\ \A t \in DOMAIN turns : turns'[t] = turns[t]
       /\ turns' \in [DOMAIN turns' -> ChatTurn]
  BY <1>2, <1>20, <1>21, <1>22 DEF ChatInv, ChatTypes
<1>24. /\ chatHistory' \in Seq(HistoryEntry)
       /\ \A i \in DOMAIN chatHistory' : chatHistory'[i].of \in DOMAIN turns'
       /\ \A t : RepliesOf(t)' = RepliesOf(t)
  <2>0. chatHistory \in Seq(HistoryEntry)
        /\ \A i \in DOMAIN chatHistory : chatHistory[i].of \in DOMAIN turns
    BY DEF ChatInv, ChatTypes
  <2>1. CASE chatHistory' = chatHistory
    BY <1>23, <2>0, <2>1 DEF RepliesOf
  <2>2. CASE chatHistory' # chatHistory
    <3>1. PICK e : e = [role |-> "user", of |-> reply]
      OBVIOUS
    <3>2. chatHistory' = Append(chatHistory, e)
      BY <1>2, <2>2, <3>1
    <3>3. e \in HistoryEntry /\ e.of = reply /\ e.role = "user"
      BY <1>12, <3>1 DEF HistoryEntry
    <3>4. PICK k : /\ DOMAIN chatHistory' = DOMAIN chatHistory \union {k} /\ chatHistory'[k] = e
                   /\ k \notin DOMAIN chatHistory /\ chatHistory' \in Seq(HistoryEntry)
                   /\ \A i \in DOMAIN chatHistory : chatHistory'[i] = chatHistory[i]
      BY <2>0, <3>2, <3>3, HistoryGrows
    <3>5. \A t : RepliesOf(t)' = RepliesOf(t)
      BY <3>3, <3>4 DEF RepliesOf
    <3> QED BY <1>23, <2>0, <3>3, <3>4, <3>5
  <2> QED BY <2>1, <2>2
<1>25. ChatTypes'
  <2>1. DOMAIN turns' \subseteq 1 .. messageSeq'
    BY <1>2, <1>12, <1>20, <1>23 DEF ChatInv, ChatTypes
  <2>2. agentMessage' \in DOMAIN turns' \cup {None} /\ activeTurn' \in DOMAIN turns' \cup {None}
    BY <1>2, <1>23 DEF ChatInv, ChatTypes
  <2> QED BY <1>2, <1>12, <1>19, <1>23, <1>24, <2>1, <2>2 DEF ChatInv, ChatTypes
<1>26. TurnsSound'
  BY <1>22, <1>23 DEF ChatInv, TurnsSound
<1>27. MessagesAgree'
  <2> SUFFICES ASSUME NEW i \in DOMAIN chat'.messages, OwnMessage(chat'.messages[i])
               PROVE  /\ chat'.messages[i].id \in DOMAIN turns'
                      /\ chat'.messages[i].status = LastOf(turns'[chat'.messages[i].id].log)
    BY DEF MessagesAgree
  <2>1. CASE i \in DOMAIN chat.messages
    BY <1>18, <1>19, <1>23, <2>1 DEF ChatInv, MessagesAgree
  <2>2. CASE i \notin DOMAIN chat.messages
    <3>1. chat'.messages[i] = a
      BY <1>6, <1>18, <1>19, <2>2
    <3> QED BY <1>14, <1>22, <1>23, <3>1 DEF LastOf
  <2> QED BY <2>1, <2>2
<1>28. HistoryAgrees'
  <2>1. RepliesOf(reply) = {}
    BY <1>20 DEF RepliesOf, ChatInv, ChatTypes
  <2>2. ASSUME NEW t \in DOMAIN turns'
        PROVE  IF Replied(turns'[t]) THEN \E i : RepliesOf(t)' = {i} ELSE RepliesOf(t)' = {}
    <3>1. CASE t = reply
      BY <1>22, <1>23, <1>24, <2>1, <3>1
    <3>2. CASE t # reply
      BY <1>23, <1>24, <3>2 DEF ChatInv, HistoryAgrees
    <3> QED BY <3>1, <3>2
  <2> QED BY <2>2 DEF HistoryAgrees, Replied
<1>29. AgentSpeaks'
  BY <1>2, <1>20, <1>22, <1>23 DEF ChatInv, ChatTypes, AgentSpeaks
<1> QED
  BY <1>18, <1>19, <1>25, <1>26, <1>27, <1>28, <1>29 DEF ChatInv

\* Every step of the chat is one of these.
LEMMA StepsAre ==
  ASSUME ChatInv, Conversation!ChatNext
  PROVE  \/ Conversation!Send \/ Conversation!SetWorkspaceConversation \/ Rearranges
         \/ \E id : Tells(id)
         \/ \E t, v, word : word \in EndsAs \union {"none"} /\ EndsTurn(t, v, word)
<1>1. CASE Conversation!Send \/ Conversation!SetWorkspaceConversation
  BY <1>1
<1>2. CASE Rearranging
  BY <1>2, SessionsRearrange
<1>3. CASE \E note \in Notes : Conversation!AddAnnotation(note)
             \/ Conversation!RemoveAnnotation(note)
  BY <1>3, NoteTells
<1>4. ASSUME NEW t \in DOMAIN turns, NEW event \in Conversation!StreamEvents,
               Conversation!StreamYields(t, event)
      PROVE  \E id : Tells(id)
  BY <1>4, StreamTells
<1>5. ASSUME NEW t \in DOMAIN turns, NEW event \in Conversation!StreamEvents,
               Conversation!AgentYields(t, event)
      PROVE  \E id : Tells(id)
  <2>1. /\ agentMessage # None
        /\ UNCHANGED <<messageSeq, chatHistory, turns, activeTurn, chatAdapter, agentPending,
             agentMessage>>
        /\ chat' = Conversation!AiEvent(chat, agentMessage, event, t)
    BY <1>5 DEF Conversation!AgentYields
  <2> QED BY <2>1, AgentTells
<1>6. ASSUME NEW t \in DOMAIN turns, NEW ok \in BOOLEAN, Conversation!AgentToolResult(t, ok)
      PROVE  \E id : Tells(id)
  <2>1. /\ agentMessage # None
        /\ UNCHANGED <<messageSeq, chatHistory, turns, activeTurn, chatAdapter, agentPending,
             agentMessage>>
        /\ chat' = Conversation!ToolResult(chat, agentMessage, ok)
    BY <1>6 DEF Conversation!AgentToolResult
  <2> QED BY <2>1, AgentTells
<1>7. ASSUME NEW t \in DOMAIN turns,
             \/ Conversation!StreamStops(t) \/ Conversation!StreamReportsError(t)
             \/ Conversation!StreamEnds(t) \/ Conversation!StreamThrows(t)
             \/ \E outcome \in {"completed", "cancelled", "failed"} :
                  Conversation!AgentSettles(t, outcome)
      PROVE  \E x, v, word : word \in EndsAs \union {"none"} /\ EndsTurn(x, v, word)
  BY <1>7, StopEnds, ErrorEnds, StreamEndsIt, AgentEnds
<1> QED
  BY <1>1, <1>2, <1>3, <1>4, <1>5, <1>6, <1>7 DEF Conversation!ChatNext, Rearranging

\* A step says nothing in the message of a detached session's turn.
Silent ==
  \A t \in DOMAIN turns : turns[t].detached =>
    \A i \in DOMAIN chat.messages \cap DOMAIN chat'.messages :
      LET before == chat.messages[i]
          after == chat'.messages[i] IN
      before.id = t /\ after.id = t /\ ~before.hosted /\ ~after.hosted =>
        after.wrote = before.wrote /\ after.call = before.call

\* Every step keeps the invariant, and a detached session is silent under it.
LEMMA ChatKept ==
  ASSUME ChatInv, Conversation!ChatNext
  PROVE  ChatInv' /\ Silent
<1>1. CASE Conversation!Send
  BY <1>1, SendKeeps DEF Silent
<1>2. CASE Conversation!SetWorkspaceConversation
  BY <1>2, HostingKeeps DEF Silent
<1>3. CASE Rearranges
  <2>1. Silent
    BY <1>3 DEF Silent, Rearranges
  <2> QED BY <1>3, <2>1, RearrangingKeeps
<1>4. ASSUME NEW id, Tells(id) PROVE ChatInv' /\ Silent
  <2>1. Silent
    BY <1>4 DEF Silent, Tells, SameButFor
  <2> QED BY <1>4, <2>1, TellingKeeps
<1>5. ASSUME NEW t, NEW v, NEW word \in EndsAs \union {"none"}, EndsTurn(t, v, word)
      PROVE  ChatInv' /\ Silent
  <2>1. Silent
    BY <1>5 DEF Silent, EndsTurn, SameSayings, SameSaid
  <2> QED BY <1>5, <2>1, EndingKeeps
<1> QED
  BY <1>1, <1>2, <1>3, <1>4, <1>5, StepsAre

\* So does a step that changes nothing.
LEMMA ChatStays ==
  ASSUME ChatInv, UNCHANGED Conversation!chatVars
  PROVE  ChatInv'
<1>1. UNCHANGED <<chat, messageSeq, chatHistory, turns, activeTurn, chatAdapter, agentPending,
        agentMessage>>
  BY DEF Conversation!chatVars
<1>2. ChatTypes' /\ TurnsSound' /\ MessagesAgree' /\ AgentSpeaks'
  BY <1>1 DEF ChatInv, ChatTypes, TurnsSound, MessagesAgree, AgentSpeaks
<1>3. HistoryAgrees'
  BY <1>1 DEF ChatInv, HistoryAgrees, RepliesOf
<1> QED
  BY <1>2, <1>3 DEF ChatInv

\* The chat begins empty.
LEMMA ChatBegins == Conversation!ChatInit => ChatInv
<1> SUFFICES ASSUME Conversation!ChatInit PROVE ChatInv
  OBVIOUS
<1>1. /\ messageSeq = 0 /\ chatHistory = <<>> /\ turns = <<>> /\ activeTurn = None
      /\ chatAdapter = FALSE /\ agentPending = FALSE /\ agentMessage = None
  BY DEF Conversation!ChatInit
<1>2. PICK ms \in Seq(ChatMessage), pending \in SUBSET Notes : ms = <<>> /\ pending = {}
  <2> HIDE DEF ChatMessage
  <2>1. <<>> \in Seq(ChatMessage) /\ {} \in SUBSET Notes
    OBVIOUS
  <2> QED BY <2>1
<1>3. chat = [messages |-> ms, pending |-> pending, streaming |-> FALSE]
  BY <1>2 DEF Conversation!ChatInit
<1>4. chat \in ChatState /\ chat.messages = <<>>
  BY <1>2, <1>3 DEF ChatState
<1>5. <<>> \in Seq(HistoryEntry)
  <2> HIDE DEF HistoryEntry
  <2> QED OBVIOUS
<1>6. DOMAIN turns = {} /\ turns \in [DOMAIN turns -> ChatTurn]
  <2>1. DOMAIN turns = {}
    BY <1>1
  <2>2. turns = [t \in {} |-> 0]
    BY <1>1
  <2> QED BY <2>1, <2>2
<1>7. ChatTypes
  BY <1>1, <1>4, <1>5, <1>6 DEF ChatTypes
<1> QED
  BY <1>1, <1>4, <1>6, <1>7 DEF ChatInv, TurnsSound, MessagesAgree, HistoryAgrees, AgentSpeaks

\* The invariant implies the types.
LEMMA ChatIsTyped == ChatInv => Conversation!ChatTypeOK
<1> SUFFICES ASSUME ChatInv PROVE Conversation!ChatTypeOK
  OBVIOUS
<1>1. chat \in ChatState /\ chat.pending \in SUBSET Notes /\ chat.streaming \in BOOLEAN
      /\ \A i \in DOMAIN chat.messages : chat.messages[i] \in ChatMessage
  BY StateFields DEF ChatInv, ChatTypes
<1>2. DOMAIN chat = {"messages", "pending", "streaming"}
  BY <1>1 DEF ChatState
<1>3. \A i \in DOMAIN chatHistory : chatHistory[i].role \in {"user", "assistant"}
  <2>1. \A i \in DOMAIN chatHistory : chatHistory[i] \in HistoryEntry
    <3> HIDE DEF HistoryEntry
    <3> QED BY DEF ChatInv, ChatTypes
  <2> QED BY <2>1 DEF HistoryEntry
<1> QED
  BY <1>1, <1>2, <1>3 DEF Conversation!ChatTypeOK, ChatInv, ChatTypes, ChatMessage

\* The invariant implies that records follow turns.
LEMMA RecordsFollow == ChatInv => RecordsFollowTurns
<1> SUFFICES ASSUME ChatInv PROVE Conversation!RecordsFollowTurns
  BY DEF RecordsFollowTurns
<1>1. ASSUME NEW i \in DOMAIN chat.messages, chat.messages[i].role = "assistant",
               ~chat.messages[i].hosted
      PROVE  chat.messages[i].status = Conversation!LastSaid(chat.messages[i].id)
  BY <1>1 DEF ChatInv, MessagesAgree, OwnMessage, LastOf, Conversation!LastSaid
<1>2. ASSUME NEW t \in DOMAIN turns
      PROVE  /\ ~turns[t].running => turns[t].log # <<>>
             /\ Conversation!Cardinality({i \in DOMAIN chatHistory :
                         chatHistory[i].role = "assistant" /\ chatHistory[i].of = t}) =
                  IF ~turns[t].agent
                    /\ "complete" \in Conversation!Range(turns[t].log) THEN 1 ELSE 0
  <2>1. ~turns[t].running => turns[t].log # <<>>
    BY DEF ChatInv, TurnsSound, Sound
  <2>2. turns[t].log \in Seq(EndsAs)
    BY TurnFields DEF ChatInv
  <2>3. DOMAIN turns[t].log = 1 .. Len(turns[t].log)
    <3> HIDE DEF EndsAs
    <3> QED BY <2>2
  <2>4. Replied(turns[t]) <=> ~turns[t].agent /\ "complete" \in Conversation!Range(turns[t].log)
    BY <2>3 DEF Replied, Conversation!Range
  <2>5. Cardinality(RepliesOf(t)) = IF Replied(turns[t]) THEN 1 ELSE 0
    BY FS_EmptySet, FS_Singleton DEF ChatInv, HistoryAgrees
  <2> QED BY <2>1, <2>4, <2>5, SameCount DEF RepliesOf
<1> QED
  BY <1>1, <1>2 DEF Conversation!RecordsFollowTurns

\* A message shows what its turn said last, the history holds one reply for each turn of the
\* model that completed, and the message of a detached turn shows no more of its session's
\* events (message-reducer.ts, studio-chat-element.ts).
THEOREM TurnsAreTold ==
  Conversation!ChatSpec =>
    [](Conversation!ChatTypeOK /\ RecordsFollowTurns) /\ Conversation!DetachedIsSilent
<1>1. ChatInv /\ [Conversation!ChatNext]_Conversation!chatVars =>
        ChatInv' /\ [Silent]_Conversation!chatVars
  BY ChatKept, ChatStays
<1> QED
  BY ChatBegins, ChatIsTyped, RecordsFollow, <1>1, PTL
     DEF Conversation!ChatSpec, Conversation!DetachedIsSilent, Silent

(***************************************************************************)
(* The components in one specification                                     *)
(***************************************************************************)
\* Every component begins in an initial state of its own.
LEMMA SurfacesBegin ==
  SurfacesInit => /\ Init /\ Publishing!PublicationInit /\ Explore!RecipeInit /\ Local!LocalInit
                  /\ Imports!ImportInit /\ Conversation!ChatInit /\ Activity!LogInit
  BY DEF SurfacesInit

\* A step of one is a step of that one, and the others stay.
LEMMA OneStepsOthersStay ==
  [SurfacesNext]_surfaceVars =>
    /\ [Next]_sessionVars /\ [Publishing!PublicationNext]_(Publishing!pubVars)
    /\ [Explore!RecipeNext]_(Explore!recipeVars) /\ [Local!LocalNext]_(Local!localVars)
    /\ [Imports!ImportNext]_(Imports!importVars) /\ [Conversation!ChatNext]_(Conversation!chatVars)
    /\ [Activity!LogNext]_(Activity!logVars)
<1>1. UNCHANGED pubVars => UNCHANGED Publishing!pubVars
  BY DEF pubVars, Publishing!pubVars
<1>2. UNCHANGED recipeVars => UNCHANGED Explore!recipeVars
  BY DEF recipeVars, Explore!recipeVars
<1>3. UNCHANGED localVars => UNCHANGED Local!localVars
  BY DEF localVars, Local!localVars
<1>4. UNCHANGED importVars => UNCHANGED Imports!importVars
  BY DEF importVars, Imports!importVars
<1>5. UNCHANGED chatVars => UNCHANGED Conversation!chatVars
  BY DEF chatVars, Conversation!chatVars
<1>6. UNCHANGED logVars => UNCHANGED Activity!logVars
  BY DEF logVars, Activity!logVars
<1>7. UNCHANGED surfaceVars =>
        /\ UNCHANGED sessionVars /\ UNCHANGED pubVars /\ UNCHANGED recipeVars
        /\ UNCHANGED localVars /\ UNCHANGED importVars /\ UNCHANGED chatVars /\ UNCHANGED logVars
  BY DEF surfaceVars
<1>8. SurfacesNext =>
        /\ Next \/ UNCHANGED sessionVars
        /\ Publishing!PublicationNext \/ UNCHANGED pubVars
        /\ Explore!RecipeNext \/ UNCHANGED recipeVars
        /\ Local!LocalNext \/ UNCHANGED localVars
        /\ Imports!ImportNext \/ UNCHANGED importVars
        /\ Conversation!ChatNext \/ UNCHANGED chatVars
        /\ Activity!LogNext \/ UNCHANGED logVars
  BY DEF SurfacesNext, Only
<1> QED
  BY <1>1, <1>2, <1>3, <1>4, <1>5, <1>6, <1>7, <1>8

\* A behaviour of the instance is a behaviour of each component's own specification.
THEOREM SurfacesAreTheirOwn ==
  SurfacesSpec => /\ Spec /\ Publishing!PublicationSpec /\ Explore!RecipeSpec /\ Local!LocalSpec
                  /\ Imports!ImportSpec /\ Conversation!ChatSpec /\ Activity!LogSpec
  BY SurfacesBegin, OneStepsOthersStay, PTL
     DEF SurfacesSpec, Spec, Publishing!PublicationSpec, Explore!RecipeSpec, Local!LocalSpec,
         Imports!ImportSpec, Conversation!ChatSpec, Activity!LogSpec

\* A run of a local process the bridge carried out, and an upload the server took, are
\* retained until their end is recorded (custom-process-workspace, artifact-import).
THEOREM WorkIsRetained == SurfacesSpec => []RemoteWorkIsRetained
  BY SurfacesAreTheirOwn, RunsAreRetained, UploadsAreRetained, PTL DEF RemoteWorkIsRetained

\* One review leads to one publish request and one submission of a recipe to one draft,
\* for any numbers of calls, commands, retries and losses.
THEOREM SubmitsOnce == SurfacesSpec => []SubmittedOnce
  BY SurfacesAreTheirOwn, ReviewsSubmitOnce, RecipesKeepTheirOwn, PTL DEF SubmittedOnce

\* The chat's records follow its turns.
THEOREM TurnsAreRecorded == SurfacesSpec => []RecordsFollowTurns
  BY SurfacesAreTheirOwn, TurnsAreTold, PTL

\* A created draft opens over the map its request was made on.
THEOREM OpensOverTheOriginal == SurfacesSpec => OnlyOverTheOriginalMap
  BY SurfacesAreTheirOwn, RecipesKeepTheirOwn, PTL DEF OnlyOverTheOriginalMap

\* What is late changes only its own: a lease's report, a listing, an attachment of a local
\* process, a detached session and an imported entry.
THEOREM LateChangesItsOwn == SurfacesSpec => LateStaysOut
  BY SurfacesAreTheirOwn, OwnLeaseEnds, OwnCatalog, RunsAreRetained, TurnsAreTold,
       ImportsCollideWithNothing, PTL
     DEF LateStaysOut
=============================================================================
