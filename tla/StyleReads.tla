----------------------------- MODULE StyleReads -----------------------------
(* The readers of shared styles.  AuthoritativeStyleProvider reads a style     *)
(* and the layer it will draw through the server's tools, under the author's    *)
(* session; AudienceStyleProvider reads both under the session of a published   *)
(* view's reader.  Each binds the two only when one session read them.  A step  *)
(* runs to the next answer of the network or of the digest.                     *)
EXTENDS Nothing, Naturals, FiniteSets

CONSTANTS
  Sessions,      \* the host's session objects
  Reads,         \* calls of bind
  Fields,        \* a layer's possible fields
  MaxStyleEvents \* bound: session changes, expired tokens, edits on the server

\* Why a read fails.
Reasons == {"session", "transport", "refused", "unauthorized", "lost", "fields", "invalid"}

ASSUME NoneIsNoReason == None \notin Reasons

VARIABLES
  current,       \* getAuth(), getTransport(): the host's session, or None
  stale,         \* the sessions whose cached token the server no longer takes
  style,         \* the style on the server: the fields its expressions name
  layer,         \* the layer on the server: its fields
  reads,         \* each call of bind
  events

styleReadVars == <<current, stale, style, layer, reads, events>>

Happens ==
  /\ events < MaxStyleEvents
  /\ events' = events + 1

(***************************************************************************)
(* A call of bind: what it waits for, and the answers it holds             *)
(***************************************************************************)
Places == {"idle", "token", "response", "body", "digest", "last digest", "bound", "failed"}

\* Of initialize, honua_get_style and honua_describe_layer: the requests of an
\* author's call, where each tool call begins with a handshake of its own.
Requests == <<"initialize", "style", "initialize", "descriptor">>

\* session is what bind and read captured, caller what #call did.
Unread == [at |-> "idle", reader |-> "author", session |-> None, caller |-> None, request |-> 1,
           attempt |-> 0, answer |-> None, definition |-> None, descriptor |-> None,
           reason |-> None]

Become(r, next) == reads' = [reads EXCEPT ![r] = next]
ReadFails(r, why) == Become(r, [reads[r] EXCEPT !.at = "failed", !.reason = why])

\* Mutated: the session is looked up once.
AnySession(r) == TRUE

\* auth === getAuth() in #call, and in read and bind with theirs; #assertSession
SameSession(r) ==
  /\ reads[r].caller = current
  /\ reads[r].at \in {"digest", "last digest"} => reads[r].session = current

\* Continues unless the session has been replaced.
Checked(r, step) == IF SameSession(r) THEN step ELSE ReadFails(r, "session")

(***************************************************************************)
(* bind                                                                    *)
(***************************************************************************)
\* An author's call begins with a token, for its first request.
BindAsAuthor(r) ==
  /\ reads[r].at = "idle"
  /\ Become(r, [Unread EXCEPT !.at = "token", !.session = current, !.caller = current])
  /\ UNCHANGED <<current, stale, style, layer, events>>

\* A reader's call needs a transport, and asks it at once.
BindAsAudience(r) ==
  /\ reads[r].at = "idle"
  /\ IF current = None THEN ReadFails(r, "transport")
     ELSE Become(r, [Unread EXCEPT !.at = "response", !.reader = "audience", !.session = current,
                                   !.caller = current, !.request = 2])
  /\ UNCHANGED <<current, stale, style, layer, events>>

\* getAccessToken; the second attempt forces a refresh, which may be refused.
TokenArrives(r) ==
  /\ reads[r].at = "token"
  /\ Checked(r, Become(r, [reads[r] EXCEPT !.at = "response"]))
  /\ stale' = IF reads[r].attempt = 1 THEN stale \ {reads[r].caller} ELSE stale
  /\ UNCHANGED <<current, style, layer, events>>

TokenRefused(r) ==
  /\ reads[r].at = "token"
  /\ Happens
  /\ ReadFails(r, "refused")
  /\ UNCHANGED <<current, stale, style, layer>>

\* The server answers what it holds now, or 401 to a stale token.
Answer(r) == IF Requests[reads[r].request] = "style" THEN style ELSE layer
ReadAnswered(r) == [session |-> reads[r].caller, fields |-> Answer(r)]

\* Mutated: a 401 is an answer like any other.
NoRetry(r) == FALSE

\* A first 401 is tried once more, with a refreshed token.
TriesAgain(r) ==
  /\ reads[r].reader = "author" /\ reads[r].caller # None
  /\ reads[r].attempt = 0

ResponseArrives(r) ==
  /\ reads[r].at = "response"
  /\ Checked(r, IF reads[r].caller \notin stale
                THEN Become(r, [reads[r] EXCEPT !.at = "body", !.answer = ReadAnswered(r)])
                ELSE IF TriesAgain(r)
                THEN Become(r, [reads[r] EXCEPT !.at = "token", !.attempt = 1])
                ELSE ReadFails(r, "unauthorized"))
  /\ UNCHANGED <<current, stale, style, layer, events>>

RequestLost(r) ==
  /\ reads[r].at \in {"response", "body"}
  /\ Happens
  /\ ReadFails(r, "lost")
  /\ UNCHANGED <<current, stale, style, layer>>

\* The next request; the descriptor is read by another #call.
NextRequest(read) ==
  [read EXCEPT !.caller = IF read.reader = "author" /\ read.at = "digest" THEN current ELSE @,
               !.at = IF read.reader = "author" THEN "token" ELSE "response", !.answer = None,
               !.request = @ + (IF read.reader = "author" THEN 1 ELSE 2), !.attempt = 0]

\* bindAuthoritativeStyleDefinition: the stylesheet names no missing field.
Binds(definition, descriptor) == definition.fields \subseteq descriptor.fields

\* The answer's text: a handshake leads to its call, a stylesheet and a bound
\* descriptor to a digest.
BodyArrives(r) ==
  LET read == reads[r] IN
  /\ read.at = "body"
  /\ Checked(r,
       CASE Requests[read.request] = "initialize" -> Become(r, NextRequest(read))
         [] Requests[read.request] = "style" ->
              Become(r, [read EXCEPT !.at = "digest", !.definition = read.answer])
         [] Requests[read.request] = "descriptor" ->
              IF Binds(read.definition, read.answer)
              THEN Become(r, [read EXCEPT !.at = "last digest", !.descriptor = read.answer])
              ELSE ReadFails(r, "fields"))
  /\ UNCHANGED <<current, stale, style, layer, events>>

\* parseStyleLayers, the response's identity, revision and size: refused
BodyRejected(r) ==
  /\ reads[r].at = "body" /\ Requests[reads[r].request] # "initialize"
  /\ Happens
  /\ ReadFails(r, "invalid")
  /\ UNCHANGED <<current, stale, style, layer>>

\* styleContentHash in read, and in bindAuthoritativeStyleDefinition
DigestArrives(r) ==
  /\ reads[r].at = "digest"
  /\ Checked(r, Become(r, NextRequest(reads[r])))
  /\ UNCHANGED <<current, stale, style, layer, events>>

LastDigestArrives(r) ==
  /\ reads[r].at = "last digest"
  /\ Checked(r, Become(r, [reads[r] EXCEPT !.at = "bound"]))
  /\ UNCHANGED <<current, stale, style, layer, events>>

(***************************************************************************)
(* The host and the server                                                 *)
(***************************************************************************)
\* The session ends, is replaced, or comes back.
ChangeSession ==
  /\ Happens
  /\ \E next \in (Sessions \cup {None}) \ {current} : current' = next
  /\ UNCHANGED <<stale, style, layer, reads>>

TokenExpires ==
  /\ Happens
  /\ \E s \in Sessions \ stale : stale' = stale \cup {s}
  /\ UNCHANGED <<current, style, layer, reads>>

\* Somebody saves another revision of the style, or of the layer's schema.
EditOnServer ==
  /\ Happens
  /\ \/ style' \in (SUBSET Fields) \ {style} /\ UNCHANGED layer
     \/ layer' \in (SUBSET Fields) \ {layer} /\ UNCHANGED style
  /\ UNCHANGED <<current, stale, reads>>

StyleReadInit ==
  /\ current \in Sessions /\ stale = {} /\ style = {} /\ layer = Fields
  /\ reads = [r \in Reads |-> Unread] /\ events = 0

StyleReadNext ==
  \/ \E r \in Reads :
       \/ BindAsAuthor(r) \/ BindAsAudience(r) \/ TokenArrives(r) \/ TokenRefused(r)
       \/ ResponseArrives(r) \/ RequestLost(r) \/ BodyArrives(r) \/ BodyRejected(r)
       \/ DigestArrives(r) \/ LastDigestArrives(r)
  \/ ChangeSession \/ TokenExpires \/ EditOnServer

StyleReadSpec == StyleReadInit /\ [][StyleReadNext]_styleReadVars

(***************************************************************************)
(* Properties                                                              *)
(***************************************************************************)
StyleReadTypeOK ==
  /\ current \in Sessions \cup {None} /\ stale \subseteq Sessions
  /\ style \subseteq Fields /\ layer \subseteq Fields
  /\ \A r \in Reads :
       /\ reads[r].at \in Places /\ reads[r].reader \in {"author", "audience"}
       /\ reads[r].request \in DOMAIN Requests /\ reads[r].attempt \in 0..1
       /\ reads[r].reason \in Reasons \cup {None}

\* A style is bound to a layer only when the session that asked read both: no
\* reader is shown what another could see (the checks after every await).
BindingIsOneSessions ==
  \A r \in Reads : reads[r].at = "bound" =>
    /\ reads[r].definition.session = reads[r].session
    /\ reads[r].descriptor.session = reads[r].session
    /\ reads[r].definition.fields \subseteq reads[r].descriptor.fields

\* A binding is answered while its session is still the host's, and a read of a
\* replaced session goes on to no further request (#call, #assertSession).
EndsWithItsSession ==
  [][\A r \in Reads :
       reads'[r] # reads[r] /\ reads'[r].at # "failed" /\ reads[r].at # "idle" =>
         current = reads[r].session]_styleReadVars

\* An author's token that expires once does not fail the read (the loop of two
\* attempts): unauthorized means that the refreshed token was refused too.
ExpiryIsSurvived ==
  \A r \in Reads :
    reads[r].reason = "unauthorized" /\ reads[r].reader = "author" =>
      reads[r].session = None \/ reads[r].attempt = 1
=============================================================================
