----------------------------- MODULE PublishedView -----------------------------
(***************************************************************************)
(* The published view (src/src/map/read-only-composition-view.ts over      *)
(* src/src/map/read-only-map-canvas.ts): one map and one widget deck,      *)
(* replaced as a whole by reload(), for a reader whose transport the host  *)
(* owns.                                                                   *)
(*                                                                         *)
(* A reload runs without an await until the map has been started, but      *)
(* creating, appending and notifying call into the host, which may reload  *)
(* or dispose the view from there: the reloads under way are a stack, and  *)
(* an action is what the top one does between two such calls.  Then the    *)
(* reload awaits its map.  The renderer, the page and the host's transport *)
(* are external.  A transport object is a number that the host never uses  *)
(* again, as the options require of it.                                    *)
(***************************************************************************)
EXTENDS Naturals, Sequences, FiniteSets, SequencesExt

CONSTANTS
  MaxReloads, \* bound: reloads
  MaxReads,   \* bound: widget reads
  MaxReaders  \* bound: transports the host returns

VARIABLES
  generation, \* the number of reloads and of the disposal
  disposed,
  current,    \* the reload whose map and deck are installed; 0 for none
  failure,    \* the newest reload has failed
  pending,    \* the reload settled() waits for
  stack,      \* the reloads under way, with the call each of them is in
  awaiting,   \* the reloads that await their map
  canvases,   \* the map of each reload
  mounted,    \* the reloads whose deck is in the page
  told,       \* the status the host was last notified of
  transport,  \* the host's current audience transport
  reads,      \* the widgets' reads, in the order they were asked for
  delivered   \* of each answered read: its transport, and what was current by then

viewVars == <<generation, disposed, current, failure, pending, stack, awaiting, canvases, mounted,
              told, transport, reads, delivered>>

-----------------------------------------------------------------------------
(* Data                                                                     *)

Calls == {"creating", "starting", "controls", "deck", "notified", "failed"}

Canvas == {"none", "starting", "ready", "failed", "disposed"}

Frame == [reload : Nat, at : Calls]

Live == {g \in DOMAIN canvases : canvases[g] \in {"starting", "ready"}}

Newest(g) == ~disposed /\ g = generation

StatusOf(failed, installed, maps) ==
  IF failed THEN "unavailable" ELSE IF installed = 0 THEN "none" ELSE maps[installed]

Top == Last(stack)

Enter(call) == stack' = Append(Front(stack), [Top EXCEPT !.at = call])

(* Mutated: a reload is what settled() waits for, whenever it returns. *)
WaitForAny(g) == pending' = g

WaitFor(g) == pending' = IF Newest(g) THEN g ELSE pending

(* The reload returns its promise to its caller. *)
Return == stack' = Front(stack) /\ WaitFor(Top.reload)

(* clear: the installed map and deck go, and the deck's reads are aborted. *)
Cleared(maps) == IF current = 0 THEN maps ELSE [maps EXCEPT ![current] = "disposed"]

Clear(maps) ==
  /\ canvases' = Cleared(maps)
  /\ mounted' = mounted \ {current}
  /\ current' = 0

readVars == <<transport, reads, delivered>>

-----------------------------------------------------------------------------
(* Reloading                                                                *)

(* reload, called by the host from anywhere, up to the deck's creation. *)
Reload ==
  /\ ~disposed
  /\ Len(canvases) < MaxReloads
  /\ generation' = generation + 1
  /\ Clear(Append(canvases, "none"))
  /\ failure' = FALSE
  /\ stack' = Append(stack, [reload |-> generation', at |-> "creating"])
  /\ UNCHANGED <<disposed, pending, awaiting, told, readVars>>

Dispose ==
  /\ ~disposed
  /\ disposed' = TRUE
  /\ generation' = generation + 1
  /\ Clear(canvases)
  /\ UNCHANGED <<failure, pending, stack, awaiting, told, readVars>>

(* The catch of a reload: its candidates go; the newest one is the failure, *)
(* once, and the host is told.                                              *)
Fail(g) ==
  LET maps == IF current = g THEN canvases ELSE [canvases EXCEPT ![g] = "disposed"]
  IN IF Newest(g) /\ ~failure
       THEN /\ Clear(maps)
            /\ failure' = TRUE
            /\ told' = "unavailable"
       ELSE /\ canvases' = maps
            /\ UNCHANGED <<current, mounted, failure, told>>

Throw ==
  /\ Fail(Top.reload)
  /\ Enter("failed")
  /\ UNCHANGED <<generation, disposed, pending, awaiting, readVars>>

(* The deck and the map are created, and the map begins to start; a style   *)
(* reference the reader cannot resolve, or a foreign element, throws.       *)
Start ==
  /\ stack # <<>> /\ Top.at = "creating"
  /\ \/ /\ canvases' = [canvases EXCEPT ![Top.reload] = "starting"]
        /\ Enter("starting")
        /\ UNCHANGED <<generation, disposed, current, failure, pending, awaiting, mounted, told,
                       readVars>>
     \/ Throw

(* Mutated: a candidate is installed although a newer reload has been. *)
NeverSuperseded(g) == FALSE

Superseded(g) == ~Newest(g)

(* A superseded candidate is disposed, any other is installed, and its      *)
(* controls are appended.                                                   *)
Install ==
  /\ stack # <<>> /\ Top.at = "starting"
  /\ IF Superseded(Top.reload)
       THEN /\ canvases' = [canvases EXCEPT ![Top.reload] = "disposed"]
            /\ Return
            /\ UNCHANGED current
       ELSE /\ current' = Top.reload
            /\ Enter("controls")
            /\ UNCHANGED <<canvases, pending>>
  /\ UNCHANGED <<generation, disposed, failure, awaiting, mounted, told, readVars>>

(* Appending the controls has not reentered. *)
Stays(g) == Newest(g)

(* The deck is appended, unless appending the controls reentered. *)
Mount ==
  /\ stack # <<>> /\ Top.at = "controls"
  /\ IF Stays(Top.reload)
       THEN \/ /\ mounted' = mounted \union {Top.reload}
               /\ Enter("deck")
               /\ UNCHANGED <<generation, disposed, current, failure, pending, awaiting, canvases,
                              told, readVars>>
            \/ Throw
       ELSE /\ Return
            /\ UNCHANGED <<generation, disposed, current, failure, awaiting, canvases, mounted,
                           told, readVars>>

(* The deck gets its composition and the host is notified. *)
Show ==
  /\ stack # <<>> /\ Top.at = "deck"
  /\ IF Newest(Top.reload)
       THEN /\ told' = StatusOf(failure, current, canvases)
            /\ Enter("notified")
            /\ UNCHANGED pending
       ELSE Return /\ UNCHANGED told
  /\ UNCHANGED <<generation, disposed, current, failure, awaiting, canvases, mounted, readVars>>

(* The notified host has returned: the reload awaits its map, or is over. *)
GoOn ==
  /\ stack # <<>> /\ Top.at \in {"notified", "failed"}
  /\ Return
  /\ awaiting' = IF Top.at = "notified" THEN awaiting \union {Top.reload} ELSE awaiting
  /\ UNCHANGED <<generation, disposed, current, failure, canvases, mounted, told, readVars>>

-----------------------------------------------------------------------------
(* The map                                                                  *)

(* The map of an installed reload is ready, of which its view tells the     *)
(* host, or its start fails.                                                *)
MapStarts(g) ==
  /\ stack = <<>>
  /\ canvases[g] = "starting"
  /\ \/ /\ canvases' = [canvases EXCEPT ![g] = "ready"]
        /\ told' = IF Newest(g) THEN StatusOf(failure, current, canvases') ELSE told
     \/ /\ canvases' = [canvases EXCEPT ![g] = "failed"]
        /\ UNCHANGED told
  /\ UNCHANGED <<generation, disposed, current, failure, pending, stack, awaiting, mounted,
                 readVars>>

(* After `await started.ready`: the host is notified, by a reload that is   *)
(* still the newest; a failed start is that reload's failure.               *)
Finish(g) ==
  /\ stack = <<>>
  /\ g \in awaiting
  /\ canvases[g] # "starting"
  /\ awaiting' = awaiting \ {g}
  /\ IF canvases[g] = "failed"
       THEN Fail(g)
       ELSE /\ told' = IF Newest(g) THEN StatusOf(failure, current, canvases) ELSE told
            /\ UNCHANGED <<current, failure, canvases, mounted>>
  /\ UNCHANGED <<generation, disposed, pending, stack, readVars>>

-----------------------------------------------------------------------------
(* The widgets' reads                                                       *)

(* The deck asks for the rows of an approved source; the reader's transport *)
(* sends the request.                                                       *)
AskRows ==
  /\ stack = <<>>
  /\ current \in mounted
  /\ Len(reads) < MaxReads
  /\ reads' = Append(reads, [view |-> current, transport |-> transport, at |-> "asked"])
  /\ UNCHANGED <<generation, disposed, current, failure, pending, stack, awaiting, canvases,
                 mounted, told, transport, delivered>>

(* Mutated: a read goes on for whoever reads by then. *)
GoesOnForAnyone(r) == r.view = current

(* The checks after each await of a read: the view's reads have not been    *)
(* aborted, and the transport is the one the request was sent with.         *)
GoesOn(r) == r.view = current /\ r.transport = transport

(* The response, its body, and its parsed rows, each after an await. *)
NextStage(at) == CASE at = "asked" -> "response" [] at = "response" -> "body" [] OTHER -> "rows"

Advance(k) ==
  /\ stack = <<>>
  /\ reads[k].at \in {"asked", "response", "body"}
  /\ LET after == IF GoesOn(reads[k]) THEN NextStage(reads[k].at) ELSE "refused"
     IN /\ reads' = [reads EXCEPT ![k].at = after]
        /\ delivered' = IF after = "rows"
                          THEN delivered \union {[sent |-> reads[k].transport, to |-> transport,
                                                  view |-> reads[k].view, shown |-> current]}
                          ELSE delivered
  /\ UNCHANGED <<generation, disposed, current, failure, pending, stack, awaiting, canvases,
                 mounted, told, transport>>

(* The host's principal or target changes. *)
ChangeTransport ==
  /\ transport < MaxReaders
  /\ transport' = transport + 1
  /\ UNCHANGED <<generation, disposed, current, failure, pending, stack, awaiting, canvases,
                 mounted, told, reads, delivered>>

-----------------------------------------------------------------------------
(* createReadOnlyCompositionView has called its first reload. *)
ViewInit ==
  /\ generation = 1
  /\ disposed = FALSE
  /\ current = 0
  /\ failure = FALSE
  /\ pending = 0
  /\ stack = <<[reload |-> 1, at |-> "creating"]>>
  /\ awaiting = {}
  /\ canvases = <<"none">>
  /\ mounted = {}
  /\ told = "none"
  /\ transport = 1
  /\ reads = <<>>
  /\ delivered = {}

ViewNext ==
  \/ Reload \/ Dispose
  \/ Start \/ Install \/ Mount \/ Show \/ GoOn
  \/ \E g \in DOMAIN canvases : MapStarts(g) \/ Finish(g)
  \/ AskRows \/ \E k \in DOMAIN reads : Advance(k)
  \/ ChangeTransport

ViewSpec == ViewInit /\ [][ViewNext]_viewVars

-----------------------------------------------------------------------------
(* What holds                                                               *)

(* Every variable has the shape its comment says. *)
ViewTypeOK ==
  /\ {generation, transport} \subseteq Nat \ {0}
  /\ {disposed, failure} \subseteq BOOLEAN
  /\ {current, pending} \subseteq 0..Len(canvases)
  /\ stack \in Seq(Frame)
  /\ awaiting \union mounted \subseteq DOMAIN canvases
  /\ canvases \in Seq(Canvas)
  /\ told \in Canvas \union {"unavailable"}
  /\ \A k \in DOMAIN reads :
       /\ reads[k].view \in DOMAIN canvases
       /\ reads[k].at \in {"asked", "response", "body", "rows", "refused"}
  /\ delivered \subseteq [sent : Nat, to : Nat, view : Nat, shown : Nat]

(* Once no reload is under way, the only map and the only deck in the page  *)
(* are those of the newest reload: whichever call the host reloaded from,   *)
(* the older reload neither replaces the newer one nor leaves its map or    *)
(* its deck behind.                                                         *)
OnlyTheNewestRemains ==
  stack = <<>>
    => /\ Live \union mounted \subseteq {current}
       /\ current # 0 => Newest(current)

(* settled() waits for the newest reload's work, not for one it superseded. *)
SettledIsOfTheNewest ==
  stack = <<>> /\ ~disposed => pending = generation

(* Once no reload is under way and no finished map awaits its reload, the   *)
(* status the host was last told is the view's.                             *)
HostKnowsStatus ==
  stack = <<>> /\ ~disposed /\ (\A g \in awaiting : canvases[g] = "starting")
    => told = StatusOf(failure, current, canvases)

(* Rows reach a widget only while the transport that fetched them is the    *)
(* reader's and the view that asked for them is the one on the page.        *)
RowsOfReader == \A d \in delivered : d.sent = d.to /\ d.view = d.shown

=============================================================================
