------------------------------ MODULE Browsing ------------------------------
(***************************************************************************)
(* Reading what the server offers: the paged walk over its layers          *)
(* (client/studio-client.ts), the home view that loads layers and packages *)
(* once a session is fresh (pages/home.ts), and the content browser with   *)
(* its filters, debounced search and "Load more"                           *)
(* (elements/studio-content-browser-element.ts, pages/content.ts).         *)
(*                                                                         *)
(* The server's lists change between two pages, and answers arrive in any  *)
(* order.  A list of the browser is modelled by the pages it is made of.   *)
(***************************************************************************)
EXTENDS Naturals, Sequences, FiniteSets

CONSTANTS
    Layers,      \* layers the server may publish
    Published,   \* those it lists at first, in order
    PageSize,    \* layers on a page
    MaxPages,    \* pages listCatalog reads at most
    Families,    \* values of the family filter
    States,      \* values of the state filter
    Searches,    \* search texts
    LastPage,    \* the browser's lists have pages 0..LastPage at most
    Unset,       \* no call, no cursor
    MaxReads     \* what users, sessions and failures may do: the bound of a run

VARIABLES
    route,       \* the routed view: home or content
    layers,      \* server: the published layers, in the order it lists them
    walks,       \* listCatalog calls of the home view, by number
    packageCalls,\* listPackages calls of the home view in flight
    home,        \* HomeLoader: loaded, and what each list of the view shows
    authStatus,  \* status of the AuthSession the view follows
    shownFilter, \* #family, #state, #search
    searchTimer, \* #searchTimer is set
    lists,       \* #items and #drafts with their cursors, loading and error flags
    pageCalls,   \* requests of the browser in flight
    browseSpent  \* how much of MaxReads is spent

browseVars == <<route, layers, walks, packageCalls, home, authStatus, shownFilter, searchTimer, lists,
                pageCalls, browseSpent>>
homeVars == <<route, layers, walks, packageCalls, home, authStatus>>
browserVars == <<shownFilter, searchTimer, lists, pageCalls>>

SpendRead == browseSpent < MaxReads /\ browseSpent' = browseSpent + 1

Elements(s) == {s[i] : i \in 1..Len(s)}

-----------------------------------------------------------------------------
(* listCatalog: pages of layers until the server says there are no more *)

\* A walk: its next page, what it read, and, for the properties, what was
\* published when it began and whether a layer was withdrawn since.
Walk ==
    [offset : Nat, page : Nat, datasets : Seq(Layers), outcome : {"walking", "whole", "invalid"},
     began : SUBSET Layers, withdrawn : BOOLEAN]

NewWalk ==
    [offset |-> 0, page |-> 0, datasets |-> <<>>, outcome |-> "walking",
     began |-> Elements(layers), withdrawn |-> FALSE]

\* honua_list_layers answers with a slice of its list.
PageOf(offset) ==
    SubSeq(layers, offset + 1, IF offset + PageSize < Len(layers) THEN offset + PageSize
                                                                   ELSE Len(layers))

\* Mutated: a layer met again is listed again.
AddAll(datasets, page) == datasets \o page

\* A layer met again on a later page is skipped.
AddNew(datasets, page) ==
    datasets \o SelectSeq(page, LAMBDA l : l \notin Elements(datasets))

ReadPage(w) ==
    LET page == PageOf(w.offset)
        next == [w EXCEPT !.datasets = AddNew(@, page), !.offset = @ + Len(page), !.page = @ + 1]
    IN  IF w.offset + Len(page) >= Len(layers) THEN [next EXCEPT !.outcome = "whole"]
        ELSE IF next.page = MaxPages \/ page = <<>> THEN [next EXCEPT !.outcome = "invalid"]
        ELSE next

Walking(n) == walks[n] # Unset /\ walks[n].outcome = "walking"

\* Another layer is published somewhere in the list, or one is withdrawn.
Publish(l) ==
    /\ SpendRead
    /\ l \notin Elements(layers)
    /\ \E i \in 0..Len(layers) :
          layers' = SubSeq(layers, 1, i) \o <<l>> \o SubSeq(layers, i + 1, Len(layers))
    /\ UNCHANGED <<route, walks, packageCalls, home, authStatus, browserVars>>

Withdraw(l) ==
    /\ SpendRead
    /\ l \in Elements(layers)
    /\ layers' = SelectSeq(layers, LAMBDA k : k # l)
    /\ walks' = [n \in DOMAIN walks |-> IF Walking(n) THEN [walks[n] EXCEPT !.withdrawn = TRUE]
                                                      ELSE walks[n]]
    /\ UNCHANGED <<route, packageCalls, home, authStatus, browserVars>>

-----------------------------------------------------------------------------
(* The home view *)

Showing == {"nothing", "gate", "loading", "shown", "error"}

\* load: once until the session ends or a list fails.
Load ==
    IF home.loaded THEN UNCHANGED <<home, walks, packageCalls>>
    ELSE /\ home' = [loaded |-> TRUE, catalog |-> "loading", packages |-> "loading"]
         /\ walks' = Append(walks, NewWalk)
         /\ packageCalls' = packageCalls + 1

\* followAuthState: a fresh session loads, an ended one shows its gate.
StatusChanges(status) ==
    /\ SpendRead
    /\ authStatus' = status
    /\ CASE status = "fresh" -> Load
         [] status = "refreshing" -> UNCHANGED <<home, walks, packageCalls>>
         [] status \in {"signed-out", "expired"} ->
              /\ home' = [loaded |-> FALSE, catalog |-> "gate", packages |-> "gate"]
              /\ UNCHANGED <<walks, packageCalls>>
    /\ UNCHANGED <<route, layers, browserVars>>

\* Mutated: a failed walk leaves its list as it was.
CatalogPageSilent(n) ==
    /\ Walking(n)
    /\ LET w == ReadPage(walks[n]) IN
       /\ walks' = [walks EXCEPT ![n] = w]
       /\ home' = CASE w.outcome = "walking" -> home
                    [] w.outcome = "whole" -> [home EXCEPT !.catalog = "shown"]
                    [] w.outcome = "invalid" -> [home EXCEPT !.loaded = FALSE]
    /\ UNCHANGED <<route, layers, packageCalls, authStatus, browserVars, browseSpent>>

\* A page arrives; the last one renders the catalog, an invalid one its error.
CatalogPage(n) ==
    /\ Walking(n)
    /\ LET w == ReadPage(walks[n]) IN
       /\ walks' = [walks EXCEPT ![n] = w]
       /\ home' = CASE w.outcome = "walking" -> home
                    [] w.outcome = "whole" -> [home EXCEPT !.catalog = "shown"]
                    [] w.outcome = "invalid" -> [home EXCEPT !.loaded = FALSE, !.catalog = "error"]
    /\ UNCHANGED <<route, layers, packageCalls, authStatus, browserVars, browseSpent>>

CatalogFails(n) ==
    /\ SpendRead
    /\ Walking(n)
    /\ walks' = [walks EXCEPT ![n].outcome = "invalid"]
    /\ home' = [home EXCEPT !.loaded = FALSE, !.catalog = "error"]
    /\ UNCHANGED <<route, layers, packageCalls, authStatus, browserVars>>

PackagesArrive ==
    /\ packageCalls > 0
    /\ packageCalls' = packageCalls - 1
    /\ home' = [home EXCEPT !.packages = "shown"]
    /\ UNCHANGED <<route, layers, walks, authStatus, browserVars, browseSpent>>

PackagesFail ==
    /\ SpendRead
    /\ packageCalls > 0
    /\ packageCalls' = packageCalls - 1
    /\ home' = [home EXCEPT !.loaded = FALSE, !.packages = "error"]
    /\ UNCHANGED <<route, layers, walks, authStatus, browserVars>>

-----------------------------------------------------------------------------
(* The content browser *)

ListNames == {"items", "drafts"}

Filter == [family : Families, state : States \union {"any"}, search : Searches]

\* Drafts have no state filter.
FilterFor(list) == IF list = "drafts" THEN [shownFilter EXCEPT !.state = "any"] ELSE shownFilter

\* listContentItems, listPackageDrafts: loading starts, the error goes.
AskPages(names, reset, cleared) ==
    /\ lists' = [l \in ListNames |->
          IF l \notin names THEN lists[l]
          ELSE [cleared[l] EXCEPT !.loading = TRUE, !.failed = FALSE]]
    /\ pageCalls' = pageCalls \union
          {[list |-> l, filter |-> FilterFor(l)', reset |-> reset,
            from |-> IF reset \/ cleared[l].cursor = Unset THEN 0 ELSE cleared[l].cursor,
            call |-> browseSpent'] : l \in names}

NoFilter == [family |-> CHOOSE f \in Families : TRUE, state |-> CHOOSE s \in States : TRUE,
             search |-> CHOOSE q \in Searches : TRUE]

NewLists ==
    [l \in ListNames |-> [rows |-> <<>>, cursor |-> Unset, loading |-> FALSE, failed |-> FALSE]]

\* refresh: both lists are emptied and asked for from the start.
Refresh ==
    AskPages(ListNames, TRUE,
             [l \in ListNames |-> [lists[l] EXCEPT !.rows = <<>>, !.cursor = Unset]])

\* The host calls refresh, or gives the element another session or client; the
\* element is connected, or the reader comes back from an opened item.
Reload ==
    /\ SpendRead
    /\ shownFilter' = shownFilter
    /\ Refresh
    /\ UNCHANGED <<homeVars, searchTimer>>

SetFamily(f) ==
    /\ SpendRead
    /\ f # shownFilter.family
    /\ shownFilter' = [shownFilter EXCEPT !.family = f]
    /\ Refresh
    /\ UNCHANGED <<homeVars, searchTimer>>

\* The state filter reads the items again and keeps what is shown meanwhile.
SetState(s) ==
    /\ SpendRead
    /\ s # shownFilter.state
    /\ shownFilter' = [shownFilter EXCEPT !.state = s]
    /\ AskPages({"items"}, TRUE, lists)
    /\ UNCHANGED <<homeVars, searchTimer>>

SetSearch(q) ==
    /\ SpendRead
    /\ q # shownFilter.search
    /\ shownFilter' = [shownFilter EXCEPT !.search = q]
    /\ searchTimer' = TRUE
    /\ UNCHANGED <<homeVars, lists, pageCalls>>

SearchTimerFires ==
    /\ SpendRead
    /\ searchTimer
    /\ searchTimer' = FALSE
    /\ shownFilter' = shownFilter
    /\ AskPages(ListNames, TRUE, [l \in ListNames |-> [lists[l] EXCEPT !.cursor = Unset]])
    /\ UNCHANGED homeVars

\* onDisconnect drops the timer; answers still arrive.
Leave ==
    /\ SpendRead
    /\ searchTimer
    /\ searchTimer' = FALSE
    /\ UNCHANGED <<homeVars, shownFilter, lists, pageCalls>>

\* What a list renders: its rows or a message, and "Load more" while the server
\* has another page.
Rendered(l) ==
    [rows |-> lists[l].rows,
     message |-> IF lists[l].rows # <<>> THEN "none" ELSE IF lists[l].loading THEN "loading" ELSE "empty",
     loadMore |-> lists[l].cursor # Unset,
     disabled |-> lists[l].loading]

LoadMore(l) ==
    /\ SpendRead
    /\ Rendered(l).loadMore /\ ~Rendered(l).disabled
    /\ shownFilter' = shownFilter
    /\ AskPages({l}, FALSE, lists)
    /\ UNCHANGED <<homeVars, searchTimer>>

\* An answer replaces or extends the list, whatever was asked since.
PageArrives(c) ==
    /\ c \in pageCalls
    /\ pageCalls' = pageCalls \ {c}
    /\ \E next \in (IF c.from < LastPage THEN {Unset, c.from + 1} ELSE {Unset}) :
          lists' = [lists EXCEPT ![c.list] =
              [@ EXCEPT !.rows = (IF c.reset THEN <<>> ELSE @)
                                 \o <<[filter |-> c.filter, page |-> c.from]>>,
                        !.cursor = next, !.loading = FALSE]]
    /\ UNCHANGED <<homeVars, shownFilter, searchTimer, browseSpent>>

PageFails(c) ==
    /\ SpendRead
    /\ c \in pageCalls
    /\ pageCalls' = pageCalls \ {c}
    /\ lists' = [lists EXCEPT ![c.list].loading = FALSE, ![c.list].failed = TRUE]
    /\ UNCHANGED <<homeVars, shownFilter, searchTimer>>

-----------------------------------------------------------------------------
BrowsingInit ==
    /\ route = "home"
    /\ layers = Published
    /\ walks = <<>> /\ packageCalls = 0
    /\ home = [loaded |-> FALSE, catalog |-> "nothing", packages |-> "nothing"]
    /\ authStatus = "signed-out"
    /\ shownFilter = NoFilter
    /\ searchTimer = FALSE
    /\ lists = NewLists
    /\ pageCalls = {}
    /\ browseSpent = 0

\* Each route renders a new view; what the former one asked for is written to
\* nodes nobody sees.
GoHome ==
    /\ SpendRead
    /\ route = "content"
    /\ route' = "home"
    /\ IF authStatus = "fresh"
       THEN /\ home' = [loaded |-> TRUE, catalog |-> "loading", packages |-> "loading"]
            /\ walks' = <<NewWalk>> /\ packageCalls' = 1
       ELSE /\ home' = [loaded |-> FALSE,
                        catalog |-> IF authStatus = "refreshing" THEN "nothing" ELSE "gate",
                        packages |-> IF authStatus = "refreshing" THEN "nothing" ELSE "gate"]
            /\ walks' = <<>> /\ packageCalls' = 0
    /\ shownFilter' = NoFilter /\ searchTimer' = FALSE /\ lists' = NewLists /\ pageCalls' = {}
    /\ UNCHANGED <<layers, authStatus>>

GoToContent ==
    /\ SpendRead
    /\ route = "home"
    /\ route' = "content"
    /\ home' = [loaded |-> FALSE, catalog |-> "nothing", packages |-> "nothing"]
    /\ walks' = <<>> /\ packageCalls' = 0
    /\ shownFilter' = shownFilter
    /\ AskPages(ListNames, TRUE, NewLists)
    /\ UNCHANGED <<layers, authStatus, searchTimer>>

HomeView ==
    /\ route = "home"
    /\ \/ \E s \in {"signed-out", "fresh", "refreshing", "expired"} : StatusChanges(s)
       \/ \E n \in DOMAIN walks : CatalogPage(n) \/ CatalogFails(n)
       \/ PackagesArrive
       \/ PackagesFail
       \/ \E l \in Layers : Publish(l) \/ Withdraw(l)

Browser ==
    /\ route = "content"
    /\ \/ Reload
       \/ \E f \in Families : SetFamily(f)
       \/ \E s \in States : SetState(s)
       \/ \E q \in Searches : SetSearch(q)
       \/ SearchTimerFires
       \/ Leave
       \/ \E l \in ListNames : LoadMore(l)
       \/ \E c \in pageCalls : PageArrives(c) \/ PageFails(c)

BrowsingNext == GoHome \/ GoToContent \/ HomeView \/ Browser

BrowsingSpec == BrowsingInit /\ [][BrowsingNext]_browseVars

-----------------------------------------------------------------------------
BrowsingTypeOK ==
    /\ layers \in Seq(Layers)
    /\ \A n \in DOMAIN walks : walks[n] \in Walk
    /\ packageCalls \in Nat
    /\ home \in [loaded : BOOLEAN, catalog : Showing, packages : Showing]
    /\ shownFilter \in Filter
    /\ searchTimer \in BOOLEAN
    /\ \A l \in ListNames : \A i \in DOMAIN lists[l].rows :
          lists[l].rows[i] \in [filter : Filter, page : 0..LastPage]

\* listCatalog names every dataset once, and leaves out none that was published
\* throughout, although layers are published while it reads its pages.
ListingIsWhole ==
    \A n \in DOMAIN walks :
        /\ \A i, j \in DOMAIN walks[n].datasets :
              walks[n].datasets[i] = walks[n].datasets[j] => i = j
        /\ walks[n].outcome = "whole" /\ ~walks[n].withdrawn
              => walks[n].began \subseteq Elements(walks[n].datasets)

\* A home list that says "Loading" is waiting for a call, whatever sign-outs,
\* sign-ins and failures of the other list came between.
HomeIsWaiting ==
    /\ home.catalog = "loading" => \E n \in DOMAIN walks : Walking(n)
    /\ home.packages = "loading" => packageCalls > 0

\* refresh "reloads both lists from the start", "safe to call any time": once
\* every answer has arrived, a list is made of the first pages of its filter.
\* This does not hold: a filter changed while the first page of the former one
\* is out shows whichever answer comes last.
BrowserShowsFilter ==
    pageCalls = {} /\ ~searchTimer =>
        \A l \in ListNames : ~lists[l].failed =>
            /\ Rendered(l).message # "loading"
            /\ \A i \in DOMAIN Rendered(l).rows :
                  Rendered(l).rows[i] = [filter |-> FilterFor(l), page |-> i - 1]

=============================================================================
