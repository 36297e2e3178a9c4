------------------------------ MODULE WidgetRows -------------------------------
(***************************************************************************)
(* The rows behind the widgets and the controls: the widget deck           *)
(* (src/src/elements/studio-widget-deck-element.ts), its memoizing loader  *)
(* (src/src/widgets/widget-data.ts), the control bar that derives a        *)
(* select's options from the same rows (src/src/elements/                  *)
(* studio-control-bar-element.ts) and the canvas that hands the deck's     *)
(* loader to the bar.                                                      *)
(*                                                                         *)
(* The deck hears of a session from its status listener, from the canvas,  *)
(* or when the shared loader asks; the host's resolver answers with the    *)
(* new session before any of these.  One widget is shown, and one control, *)
(* which is rebound.  The feature server is external: it answers a session *)
(* that has not expired.                                                   *)
(***************************************************************************)
EXTENDS Naturals, Sequences, FiniteSets

CONSTANTS
  Sources,   \* the backing sources
  Shown,     \* the source of the widget
  None,      \* nothing cached
  MaxChanges \* bound: changes of the session, of its status, of the control's source

VARIABLES
  session,  \* what the host's resolver returns
  expired,  \* the status of that session
  bound,    \* the source the control names
  deck,     \* the widget deck with its rows and its loader
  requests, \* the loader's requests
  bar,      \* the control bar, its loader, its options
  spent     \* what has been spent of MaxChanges

rowVars == <<session, expired, bound, deck, requests, bar, spent>>

-----------------------------------------------------------------------------
(* Data                                                                     *)

Loading(n) == [is |-> "loading", by |-> n]
RowsOf(s, who) == [is |-> "rows", source |-> s, of |-> who]
Failed == [is |-> "failed"]

(* epoch numbers the deck's abort controllers; a signal of an older one is  *)
(* aborted.  memo is the default loader's cache.                            *)
NoMemo == [s \in Sources |-> 0]

(* The deck and its requests change together. *)
State == [deck |-> deck, requests |-> requests]

Spend == spent < MaxChanges /\ spent' = spent + 1

-----------------------------------------------------------------------------
(* The loader                                                               *)

(* createCatalogWidgetDataLoader: one request per source; a loader whose    *)
(* session has been replaced forgets what it has.                           *)
Ask(st, s) ==
  LET kept == IF st.deck.memoOf = session THEN st.deck.memo ELSE NoMemo
      made == Len(st.requests) + 1
  IN IF kept[s] # 0
       THEN st
       ELSE [deck |-> [st.deck EXCEPT !.memo = [kept EXCEPT ![s] = made], !.memoOf = session],
             requests |-> Append(st.requests, [source |-> s, epoch |-> st.deck.epoch, of |-> None,
                                               at |-> "called", shown |-> FALSE])]

(* load, then fetchAuthenticatedFeatureCollection: the request goes out     *)
(* with the session of that moment, and after its answer both the signal    *)
(* and the session are checked again.                                       *)
Aborted(r) == requests[r].epoch # deck.epoch

Send(r) ==
  /\ requests[r].at = "called"
  /\ requests' = [requests EXCEPT ![r].at = IF Aborted(r) THEN "failed" ELSE "sent",
                                  ![r].of = session]
  /\ UNCHANGED <<session, expired, bound, deck, bar, spent>>

Answer(r) ==
  /\ requests[r].at = "sent"
  /\ requests' = [requests EXCEPT ![r].at =
                    IF Aborted(r) \/ requests[r].of # session \/ expired THEN "failed" ELSE "rows"]
  /\ UNCHANGED <<session, expired, bound, deck, bar, spent>>

Answered(r) == requests[r].at \in {"rows", "failed"}

Result(r) ==
  IF requests[r].at = "rows" THEN RowsOf(requests[r].source, requests[r].of) ELSE Failed

-----------------------------------------------------------------------------
(* The deck                                                                 *)

(* #requireData: the widget's rows are asked for, once. *)
RequireData(st) ==
  LET asked == Ask(st, Shown)
      r == asked.deck.memo[Shown]
  IN [deck |-> [asked.deck EXCEPT !.rows = Loading(r)],
      requests |-> [asked.requests EXCEPT ![r].shown = TRUE]]

(* #sourceNoticeQueued: resets in a row queue one notice. *)
QueueNotice(d) == IF d.queued THEN d ELSE [d EXCEPT !.queued = TRUE, !.notice = TRUE]

(* Mutated: the queued notice is taken to be out for ever. *)
NoticeGivenOnce(d) == [d EXCEPT !.notice = FALSE]

NoticeGiven(d) == [d EXCEPT !.queued = FALSE, !.notice = FALSE]

(* #resetData: what has been fetched is dropped, and what is on its way     *)
(* aborted; the render asks again; the notice of it is queued once.         *)
Reset(st) ==
  RequireData([st EXCEPT !.deck = [QueueNotice(st.deck) EXCEPT !.epoch = @ + 1,
                                                               !.memo = NoMemo,
                                                               !.memoOf = session]])

(* refreshSession: a replaced session is subscribed to, whose listener is   *)
(* called with its status at once.                                          *)
Refresh(st) ==
  IF st.deck.auth = session
    THEN st
    ELSE Reset([st EXCEPT !.deck = [@ EXCEPT !.auth = session, !.unavailable = expired]])

(* Mutated: whatever was asked for the widget is shown. *)
AnyOfTheWidget(r) == TRUE

(* The answer is of the load the deck is still waiting for. *)
StillLoading(r) == deck.rows = Loading(r)

ShowRows(r) ==
  /\ requests[r].shown
  /\ Answered(r)
  /\ requests' = [requests EXCEPT ![r].shown = FALSE]
  /\ deck' = IF StillLoading(r) THEN [deck EXCEPT !.rows = Result(r)] ELSE deck
  /\ UNCHANGED <<session, expired, bound, bar, spent>>

-----------------------------------------------------------------------------
(* The control bar                                                          *)

Empty == [s \in Sources |-> None]

(* The shared loader refuses when its context is gone: refreshSession,      *)
(* which may reset the deck, comes first.                                   *)
Refuses(st, loader) == loader # st.deck.epoch \/ st.deck.unavailable

(* #deriveOptions, called by every render of the bar: options that are not  *)
(* cached are read through the deck's loader.                               *)
Derive(st, b, s) ==
  LET fresh == Refresh(st)
      refused == Refuses(fresh, b.loader)
      asked == IF refused THEN fresh ELSE Ask(fresh, s)
      read == [source |-> s, loader |-> b.loader, generation |-> b.generation, open |-> TRUE,
               request |-> IF refused THEN 0 ELSE asked.deck.memo[s]]
      n == Len(b.reads) + 1
  IN IF b.options[s] # None
       THEN [st |-> st, bar |-> b]
       ELSE [st |-> asked,
             bar |-> [b EXCEPT !.options[s] = Loading(n), !.reads = Append(@, read)]]

Become(after) == deck' = after.st.deck /\ requests' = after.st.requests /\ bar' = after.bar

(* #syncControlBar: the bar gets the deck's loader; another one empties its *)
(* options.                                                                 *)
WithLoader(b, loader) ==
  IF b.loader = loader THEN b
  ELSE [b EXCEPT !.loader = loader, !.generation = @ + 1, !.options = Empty]

SyncBar(st) == Derive(st, WithLoader(bar, st.deck.epoch), bound)

(* The read is still what the bar waits for, of its loader and its source. *)
Current(k) ==
  LET read == bar.reads[k]
  IN /\ read.generation = bar.generation
     /\ read.loader = bar.loader
     /\ bar.options[read.source] = Loading(k)
     /\ read.source = bound

Discarded(k) ==
  [s \in Sources |-> IF bar.options[s] = Loading(k) THEN None ELSE bar.options[s]]

(* The shared loader's end, and the bar's `then`. *)
TakeOptions(k) ==
  LET read == bar.reads[k]
      refused == read.request = 0
      st == IF refused THEN State ELSE Refresh(State)
      result == IF refused \/ Refuses(st, read.loader) THEN Failed ELSE Result(read.request)
      options == IF Current(k) THEN [bar.options EXCEPT ![read.source] = result] ELSE Discarded(k)
  IN /\ read.open
     /\ ~refused => Answered(read.request)
     /\ Become([st |-> st, bar |-> [bar EXCEPT !.reads[k].open = FALSE, !.options = options]])
     /\ UNCHANGED <<session, expired, bound, spent>>

(* honua-studio-widget-source-change, in a microtask of its own. *)
TellBar ==
  /\ deck.notice
  /\ Become(SyncBar([State EXCEPT !.deck = NoticeGiven(deck)]))
  /\ UNCHANGED <<session, expired, bound, spent>>

-----------------------------------------------------------------------------
(* What changes around them                                                 *)

(* The host replaces the session: its resolver answers with the new one. *)
ReplaceSession ==
  /\ Spend
  /\ session' = session + 1
  /\ expired' = FALSE
  /\ UNCHANGED <<bound, deck, requests, bar>>

(* The canvas renders: #syncWidgetDeck, then #syncControlBar. *)
SyncCanvas ==
  /\ deck.auth # session
  /\ Become(SyncBar(Refresh(State)))
  /\ UNCHANGED <<session, expired, bound, spent>>

(* Mutated: the deck listens for the end of the session only. *)
HeardEnd(st, over) == IF over THEN Reset([st EXCEPT !.deck.unavailable = TRUE]) ELSE st

(* The deck's listener: the rows are reset when the session ends, and when  *)
(* it is fresh again.                                                       *)
Heard(st, over) ==
  IF over = st.deck.unavailable THEN st ELSE Reset([st EXCEPT !.deck.unavailable = over])

ChangeStatus ==
  /\ Spend
  /\ expired' = ~expired
  /\ LET st == IF deck.auth = session THEN Heard(State, expired') ELSE State
     IN deck' = st.deck /\ requests' = st.requests
  /\ UNCHANGED <<session, bound, bar>>

(* The control, or the layer it names, gets another source: the bar renders. *)
Rebind ==
  /\ Spend
  /\ bound' \in Sources \ {bound}
  /\ Become(Derive(State, bar, bound'))
  /\ UNCHANGED <<session, expired>>

-----------------------------------------------------------------------------
FirstDeck == [auth |-> 0, unavailable |-> FALSE, epoch |-> 1, rows |-> None, memo |-> NoMemo,
              memoOf |-> 0, queued |-> FALSE, notice |-> FALSE]

FirstBar == [loader |-> 0, generation |-> 0, options |-> Empty, reads |-> <<>>]

(* The canvas has built its shell and synced the deck and the bar. *)
RowsInit ==
  /\ session = 1
  /\ expired = FALSE
  /\ bound = Shown
  /\ spent = 0
  /\ LET st == Refresh([deck |-> FirstDeck, requests |-> <<>>])
         both == Derive(st, WithLoader(FirstBar, st.deck.epoch), bound)
     IN deck = both.st.deck /\ requests = both.st.requests /\ bar = both.bar

RowsNext ==
  \/ \E r \in DOMAIN requests : Send(r) \/ Answer(r) \/ ShowRows(r)
  \/ \E k \in DOMAIN bar.reads : TakeOptions(k)
  \/ TellBar \/ ReplaceSession \/ SyncCanvas \/ ChangeStatus \/ Rebind

RowsSpec == RowsInit /\ [][RowsNext]_rowVars

-----------------------------------------------------------------------------
(* What holds                                                               *)

Cached == {None, Failed} \union {Loading(r) : r \in Nat}
          \union {RowsOf(s, who) : s \in Sources, who \in Nat}

(* Every variable has the shape its comment says. *)
RowsTypeOK ==
  /\ {session, deck.auth, deck.epoch, deck.memoOf, bar.loader, bar.generation} \subseteq Nat
  /\ {expired, deck.unavailable, deck.queued, deck.notice} \subseteq BOOLEAN
  /\ bound \in Sources
  /\ deck.memo \in [Sources -> 0..Len(requests)]
  /\ \A r \in DOMAIN requests : requests[r].at \in {"called", "sent", "rows", "failed"}
  /\ \A k \in DOMAIN bar.reads : bar.reads[k].request \in 0..Len(requests)

(* The rows a widget shows, and the options a control offers, are of no     *)
(* session before the one the deck reads for, and the options kept for a    *)
(* source are of that source: a late answer for a session that has been     *)
(* replaced, or for a source the control has left, never gets in.           *)
RowsOfSession ==
  /\ deck.rows # None /\ deck.rows.is = "rows" => deck.rows.of >= deck.auth
  /\ \A s \in Sources :
       bar.options[s] # None /\ bar.options[s].is = "rows"
         => /\ bar.options[s].source = s
            /\ bar.loader = deck.epoch => bar.options[s].of >= deck.auth

(* Unless a notice is queued, the control bar reads through the deck's      *)
(* current loader: no reset is lost on it.                                  *)
BarFollowsDeck == ~deck.notice => bar.loader = deck.epoch

Settled ==
  /\ ~deck.notice
  /\ deck.auth = session
  /\ \A r \in DOMAIN requests : Answered(r) /\ ~requests[r].shown
  /\ \A k \in DOMAIN bar.reads : ~bar.reads[k].open

(* Once everything has been answered and the session is good, the widget    *)
(* shows rows and the control has options: a failure of the time when the   *)
(* session was over, or was being replaced, is not kept.                    *)
ReadsRecover ==
  Settled /\ ~expired
    => /\ deck.rows.is = "rows"
       /\ bar.options[bound] # None /\ bar.options[bound].is = "rows"

=============================================================================
