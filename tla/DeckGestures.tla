---------------------------- MODULE DeckGestures ----------------------------
(***************************************************************************)
(* The widget cards that write to the composition: the layer list's        *)
(* checkboxes, the A/both/B switch over two layers and the stepper over a  *)
(* stack of layers (src/elements/studio-widget-deck-element.ts), and the   *)
(* three routes a gesture's commands may take.                             *)
(*                                                                         *)
(* On its own, the deck applies them to its controller, one after another. *)
(* In a workspace with a draft ("draft"), the editor checks them together  *)
(* and writes one replacement; without one ("tools"), it makes a tool call *)
(* of each and stops at the first that fails (composition-editor.ts).  The *)
(* inputs move on the user's gesture, before any of that has happened.     *)
(***************************************************************************)
EXTENDS Integers, SequencesExt

CONSTANTS
    Layers,
    Left, Right,        \* the layers of the compare widget
    Steps,              \* the layers of the time widget, in order
    Routes,             \* the routes tried
    MaxGestures,        \* bound on the user's gestures
    MaxChanges          \* bound on what everyone else does

VARIABLES
    route,      \* where commands go
    layers,     \* layer -> "shown", "hidden" or "absent"
    pins,       \* the layers that are pinned
    cards,      \* what the cards' inputs show
    jobs,       \* gestures under way: commands to come, commands done
    refusal,    \* the message of a refused gesture is shown
    last,       \* the gesture that ended last: commands done and asked for
    spent       \* gestures made, changes by others

deckVars == <<route, layers, pins, cards, jobs, refusal, last, spent>>

-----------------------------------------------------------------------------
(* The cards                                                               *)

Present(ls) == {l \in Layers : ls[l] # "absent"}

(* readTimeConfig, and the steps whose layer the composition has.          *)
Known(ls) == SelectSeq(Steps, LAMBDA l : l \in Present(ls))

(* currentTimeIndex: the first step that is visible, else the first.       *)
TimeIndex(ls) ==
    LET visible == {i \in DOMAIN Known(ls) : ls[Known(ls)[i]] = "shown"}
    IN  IF visible = {} THEN 1 ELSE CHOOSE i \in visible : \A j \in visible : i <= j

(* compareMode                                                             *)
CompareMode(ls) ==
    CASE ls[Left] = "shown" /\ ls[Right] = "shown" -> "both"
      [] ls[Left] = "shown" /\ ls[Right] # "shown" -> "left"
      [] ls[Left] # "shown" /\ ls[Right] = "shown" -> "right"
      [] OTHER -> "none"

Rendered(ls) ==
    [checked |-> {l \in Layers : ls[l] = "shown"}, step |-> TimeIndex(ls),
     mode |-> CompareMode(ls)]

-----------------------------------------------------------------------------
(* Commands                                                                *)

Show(l, visible) == [layer |-> l, visible |-> visible]

Allowed(c) == c.layer \in Present(layers) /\ c.layer \notin pins

After(ls, commands) ==
    FoldLeft(LAMBDA s, c : [s EXCEPT ![c.layer] = IF c.visible THEN "shown" ELSE "hidden"],
             ls, commands)

(* How many commands are applied before the first that is refused.         *)
Landing(commands) ==
    LET refused == {n \in DOMAIN commands : ~Allowed(commands[n])}
    IN  IF refused = {} THEN Len(commands)
        ELSE (CHOOSE n \in refused : \A m \in refused : n <= m) - 1

Spend(n) == spent[n] < <<MaxGestures, MaxChanges>>[n] /\ spent' = [spent EXCEPT ![n] = @ + 1]

DeckInit ==
    /\ route \in Routes
    /\ layers \in [Layers -> {"shown", "hidden", "absent"}]
    /\ pins = {}
    /\ cards = Rendered(layers)
    /\ jobs = << >>
    /\ refusal = FALSE
    /\ last = <<0, 0>>
    /\ spent = <<0, 0>>

(* #applyIntrinsic: dispatched, or applied here until one is refused.  The *)
(* composition's notices render the cards; the input has moved before.     *)
ApplyIntrinsic(commands, moved) ==
    /\ Spend(1)
    /\ IF route = "own"
       THEN LET n == Landing(commands) IN
            /\ layers' = After(layers, SubSeq(commands, 1, n))
            /\ cards' = Rendered(layers')
            /\ refusal' = (n < Len(commands))
            /\ last' = <<n, Len(commands)>>
            /\ UNCHANGED jobs
       ELSE /\ jobs' = Append(jobs, [todo |-> commands, done |-> 0])
            /\ cards' = moved
            /\ refusal' = FALSE
            /\ UNCHANGED <<layers, last>>
    /\ UNCHANGED <<route, pins>>

(* The layer list's checkbox, which is disabled for a pinned layer.        *)
ToggleVisibility(l) ==
    /\ l \in Present(layers) \ pins
    /\ ApplyIntrinsic(<<Show(l, l \notin cards.checked)>>,
                      [cards EXCEPT !.checked = IF l \in @ THEN @ \ {l} ELSE @ \cup {l}])

(* #applyCompare: the switch is drawn while both layers are there.         *)
ApplyCompare(mode) ==
    /\ {Left, Right} \subseteq Present(layers)
    /\ ApplyIntrinsic(<<Show(Left, mode # "right"), Show(Right, mode # "left")>>, cards)

(* #applyTimeStep: the chosen step is shown, every other one hidden.       *)
ApplyTimeStep(i) ==
    LET known == Known(layers) IN
    /\ i \in DOMAIN known
    /\ i # cards.step
    /\ ApplyIntrinsic([n \in DOMAIN known |-> Show(known[n], known[n] = known[i])],
                      [cards EXCEPT !.step = i])

-----------------------------------------------------------------------------
(* The editor                                                              *)

(* Mutated: the input is left as the user moved it.                        *)
RefusedSilently(n) ==
    /\ refusal' = TRUE
    /\ last' = <<jobs[n].done, jobs[n].done + Len(jobs[n].todo)>>
    /\ jobs' = RemoveAt(jobs, n)
    /\ UNCHANGED <<route, layers, pins, cards, spent>>

(* A refused gesture is drawn again from the composition.                  *)
Refused(n) ==
    /\ refusal' = TRUE
    /\ last' = <<jobs[n].done, jobs[n].done + Len(jobs[n].todo)>>
    /\ jobs' = RemoveAt(jobs, n)
    /\ cards' = Rendered(layers)
    /\ UNCHANGED <<route, layers, pins, spent>>

(* Mutated: the commands are written one by one as they are accepted.      *)
WrittenSoFar(commands) == SubSeq(commands, 1, Landing(commands))

(* locallyValidatedTarget: all the commands of an edit, or none.           *)
Written(commands) == IF Landing(commands) = Len(commands) THEN commands ELSE << >>

(* dispatch with a draft: the edits queue; the server takes the result.    *)
ReplaceDraft ==
    /\ route = "draft" /\ jobs # << >>
    /\ LET written == Written(jobs[1].todo) IN
       /\ written # << >>
       /\ layers' = After(layers, written)
       /\ last' = <<Len(written), Len(jobs[1].todo)>>
    /\ cards' = Rendered(layers')
    /\ jobs' = Tail(jobs)
    /\ UNCHANGED <<route, pins, refusal, spent>>

(* The edit is refused, by the reducer or by the server.                   *)
RefuseReplacement == route = "draft" /\ jobs # << >> /\ Refused(1)

(* dispatch without a draft: the next tool call of a gesture succeeds.     *)
CallTool(n) ==
    LET job == jobs[n] IN
    /\ route = "tools"
    /\ Allowed(Head(job.todo))
    /\ layers' = After(layers, <<Head(job.todo)>>)
    /\ cards' = Rendered(layers')
    /\ IF Len(job.todo) = 1
       THEN /\ jobs' = RemoveAt(jobs, n)
            /\ last' = <<job.done + 1, job.done + 1>>
       ELSE /\ jobs' = [jobs EXCEPT ![n] = [todo |-> Tail(job.todo), done |-> job.done + 1]]
            /\ UNCHANGED last
    /\ UNCHANGED <<route, pins, refusal, spent>>

RefuseTool(n) == route = "tools" /\ Refused(n)

-----------------------------------------------------------------------------
(* Everyone else                                                           *)

(* The agent, another card or an undo changes the composition.             *)
ChangeLayer(l, to) ==
    /\ Spend(2)
    /\ layers[l] # to
    /\ layers' = [layers EXCEPT ![l] = to]
    /\ pins' = IF to = "absent" THEN pins \ {l} ELSE pins
    /\ cards' = Rendered(layers')
    /\ UNCHANGED <<route, jobs, refusal, last>>

PinLayer(l) ==
    /\ Spend(2)
    /\ l \in Present(layers)
    /\ pins' = IF l \in pins THEN pins \ {l} ELSE pins \cup {l}
    /\ cards' = Rendered(layers)
    /\ UNCHANGED <<route, layers, jobs, refusal, last>>

DeckNext ==
    \/ \E l \in Layers : ToggleVisibility(l)
    \/ \E mode \in {"left", "both", "right"} : ApplyCompare(mode)
    \/ \E i \in DOMAIN Steps : ApplyTimeStep(i)
    \/ ReplaceDraft
    \/ RefuseReplacement
    \/ \E n \in DOMAIN jobs : CallTool(n) \/ RefuseTool(n)
    \/ \E l \in Layers : (\E to \in {"shown", "hidden", "absent"} : ChangeLayer(l, to)) \/ PinLayer(l)

DeckSpec == DeckInit /\ [][DeckNext]_deckVars

-----------------------------------------------------------------------------
DeckTypeOK ==
    /\ layers \in [Layers -> {"shown", "hidden", "absent"}]
    /\ pins \subseteq Present(layers)
    /\ cards.checked \subseteq Layers
    /\ \A n \in DOMAIN jobs : jobs[n].todo # << >>

(* The inputs of the cards, which move before anything is written, show    *)
(* the composition again once no gesture is under way: a refused one snaps *)
(* back (#applyIntrinsic).                                                 *)
CardsShowComposition == jobs = << >> => cards = Rendered(layers)

(* A gesture on a map with a draft lands whole or not at all, whatever     *)
(* others pinned or removed since it was made.                             *)
DraftGesturesAreWhole == route = "draft" => last[1] \in {0, last[2]}

(* "a compare switch's two toggles are one gesture, and half of it landing *)
(* is worse than none of it" (dispatch): so on every route.                *)
(* This does not hold: the loop over the tools stops at the first failure. *)
GesturesAreWhole == last[1] \in {0, last[2]}

=============================================================================
