--------------------------- MODULE MCOrchestrator ----------------------------
(***************************************************************************)
(* Small instances of Orchestrator.                                        *)
(***************************************************************************)
EXTENDS Orchestrator, TLC

CONSTANTS l1, l2, k1, n1

TwoLayers == {l1, l2}
OneControl == {k1}
OneNote == {n1}

\* The second layer may be redone.
SecondLayer == {l2}

\* The control is bound to the first layer.
BoundToFirst == k1 :> l1

Spending(b) == b @@ [op \in Operations |-> 0]

\* Two calls and a history action while the session is replaced or detached, an
\* agent tool or another client changes the draft and a message is lost.
CallBudget ==
    Spending("call" :> 2 @@ "history" :> 1 @@ "session" :> 2 @@ "disturbance" :> 1)

=============================================================================
