---------------------------- MODULE MCDraftSync -----------------------------
(***************************************************************************)
(* Small instances of DraftSync.                                           *)
(***************************************************************************)
EXTENDS DraftSync, TLC

CONSTANTS e1, e2, x1

TwoEdits == {e1, e2}
OneAddition == {x1}

Spending(b) == b @@ [op \in Operations |-> 0]

\* Three edits, undos or redos, one more than the stack keeps, and a second caller
\* beside another session, a lost message and a reconciliation.
SyncBudget ==
    Spending("history" :> 3 @@ "direct" :> 1 @@ "reconcile" :> 1 @@ "other" :> 1 @@ "lose" :> 1)

\* Edits around an addition of another session; with a stack of one nothing is undone.
RebaseBudget == Spending("history" :> 3 @@ "other" :> 1)

=============================================================================
