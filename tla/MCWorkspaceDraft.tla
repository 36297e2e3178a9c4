-------------------------- MODULE MCWorkspaceDraft --------------------------
(***************************************************************************)
(* Small instances of WorkspaceDraft.  A budget names how often each       *)
(* operation may happen in one behaviour; what is not named may not.       *)
(***************************************************************************)
EXTENDS WorkspaceDraft, TLC

CONSTANTS d1, d2, l1, l2, s1

OneDraft == {d1}
TwoDrafts == {d1, d2}
OneLayer == {l1}
TwoLayers == {l1, l2}
OneStyle == {s1}


Spending(b) == b @@ [op \in Operations |-> 0]

\* Edits, attachments, refreshes, creations and changes of session, without undo and redo.
EditBudget ==
    Spending("edit" :> 1 @@ "attach" :> 1 @@ "refresh" :> 1 @@ "create" :> 1
             @@ "form" :> 1 @@ "authority" :> 1 @@ "other" :> 1
             @@ "lose" :> 1)

\* Undo and redo of one attached draft, and turns captured beside them.
HistoryBudget ==
    Spending("edit" :> 2 @@ "attach" :> 1 @@ "history" :> 2 @@ "turn" :> 1 @@ "authority" :> 1
             @@ "other" :> 1 @@ "lose" :> 1 @@ "withdraw" :> 1)

\* Two edits and one undo of one attached draft.
StaleUndoBudget == Spending("edit" :> 2 @@ "attach" :> 1 @@ "history" :> 1)

\* An undo and the attachment of another draft.
CrossDraftBudget == Spending("edit" :> 2 @@ "attach" :> 2 @@ "history" :> 1)

\* Two edits around a write of someone else.
ConflictBudget == Spending("edit" :> 2 @@ "attach" :> 1 @@ "other" :> 1 @@ "lose" :> 1)

=============================================================================
