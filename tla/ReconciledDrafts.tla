-------------------------- MODULE ReconciledDrafts --------------------------
(***************************************************************************)
(* What DraftSync promises of the drafts it keeps (composition/history.ts): *)
(* each grows by whole revisions, other sessions add to it at any time, and *)
(* a host that chose to refuse stale writes never has a revision of its own *)
(* drop what another session added.                                        *)
(***************************************************************************)
EXTENDS Naturals, Sequences

CONSTANTS
    Edits,      \* what this session's edits make of a composition
    Additions   \* what other sessions may add to it

VARIABLES
    strategy,   \* "refuse" or "rebase": was a rebase option given?
    store       \* the drafts, each the sequence of its revisions

\* A composition: this session's edit and what it holds of other sessions.
State == [edit : Edits, others : SUBSET Additions]

Newest(d) == store[d][Len(store[d])]

Create(s) == store' = Append(store, <<s>>) /\ UNCHANGED strategy

Save(d, s) ==
    /\ strategy = "refuse" => Newest(d).others \subseteq s.others
    /\ store' = [store EXCEPT ![d] = Append(@, s)]
    /\ UNCHANGED strategy

Add(d, e) ==
    /\ store' = [store EXCEPT ![d] = Append(@, [Newest(d) EXCEPT !.others = @ \union {e}])]
    /\ UNCHANGED strategy

Init == strategy \in {"refuse", "rebase"} /\ store = <<>>

Next ==
    \/ \E s \in State : Create(s)
    \/ \E d \in 1..Len(store), s \in State : Save(d, s)
    \/ \E d \in 1..Len(store), e \in Additions : Add(d, e)

Spec == Init /\ [][Next]_<<strategy, store>>

=============================================================================
