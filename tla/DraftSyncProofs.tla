--------------------------- MODULE DraftSyncProofs ---------------------------
(***************************************************************************)
(* DraftSync implements ReconciledDrafts for every set of edits and        *)
(* additions and every budget: the inductive invariant says what the       *)
(* client knows of the draft each of its states was computed from.         *)
(***************************************************************************)
EXTENDS DraftSync, SequenceTheorems, TLAPS

\* Every draft has a first revision.
DraftsBegun == \A d \in 1..Len(store) : Len(store[d]) > 0

\* A replace names a revision the server accepted, and without a rebase
\* strategy holds what others had added to it.
SafeWrite(r) ==
    r.op = "replace" =>
        /\ r.id \in 1..Len(store)
        /\ r.generation \in 1..Len(store[r.id])
        /\ strategy = "refuse" => store[r.id][r.generation].others \subseteq r.body.others

WritesAreSafe ==
    /\ request # None => SafeWrite(request)
    /\ \A r \in late : SafeWrite(r)

\* An answer shows a revision the server accepted, that of the write it answers.
AnswersAreServed ==
    reply # None /\ reply.ok =>
        /\ Served(reply.draft)
        /\ request # None /\ (request.op # "get" => reply.draft.body = request.body)

ServerInv == DraftsBegun /\ DraftWasServed /\ WritesAreSafe /\ AnswersAreServed

\* The two stacks together never outgrow maxRevisions.
StacksFit == Len(undo) + Len(redo) <= MaxRevisions

\* The loop and the reconciliation exclude each other.
LoopMatches ==
    /\ loop = "reconcile" <=> reconciling \in {"reading", "writing", "adopting"}
    /\ loop = "reconcile" => chain = <<>>
    /\ awaiting => chain # <<>>
    /\ reconciling = "adopting" => draft \in Draft
    /\ loop = "write" => request \in Writes /\ (request.op = "replace" => draft # None)
    /\ reply # None /\ ~reply.ok /\ reply.conflict => request.op = "replace"

Hold(states, others) == \A i \in 1..Len(states) : states[i].others = others

\* Without a rebase strategy every local state holds the same additions, those
\* of the draft as last saved or adopted, unless a conflict stands.
Agreement ==
    strategy = "refuse" =>
        /\ ~automaticRebase
        /\ Hold(undo, Current.others) /\ Hold(redo, Current.others)
        /\ Hold(chain, Current.others)
        /\ loop \in {"tick", "write"} => ~needsReconciliation
        /\ loop = "reload" => needsReconciliation
        /\ loop \in {"tick", "write"} /\ pending # None => pending.others = Current.others
        /\ loop = "write" => request.body.others = Current.others
        /\ draft # None /\ ~needsReconciliation /\ reconciling # "adopting"
             => draft.body.others = Current.others

IInv == TypeOK /\ StacksFit /\ LoopMatches /\ ServerInv /\ Agreement

-----------------------------------------------------------------------------
(* Sequences *)

LEMMA FrontFacts ==
    ASSUME NEW S, NEW s \in Seq(S), s # <<>>
    PROVE  /\ Front(s) \in Seq(S) /\ Len(Front(s)) = Len(s) - 1
           /\ \A i \in 1..Len(s) - 1 : Front(s)[i] = s[i]
  <1> DEFINE f == SubSeq(s, 1, Len(s) - 1)
  <1>1. /\ Len(s) \in Nat \ {0} /\ Len(s) - 1 \in Int
        /\ \A i \in 1 .. Len(s) - 1 : s[i] \in S
    BY ElementOfSeq, LenProperties, EmptySeq
  <1>2. f \in Seq(S) /\ Len(f) = IF 1 <= Len(s) - 1 THEN Len(s) - 1 ELSE 0
    BY <1>1, SubSeqProperties
  <1>3. \A i \in 1 .. Len(s) - 1 : f[i] = s[i]
    BY <1>1, SubSeqProperties
  <1> HIDE DEF f
  <1>4. Len(s) \in Nat \ {0}
    BY <1>1
  <1>5. Len(f) = Len(s) - 1
    BY <1>2, <1>4
  <1> QED
    BY <1>2, <1>3, <1>5 DEF Front, f

\* Dropping the oldest revisions keeps the newest and adds none.
LEMMA BoundedFacts ==
    ASSUME NEW s \in Seq(State), s # <<>>
    PROVE  /\ Bounded(s) \in Seq(State)
           /\ Len(Bounded(s)) \in 1..MaxRevisions
           /\ Last(Bounded(s)) = Last(s)
           /\ \A i \in 1..Len(Bounded(s)) : \E j \in 1..Len(s) : Bounded(s)[i] = s[j]
  <1>1. Len(s) \in Nat \ {0} /\ MaxRevisions \in Nat \ {0}
    BY EmptySeq, RevisionsAssumption
  <1>2. CASE Len(s) <= MaxRevisions
    BY <1>1, <1>2 DEF Bounded
  <1>3. CASE Len(s) > MaxRevisions
    <2> DEFINE m == Len(s) - MaxRevisions + 1
               b == SubSeq(s, m, Len(s))
    <2>1. m \in Int /\ m <= Len(s) /\ m > 1 /\ \A i \in m .. Len(s) : s[i] \in State
      BY <1>1, <1>3, ElementOfSeq
    <2>2. /\ b \in Seq(State)
          /\ Len(b) = IF m <= Len(s) THEN Len(s) - m + 1 ELSE 0
          /\ \A i \in 1 .. Len(s) - m + 1 : b[i] = s[m + i - 1]
      BY <1>1, <2>1, SubSeqProperties
    <2>3. Bounded(s) = b
      BY <1>1, <1>3 DEF Bounded
    <2> HIDE DEF b
    <2>4. Len(b) = MaxRevisions
      BY <1>1, <2>1, <2>2
    <2>5. Last(b) = Last(s)
      BY <1>1, <2>1, <2>2, <2>4 DEF Last
    <2>6. \A i \in 1..Len(b) : m + i - 1 \in 1..Len(s) /\ b[i] = s[m + i - 1]
      BY <1>1, <2>1, <2>2, <2>4
    <2> QED
      BY <1>1, <2>2, <2>3, <2>4, <2>5, <2>6
  <1> QED
    BY <1>1, <1>2, <1>3

LEMMA AppendFacts ==
    ASSUME NEW s \in Seq(State), NEW e \in State
    PROVE  /\ Append(s, e) \in Seq(State) /\ Append(s, e) # <<>>
           /\ Len(Append(s, e)) = Len(s) + 1
           /\ Last(Append(s, e)) = e
           /\ \A i \in 1..Len(s) + 1 : Append(s, e)[i] = IF i = Len(s) + 1 THEN e ELSE s[i]
  BY DEF Last

LEMMA LastType ==
    ASSUME NEW s \in Seq(State), s # <<>>
    PROVE  Last(s) \in State /\ Len(s) \in 1..Len(s) /\ Last(s) = s[Len(s)]
  BY EmptySeq DEF Last

\* What a sequence holds, its parts hold.
LEMMA HoldFacts ==
    ASSUME NEW s \in Seq(State), NEW o, Hold(s, o)
    PROVE  /\ \A e \in State : e.others = o => Hold(Append(s, e), o)
           /\ s # <<>> => /\ Last(s).others = o /\ Hold(Front(s), o)
                          /\ Head(s).others = o /\ Hold(Tail(s), o)
  <1>1. ASSUME NEW e \in State, e.others = o PROVE Hold(Append(s, e), o)
    BY <1>1 DEF Hold
  <1>2. ASSUME s # <<>> PROVE Last(s).others = o /\ Hold(Front(s), o)
    BY <1>2, LastType, FrontFacts DEF Hold
  <1>3. ASSUME s # <<>> PROVE Head(s).others = o /\ Hold(Tail(s), o)
    <2>1. /\ Len(s) \in Nat \ {0} /\ Len(Tail(s)) = Len(s) - 1 /\ Head(s) = s[1]
          /\ \A i \in 1..Len(Tail(s)) : Tail(s)[i] = s[i + 1]
      BY <1>3, HeadTailProperties, EmptySeq
    <2> QED
      BY <2>1 DEF Hold
  <1> QED
    BY <1>1, <1>2, <1>3

-----------------------------------------------------------------------------
(* The store *)

\* Drafts and revisions are only ever added.
Grows ==
    /\ Len(store) <= Len(store')
    /\ \A d \in 1..Len(store) :
         /\ Len(store[d]) <= Len(store'[d])
         /\ \A g \in 1..Len(store[d]) : store'[d][g] = store[d][g]

\* d is served once the step is done.
ServedNext(d) ==
    /\ d.id \in 1..Len(store')
    /\ d.generation \in 1..Len(store'[d.id])
    /\ d.body = store'[d.id][d.generation]

\* What was served stays served, and a safe write stays safe.
LEMMA GrowthKeepsServed ==
    ASSUME store \in Seq(Seq(State)), store' \in Seq(Seq(State)), Grows,
           UNCHANGED strategy
    PROVE  /\ \A d \in Draft : Served(d) => d.id \in 1..Len(store')
                                            /\ d.generation \in 1..Len(store'[d.id])
                                            /\ d.body = store'[d.id][d.generation]
           /\ \A r \in Writes : SafeWrite(r) =>
                (r.op = "replace" =>
                   /\ r.id \in 1..Len(store')
                   /\ r.generation \in 1..Len(store'[r.id])
                   /\ strategy' = "refuse" => store'[r.id][r.generation].others \subseteq r.body.others)
  <1>1. \A d \in 1..Len(store) : d \in 1..Len(store')
    BY DEF Grows
  <1>2. \A d \in 1..Len(store) : store[d] \in Seq(State) /\ store'[d] \in Seq(State)
    BY <1>1
  <1>3. \A d \in 1..Len(store) : \A g \in 1..Len(store[d]) :
          g \in 1..Len(store'[d]) /\ store'[d][g] = store[d][g]
    BY <1>2 DEF Grows
  <1> QED
    BY <1>1, <1>3 DEF Served, SafeWrite

\* A write the store accepts adds a draft or a revision, as ReconciledDrafts
\* allows it.
LEMMA StoredFacts ==
    ASSUME store \in Seq(Seq(State)), DraftsBegun, NEW r \in Writes, SafeWrite(r), Accepts(r),
           store' = Stored(r), UNCHANGED strategy
    PROVE  /\ store' \in Seq(Seq(State)) /\ DraftsBegun' /\ Grows /\ Promise!Next
           /\ r.op = "create" => Len(store') = Len(store) + 1 /\ store'[Len(store) + 1] = <<r.body>>
           /\ r.op = "replace" => /\ r.id \in 1..Len(store) /\ Len(store') = Len(store)
                                  /\ store'[r.id] = Append(store[r.id], r.body)
  <1>1. r.body \in State
    BY DEF Writes, Creates, Replaces
  <1>2. Promise!State = State
    BY DEF State, Promise!State
  <1>3. CASE r.op = "create"
    <2>1. store' = Append(store, <<r.body>>)
      BY <1>3 DEF Stored
    <2>2. Promise!Create(r.body)
      BY <2>1 DEF Promise!Create
    <2>3. <<r.body>> \in Seq(State)
      BY <1>1
    <2>4. /\ store' \in Seq(Seq(State)) /\ Len(store') = Len(store) + 1 /\ Len(store) \in Nat
          /\ store'[Len(store) + 1] = <<r.body>>
          /\ \A d \in 1..Len(store) : store'[d] = store[d]
      BY <2>1, <2>3
    <2>5. \A d \in 1..Len(store') : d \in 1..Len(store) \/ d = Len(store) + 1
      BY <2>4
    <2>6. DraftsBegun'
      <3>1. ASSUME NEW d \in 1..Len(store') PROVE Len(store'[d]) > 0
        <4>1. CASE d \in 1..Len(store)
          BY <2>4, <4>1 DEF DraftsBegun
        <4>2. CASE d = Len(store) + 1
          <5>1. store'[d] = <<r.body>>
            BY <2>4, <4>2
          <5>2. Len(<<r.body>>) = 1
            OBVIOUS
          <5> QED
            BY <5>1, <5>2
        <4> QED
          BY <2>5, <4>1, <4>2
      <3> QED
        BY <3>1 DEF DraftsBegun
    <2>7. \A d \in 1..Len(store) : Len(store[d]) \in Nat
      OBVIOUS
    <2>8. Grows
      BY <2>4, <2>7 DEF Grows
    <2> QED
      BY <1>1, <1>2, <1>3, <2>2, <2>4, <2>6, <2>8 DEF Promise!Next
  <1>4. CASE r.op = "replace"
    <2>1. /\ r.id \in 1..Len(store) /\ r.generation = Len(store[r.id])
          /\ store' = [store EXCEPT ![r.id] = Append(store[r.id], r.body)]
      BY <1>4 DEF Accepts, Exists, Stored
    <2>2. store[r.id] \in Seq(State) /\ Len(store[r.id]) \in Nat
      BY <2>1
    <2>3. Promise!Save(r.id, r.body)
      BY <1>4, <2>1 DEF Promise!Save, Promise!Newest, SafeWrite
    <2> DEFINE longer == Append(store[r.id], r.body)
    <2>4. /\ longer \in Seq(State) /\ Len(longer) = Len(store[r.id]) + 1
          /\ \A g \in 1..Len(store[r.id]) : longer[g] = store[r.id][g]
      BY <1>1, <2>2, AppendFacts
    <2> HIDE DEF longer
    <2>5. /\ store' \in Seq(Seq(State)) /\ Len(store') = Len(store)
          /\ \A d \in 1..Len(store) : store'[d] = IF d = r.id THEN longer ELSE store[d]
      BY <2>1, <2>4, ExceptSeq DEF longer
    <2>6. DraftsBegun'
      <3>1. ASSUME NEW d \in 1..Len(store) PROVE Len(store'[d]) > 0
        <4>1. Len(longer) > 0
          BY <2>2, <2>4
        <4> QED
          BY <2>5, <4>1 DEF DraftsBegun
      <3> QED
        BY <2>5, <3>1 DEF DraftsBegun
    <2>7. \A d \in 1..Len(store) : Len(store[d]) \in Nat
      OBVIOUS
    <2>8. Len(store) <= Len(store')
      BY <2>5
    <2>9. Grows
      <3>1. ASSUME NEW d \in 1..Len(store)
            PROVE  /\ Len(store[d]) <= Len(store'[d])
                   /\ \A g \in 1..Len(store[d]) : store'[d][g] = store[d][g]
        <4>1. CASE d = r.id
          BY <2>2, <2>4, <2>5, <4>1
        <4>2. CASE d # r.id
          BY <2>5, <2>7, <4>2
        <4> QED
          BY <4>1, <4>2
      <3> QED
        BY <2>8, <3>1 DEF Grows
    <2> QED
      BY <1>1, <1>2, <1>4, <2>1, <2>3, <2>5, <2>6, <2>9 DEF Promise!Next, longer
  <1> QED
    BY <1>3, <1>4 DEF Writes, Creates, Replaces

-----------------------------------------------------------------------------
(* Steps that leave the wire and the server alone *)

USE DEF historyVars, chainVars, conflictVars, loopVars, wireVars, serverVars

LEMMA ServerUntouched ==
    ASSUME ServerInv, UNCHANGED <<strategy, draft, request, reply, store, late>>
    PROVE  ServerInv'
  BY DEF ServerInv, DraftsBegun, DraftWasServed, Served, WritesAreSafe, SafeWrite, AnswersAreServed

LEMMA SpendType ==
    ASSUME used \in [Operations -> Nat], NEW op \in Operations, Spend(op)
    PROVE  used' \in [Operations -> Nat]
  BY DEF Spend

LEMMA CurrentType ==
    ASSUME TypeOK
    PROVE  undo \in Seq(State) /\ undo # <<>> /\ Current \in State /\ Len(undo) \in Nat
           /\ Len(redo) \in Nat /\ redo \in Seq(State)
  <1>1. undo \in Seq(State) /\ Len(undo) # 0 /\ redo \in Seq(State)
    BY RevisionsAssumption DEF TypeOK
  <1> QED
    BY <1>1, LastType DEF Current

LEMMA EditInv ==
    ASSUME IInv, NEW e \in Edits, Edit(e)
    PROVE  IInv'
  <1> DEFINE new == [Current EXCEPT !.edit = e]
  <1>1. new \in State /\ new.others = Current.others
    BY CurrentType DEF IInv, State
  <1> HIDE DEF new
  <1>2. undo \in Seq(State) /\ undo # <<>> /\ chain \in Seq(State)
    BY CurrentType DEF IInv, TypeOK
  <1>3. undo' = Bounded(Append(undo, new)) /\ redo' = <<>> /\ chain' = Append(chain, new)
    BY DEF Edit, new
  <1>4. /\ undo' \in Seq(State) /\ Len(undo') \in 1..MaxRevisions /\ Last(undo') = new
        /\ \A i \in 1..Len(undo') : \E j \in 1..Len(undo) + 1 :
             undo'[i] = Append(undo, new)[j]
    <2> DEFINE grown == Append(undo, new)
    <2>1. /\ grown \in Seq(State) /\ grown # <<>> /\ Last(grown) = new
          /\ Len(grown) = Len(undo) + 1
      BY <1>1, <1>2, AppendFacts
    <2>2. undo' = Bounded(grown)
      BY <1>3
    <2> HIDE DEF grown
    <2>3. /\ undo' \in Seq(State) /\ Len(undo') \in 1..MaxRevisions /\ Last(undo') = new
          /\ \A i \in 1..Len(undo') : \E j \in 1..Len(undo) + 1 : undo'[i] = grown[j]
      BY <2>1, <2>2, BoundedFacts
    <2> QED
      BY <2>3 DEF grown
  <1>5. used' \in [Operations -> Nat]
    BY SpendType DEF IInv, TypeOK, Edit, Operations
  <1>6. redo' \in Seq(State) /\ chain' \in Seq(State) /\ chain' # <<>> /\ Len(redo') = 0
    BY <1>1, <1>2, <1>3, AppendFacts
  <1>7. TypeOK'
    <2>1. undo' \in Seq(State) /\ Len(undo') \in 1..MaxRevisions
      BY <1>4
    <2> QED
      BY <1>5, <1>6, <2>1 DEF IInv, TypeOK, Edit
  <1>8. StacksFit'
    BY <1>4, <1>6, RevisionsAssumption DEF StacksFit
  <1>9. LoopMatches'
    BY <1>6 DEF IInv, LoopMatches, Edit
  <1>10. Current'.others = Current.others
    BY <1>1, <1>4 DEF Current
  <1>11. Agreement'
    <2>1. SUFFICES ASSUME strategy = "refuse"
                   PROVE  Hold(undo', Current.others) /\ Hold(redo', Current.others)
                          /\ Hold(chain', Current.others)
      BY <1>10 DEF IInv, Agreement, Edit
    <2>2. Hold(undo, Current.others) /\ Hold(chain, Current.others)
      BY <2>1 DEF IInv, Agreement
    <2>3. Hold(Append(undo, new), Current.others) /\ Hold(chain', Current.others)
      BY <1>1, <1>2, <1>3, <2>2, HoldFacts
    <2>4. Hold(undo', Current.others)
      BY <1>1, <1>2, <1>4, <2>3, AppendFacts DEF Hold
    <2>5. Hold(redo', Current.others)
      BY <1>3 DEF Hold
    <2> QED
      BY <2>3, <2>4, <2>5
  <1> QED
    BY <1>7, <1>8, <1>9, <1>11, ServerUntouched DEF IInv, Edit

LEMMA UndoInv ==
    ASSUME IInv, Undo
    PROVE  IInv'
  <1>1. /\ undo \in Seq(State) /\ undo # <<>> /\ redo \in Seq(State) /\ chain \in Seq(State)
        /\ Len(undo) > 1 /\ Current \in State /\ Len(undo) \in Nat /\ Len(redo) \in Nat
    BY CurrentType DEF IInv, TypeOK, Undo
  <1>2. /\ undo' = Front(undo) /\ redo' = Append(redo, Current)
        /\ chain' = Append(chain, Last(undo'))
    BY DEF Undo
  <1>3. undo' \in Seq(State) /\ Len(undo') = Len(undo) - 1
    BY <1>1, <1>2, FrontFacts
  <1>4. undo' # <<>> /\ Last(undo') \in State
    <2>1. undo' # <<>>
      BY <1>1, <1>3, EmptySeq
    <2> QED
      BY <1>3, <2>1, LastType
  <1>5. /\ redo' \in Seq(State) /\ Len(redo') = Len(redo) + 1
        /\ chain' \in Seq(State) /\ chain' # <<>>
    BY <1>1, <1>2, <1>4, AppendFacts
  <1>6. StacksFit'
    BY <1>1, <1>3, <1>5 DEF IInv, StacksFit
  <1>7. Len(undo') \in 1..MaxRevisions
    BY <1>1, <1>3, RevisionsAssumption DEF IInv, TypeOK
  <1>8. used' \in [Operations -> Nat]
    BY SpendType DEF IInv, TypeOK, Undo, Operations
  <1>9. TypeOK'
    BY <1>3, <1>5, <1>7, <1>8 DEF IInv, TypeOK, Undo
  <1>10. LoopMatches'
    BY <1>5 DEF IInv, LoopMatches, Undo
  <1>11. Agreement'
    <2>1. CASE strategy # "refuse"
      BY <2>1 DEF Agreement, Undo
    <2>2. CASE strategy = "refuse"
      <3>1. Hold(undo, Current.others) /\ Hold(redo, Current.others) /\ Hold(chain, Current.others)
        BY <2>2 DEF IInv, Agreement
      <3>2. Hold(undo', Current.others)
        BY <1>1, <1>2, <3>1, HoldFacts
      <3>3. Last(undo').others = Current.others
        BY <1>3, <1>4, <3>2, HoldFacts
      <3>4. Hold(redo', Current.others) /\ Hold(chain', Current.others)
        BY <1>1, <1>2, <1>4, <3>1, <3>3, HoldFacts
      <3>5. Current'.others = Current.others
        BY <3>3 DEF Current
      <3> QED
        BY <3>2, <3>4, <3>5 DEF IInv, Agreement, Undo
    <2> QED
      BY <2>1, <2>2
  <1> QED
    BY <1>6, <1>9, <1>10, <1>11, ServerUntouched DEF IInv, Undo

LEMMA RedoInv ==
    ASSUME IInv, Redo
    PROVE  IInv'
  <1>1. /\ undo \in Seq(State) /\ undo # <<>> /\ redo \in Seq(State) /\ chain \in Seq(State)
        /\ redo # <<>> /\ Len(undo) \in Nat /\ Len(redo) \in Nat
    BY CurrentType DEF IInv, TypeOK, Redo
  <1>2. Last(redo) \in State
    BY <1>1, LastType
  <1>3. /\ undo' = Append(undo, Last(redo)) /\ redo' = Front(redo)
        /\ chain' = Append(chain, Last(redo))
    BY DEF Redo
  <1>4. /\ undo' \in Seq(State) /\ Len(undo') = Len(undo) + 1 /\ Last(undo') = Last(redo)
        /\ chain' \in Seq(State) /\ chain' # <<>>
    BY <1>1, <1>2, <1>3, AppendFacts
  <1>5. redo' \in Seq(State) /\ Len(redo') = Len(redo) - 1
    BY <1>1, <1>3, FrontFacts
  <1>6. StacksFit'
    BY <1>1, <1>4, <1>5 DEF IInv, StacksFit
  <1>7. Len(undo') \in 1..MaxRevisions
    <2>1. Len(redo') \in Nat
      BY <1>5
    <2> QED
      BY <1>1, <1>4, <1>6, <2>1, RevisionsAssumption DEF StacksFit
  <1>8. used' \in [Operations -> Nat]
    BY SpendType DEF IInv, TypeOK, Redo, Operations
  <1>9. TypeOK'
    BY <1>4, <1>5, <1>7, <1>8 DEF IInv, TypeOK, Redo
  <1>10. LoopMatches'
    BY <1>4 DEF IInv, LoopMatches, Redo
  <1>11. Agreement'
    <2>1. CASE strategy # "refuse"
      BY <2>1 DEF Agreement, Redo
    <2>2. CASE strategy = "refuse"
      <3>1. Hold(undo, Current.others) /\ Hold(redo, Current.others) /\ Hold(chain, Current.others)
        BY <2>2 DEF IInv, Agreement
      <3>2. Hold(redo', Current.others) /\ Last(redo).others = Current.others
        BY <1>1, <1>3, <3>1, HoldFacts
      <3>3. Hold(undo', Current.others) /\ Hold(chain', Current.others)
        BY <1>1, <1>2, <1>3, <3>1, <3>2, HoldFacts
      <3>4. Current'.others = Current.others
        BY <1>4, <3>2 DEF Current
      <3> QED
        BY <3>2, <3>3, <3>4 DEF IInv, Agreement, Redo
    <2> QED
      BY <2>1, <2>2
  <1> QED
    BY <1>6, <1>9, <1>10, <1>11, ServerUntouched DEF IInv, Redo

LEMMA ReconcileInv ==
    ASSUME IInv, Reconcile
    PROVE  IInv'
  <1>1. used' \in [Operations -> Nat]
    BY SpendType DEF IInv, TypeOK, Reconcile, Operations
  <1>2. TypeOK'
    BY <1>1 DEF IInv, TypeOK, Reconcile
  <1>3. StacksFit' /\ LoopMatches' /\ Agreement'
    BY DEF IInv, StacksFit, LoopMatches, Agreement, Current, Reconcile
  <1> QED
    BY <1>2, <1>3, ServerUntouched DEF IInv, Reconcile

-----------------------------------------------------------------------------
(* The loop *)

\* What no step of the loop touches.
LEMMA LocalUntouched ==
    ASSUME IInv, UNCHANGED <<undo, redo>>
    PROVE  StacksFit' /\ Current' = Current
  BY DEF IInv, StacksFit, Current

LEMMA IntendType ==
    ASSUME TypeOK, NEW s \in State, Intend(s)
    PROVE  /\ pending' \in State \union {None} /\ intent' \in State \union {None}
           /\ loop' \in {"none", "tick", "write", "reload", "resolved", "rejected", "reconcile"}
           /\ completed' \in BOOLEAN
  <1>1. CASE loop = "none"
    BY <1>1 DEF Intend
  <1>2. CASE loop # "none"
    BY <1>2 DEF TypeOK, Intend
  <1> QED
    BY <1>1, <1>2

LEMMA StartSyncInv ==
    ASSUME IInv, StartSync
    PROVE  IInv'
  <1>1. chain \in Seq(State) /\ Head(chain) \in State /\ Tail(chain) \in Seq(State)
    BY HeadTailProperties DEF IInv, TypeOK, StartSync
  <1>2. TypeOK'
    <2>1. CASE Blocked
      <3>1. syncError' = TRUE /\ chain' = Tail(chain) /\ UNCHANGED <<awaiting, pending, intent, loop, completed>>
        BY <2>1 DEF StartSync
      <3>2. syncError' \in BOOLEAN
        BY <3>1
      <3> QED
        BY <1>1, <3>1, <3>2 DEF IInv, TypeOK, StartSync
    <2>2. CASE ~Blocked
      <3>1. Intend(Head(chain)) /\ awaiting' = TRUE /\ UNCHANGED <<chain, syncError>>
        BY <2>2 DEF StartSync
      <3>2. awaiting' \in BOOLEAN
        BY <3>1
      <3> QED
        BY <1>1, <3>1, <3>2, IntendType DEF IInv, TypeOK, StartSync
    <2> QED
      BY <2>1, <2>2
  <1>3. LoopMatches'
    BY <1>1 DEF IInv, LoopMatches, StartSync, Intend
  <1>4. Agreement'
    <2>1. CASE strategy # "refuse"
      BY <2>1 DEF Agreement, StartSync
    <2>2. CASE strategy = "refuse"
      <3>1. Hold(chain, Current.others) /\ Head(chain).others = Current.others
            /\ Hold(Tail(chain), Current.others)
        BY <1>1, <2>2, HoldFacts DEF IInv, Agreement, StartSync
      <3>2. CASE Blocked
        BY <2>2, <3>1, <3>2, LocalUntouched DEF IInv, Agreement, StartSync
      <3>3. CASE ~Blocked
        <4>1. ~needsReconciliation
          BY <2>2, <3>3 DEF IInv, Agreement, Blocked
        <4> QED
          BY <2>2, <3>1, <3>3, <4>1, LocalUntouched DEF IInv, Agreement, StartSync, Intend
      <3> QED
        BY <3>2, <3>3
    <2> QED
      BY <2>1, <2>2
  <1> QED
    BY <1>2, <1>3, <1>4, LocalUntouched, ServerUntouched DEF IInv, StartSync

LEMMA DirectApplyInv ==
    ASSUME IInv, NEW e \in Edits, DirectApply(e)
    PROVE  IInv'
  <1> DEFINE new == [Current EXCEPT !.edit = e]
  <1>1. new \in State /\ new.others = Current.others
    BY CurrentType DEF IInv, State
  <1>2. Intend(new)
    BY DEF DirectApply
  <1> HIDE DEF new
  <1>3. used' \in [Operations -> Nat]
    BY SpendType DEF IInv, TypeOK, DirectApply, Operations
  <1>4. TypeOK'
    BY <1>1, <1>2, <1>3, IntendType DEF IInv, TypeOK, DirectApply
  <1>5. LoopMatches'
    BY <1>2 DEF IInv, LoopMatches, DirectApply, Intend
  <1>6. Agreement'
    <2>1. CASE strategy # "refuse"
      BY <2>1 DEF Agreement, DirectApply
    <2>2. CASE strategy = "refuse"
      <3>1. ~needsReconciliation
        BY <2>2 DEF IInv, Agreement, Blocked, DirectApply
      <3> QED
        BY <1>1, <1>2, <2>2, <3>1, LocalUntouched DEF IInv, Agreement, DirectApply, Intend
    <2> QED
      BY <2>1, <2>2
  <1> QED
    BY <1>4, <1>5, <1>6, LocalUntouched, ServerUntouched DEF IInv, DirectApply

\* A new request that is a safe write or a read keeps what is known of the server.
LEMMA SendKeepsServer ==
    ASSUME ServerInv, NEW r, SafeWrite(r), Send(r), UNCHANGED <<strategy, draft, store, late>>
    PROVE  ServerInv'
  BY DEF ServerInv, DraftsBegun, DraftWasServed, Served, WritesAreSafe, SafeWrite,
         AnswersAreServed, Send

\* Hanging up and adopting what was served keeps it too.
LEMMA HangupKeepsServer ==
    ASSUME ServerInv, Hangup, draft' = draft \/ (reply # None /\ reply.ok /\ draft' = reply.draft),
           UNCHANGED <<strategy, store, late>>
    PROVE  ServerInv'
  BY DEF ServerInv, DraftsBegun, DraftWasServed, Served, WritesAreSafe, SafeWrite,
         AnswersAreServed, Hangup

LEMMA FlushInv ==
    ASSUME IInv, Flush
    PROVE  IInv'
  <1>1. pending \in State /\ (draft # None => draft \in Draft)
    BY DEF IInv, TypeOK, Flush
  <1>2. /\ sending' \in State
        /\ strategy = "refuse" => sending' = pending
    <2>1. CASE automaticRebase /\ strategy = "rebase" /\ draft # None
      <3>1. sending' = Merged(pending, draft.body) /\ draft.body \in State
        BY <1>1, <2>1 DEF Flush, Draft
      <3> QED
        BY <1>1, <2>1, <3>1 DEF Merged, State
    <2>2. CASE ~(automaticRebase /\ strategy = "rebase" /\ draft # None)
      BY <1>1, <2>2 DEF Flush
    <2> QED
      BY <2>1, <2>2
  <1> DEFINE r == IF draft = None THEN [op |-> "create", body |-> sending']
                  ELSE [op |-> "replace", id |-> draft.id, generation |-> draft.generation,
                        body |-> sending']
  <1>3. r \in Writes /\ r.body = sending' /\ Send(r)
    BY <1>1, <1>2 DEF Flush, Writes, Creates, Replaces, Draft
  <1>4. SafeWrite(r)
    <2>1. CASE draft = None
      BY <2>1 DEF SafeWrite
    <2>2. CASE draft # None
      <3>1. Served(draft)
        BY <2>2 DEF IInv, ServerInv, DraftWasServed
      <3>2. strategy = "refuse" => draft.body.others = sending'.others
        BY <1>2, <2>2 DEF IInv, Agreement, LoopMatches, Flush
      <3> QED
        BY <2>2, <3>1, <3>2 DEF SafeWrite, Served
    <2> QED
      BY <2>1, <2>2
  <1> HIDE DEF r
  <1>5. TypeOK'
    BY <1>2, <1>3 DEF IInv, TypeOK, Flush, Send, Requests
  <1>6. LoopMatches'
    BY <1>3 DEF IInv, LoopMatches, Flush, Send
  <1>7. Agreement'
    BY <1>2, <1>3, LocalUntouched DEF IInv, Agreement, Flush, Send
  <1>8. ServerInv'
    BY <1>3, <1>4, SendKeepsServer DEF IInv, Flush
  <1> QED
    BY <1>5, <1>6, <1>7, <1>8, LocalUntouched DEF IInv, Flush

LEMMA EndLoopInv ==
    ASSUME IInv, EndLoop
    PROVE  IInv'
  <1>1. TypeOK'
    BY DEF IInv, TypeOK, EndLoop
  <1>2. LoopMatches' /\ Agreement'
    BY LocalUntouched DEF IInv, LoopMatches, Agreement, EndLoop
  <1> QED
    BY <1>1, <1>2, LocalUntouched, ServerUntouched DEF IInv, EndLoop

\* What a successful answer holds.
LEMMA AnswerType ==
    ASSUME IInv, Answered
    PROVE  reply.draft \in Draft /\ reply.draft.body \in State /\ Served(reply.draft)
           /\ (request.op # "get" => reply.draft.body = request.body)
  BY DEF IInv, TypeOK, Answered, Replies, Draft, ServerInv, AnswersAreServed

LEMMA AcceptedInv ==
    ASSUME IInv, Accepted
    PROVE  IInv'
  <1>1. reply.draft \in Draft /\ draft' = reply.draft
    BY AnswerType DEF Accepted
  <1>2. request \in Writes /\ request.op # "get"
    BY DEF IInv, LoopMatches, Accepted, Writes, Creates, Replaces
  <1>3. draft'.body = request.body
    BY <1>1, <1>2, AnswerType DEF Accepted
  <1>4. TypeOK'
    <2>1. needsReconciliation' \in BOOLEAN
      BY DEF IInv, TypeOK, Accepted
    <2> QED
      BY <1>1, <2>1 DEF IInv, TypeOK, Accepted, Hangup
  <1>5. LoopMatches'
    BY <1>1 DEF IInv, LoopMatches, Accepted, Hangup
  <1>6. Agreement'
    BY <1>3, LocalUntouched DEF IInv, Agreement, Accepted
  <1>7. ServerInv'
    BY HangupKeepsServer DEF IInv, Accepted, Answered
  <1> QED
    BY <1>4, <1>5, <1>6, <1>7, LocalUntouched DEF IInv, Accepted

LEMMA GetIsSafe ==
    ASSUME NEW i
    PROVE  SafeWrite([op |-> "get", id |-> i])
  BY DEF SafeWrite

LEMMA ConflictInv ==
    ASSUME IInv, Conflict
    PROVE  IInv'
  <1>1. draft \in Draft /\ draft.id \in Nat
    BY DEF IInv, TypeOK, LoopMatches, Conflict, Conflicted, Draft
  <1> DEFINE r == [op |-> "get", id |-> draft.id]
  <1>2. r \in Gets /\ Send(r) /\ SafeWrite(r)
    BY <1>1, GetIsSafe DEF Gets, Conflict
  <1> HIDE DEF r
  <1>3. TypeOK'
    <2>1. needsReconciliation' \in BOOLEAN
      BY DEF Conflict
    <2>2. automaticRebase' \in BOOLEAN
      BY DEF Conflict
    <2> QED
      BY <1>2, <2>1, <2>2 DEF IInv, TypeOK, Conflict, Send, Requests
  <1>4. LoopMatches'
    BY <1>2 DEF IInv, LoopMatches, Conflict, Send
  <1>5. Agreement'
    BY LocalUntouched DEF IInv, Agreement, Conflict
  <1>6. ServerInv'
    BY <1>2, SendKeepsServer DEF IInv, Conflict
  <1> QED
    BY <1>3, <1>4, <1>5, <1>6, LocalUntouched DEF IInv, Conflict

LEMMA ReloadedInv ==
    ASSUME IInv, Reloaded
    PROVE  IInv'
  <1>1. reply.draft \in Draft /\ draft' = reply.draft
    BY AnswerType DEF Reloaded
  <1>2. /\ pending' \in State \union {None} /\ loop' \in {"tick", "rejected"}
        /\ completed' \in BOOLEAN
    <2>1. CASE strategy = "refuse"
      BY <2>1 DEF IInv, TypeOK, Reloaded
    <2>2. CASE strategy # "refuse"
      BY <2>2 DEF IInv, TypeOK, Reloaded
    <2> QED
      BY <2>1, <2>2
  <1>3. TypeOK'
    BY <1>1, <1>2 DEF IInv, TypeOK, Reloaded, Hangup
  <1>4. LoopMatches'
    BY <1>2 DEF IInv, LoopMatches, Reloaded, Hangup
  <1>5. Agreement'
    BY LocalUntouched DEF IInv, Agreement, Reloaded
  <1>6. ServerInv'
    BY HangupKeepsServer DEF IInv, Reloaded, Answered
  <1> QED
    BY <1>3, <1>4, <1>5, <1>6, LocalUntouched DEF IInv, Reloaded

LEMMA FlushFailsInv ==
    ASSUME IInv, FlushFails
    PROVE  IInv'
  <1>1. TypeOK'
    BY DEF IInv, TypeOK, FlushFails, Hangup
  <1>2. LoopMatches' /\ Agreement'
    BY LocalUntouched DEF IInv, LoopMatches, Agreement, FlushFails, Hangup
  <1>3. ServerInv'
    BY HangupKeepsServer DEF IInv, FlushFails
  <1> QED
    BY <1>1, <1>2, <1>3, LocalUntouched DEF IInv, FlushFails

LEMMA CloseLoopInv ==
    ASSUME IInv, CloseLoop
    PROVE  IInv'
  <1>1. chain' \in Seq(State) /\ awaiting' \in BOOLEAN /\ syncError' \in BOOLEAN
    <2>1. CASE awaiting
      <3>1. chain' = Tail(chain)
        BY <2>1 DEF CloseLoop
      <3>2. chain' \in Seq(State)
        BY <2>1, <3>1, HeadTailProperties DEF IInv, TypeOK, LoopMatches
      <3>3. awaiting' \in BOOLEAN
        BY <2>1 DEF CloseLoop
      <3>4. syncError' \in BOOLEAN
        BY <2>1 DEF CloseLoop
      <3> QED
        BY <3>2, <3>3, <3>4
    <2>2. CASE ~awaiting
      BY <2>2 DEF IInv, TypeOK, CloseLoop
    <2> QED
      BY <2>1, <2>2
  <1>2. automaticRebase' \in BOOLEAN /\ loop' = "none" /\ ~awaiting' /\ loop # "reconcile"
    BY DEF IInv, TypeOK, CloseLoop
  <1>3. TypeOK'
    BY <1>1, <1>2 DEF IInv, TypeOK, CloseLoop
  <1>4. LoopMatches'
    BY <1>2 DEF IInv, LoopMatches, CloseLoop
  <1>5. Agreement'
    <2>1. CASE strategy # "refuse"
      BY <2>1 DEF Agreement, CloseLoop
    <2>2. CASE strategy = "refuse"
      <3>1. Hold(chain', Current.others)
        <4>1. CASE awaiting
          BY <2>2, <4>1, HoldFacts DEF IInv, TypeOK, LoopMatches, Agreement, CloseLoop
        <4>2. CASE ~awaiting
          BY <2>2, <4>2 DEF IInv, Agreement, CloseLoop
        <4> QED
          BY <4>1, <4>2
      <3> QED
        BY <1>2, <2>2, <3>1, LocalUntouched DEF IInv, Agreement, CloseLoop
    <2> QED
      BY <2>1, <2>2
  <1> QED
    BY <1>3, <1>4, <1>5, LocalUntouched, ServerUntouched DEF IInv, CloseLoop

-----------------------------------------------------------------------------
(* Reconciliation *)

LEMMA ReconcileRefusedInv ==
    ASSUME IInv, ReconcileRefused
    PROVE  IInv'
  <1>1. TypeOK'
    BY DEF IInv, TypeOK, ReconcileRefused
  <1>2. LoopMatches' /\ Agreement'
    BY LocalUntouched DEF IInv, LoopMatches, Agreement, ReconcileRefused
  <1> QED
    BY <1>1, <1>2, LocalUntouched, ServerUntouched DEF IInv, ReconcileRefused

LEMMA ReconcileStartsInv ==
    ASSUME IInv, ReconcileStarts
    PROVE  IInv'
  <1>1. draft \in Draft /\ draft.id \in Nat
    BY DEF IInv, TypeOK, ReconcileStarts, Draft
  <1> DEFINE r == [op |-> "get", id |-> draft.id]
  <1>2. r \in Gets /\ Send(r) /\ SafeWrite(r)
    BY <1>1, GetIsSafe DEF Gets, ReconcileStarts
  <1> HIDE DEF r
  <1>3. TypeOK'
    BY <1>2 DEF IInv, TypeOK, ReconcileStarts, Send, Requests
  <1>4. LoopMatches'
    BY <1>2 DEF IInv, LoopMatches, ReconcileStarts, Send
  <1>5. Agreement'
    BY LocalUntouched DEF IInv, Agreement, ReconcileStarts
  <1>6. ServerInv'
    BY <1>2, SendKeepsServer DEF IInv, ReconcileStarts
  <1> QED
    BY <1>3, <1>4, <1>5, <1>6, LocalUntouched DEF IInv, ReconcileStarts

\* The reconciling write keeps what the revision it names held of others.
LEMMA ReconcileWritesInv ==
    ASSUME IInv, ReconcileWrites
    PROVE  IInv'
  <1>1. reply.draft \in Draft /\ reply.draft.body \in State /\ Served(reply.draft)
    BY AnswerType DEF ReconcileWrites
  <1> DEFINE merged == Merged(Current, reply.draft.body)
  <1>2. merged \in State /\ reply.draft.body.others \subseteq merged.others
    BY <1>1, CurrentType DEF IInv, Merged, State
  <1> HIDE DEF merged
  <1> DEFINE r == [op |-> "replace", id |-> reply.draft.id,
                   generation |-> reply.draft.generation, body |-> merged]
  <1>3. r \in Writes /\ Send(r)
    BY <1>1, <1>2 DEF Writes, Replaces, Draft, ReconcileWrites, merged
  <1>4. SafeWrite(r)
    BY <1>1, <1>2 DEF SafeWrite, Served
  <1> HIDE DEF r
  <1>5. TypeOK'
    BY <1>3 DEF IInv, TypeOK, ReconcileWrites, Send, Requests
  <1>6. LoopMatches'
    BY DEF IInv, LoopMatches, ReconcileWrites, Send
  <1>7. Agreement'
    BY LocalUntouched DEF IInv, LoopMatches, Agreement, ReconcileWrites
  <1>8. ServerInv'
    BY <1>3, <1>4, SendKeepsServer DEF IInv, ReconcileWrites
  <1> QED
    BY <1>5, <1>6, <1>7, <1>8, LocalUntouched DEF IInv, ReconcileWrites

LEMMA ReconcileLandsInv ==
    ASSUME IInv, ReconcileLands
    PROVE  IInv'
  <1>1. reply.draft \in Draft /\ draft' = reply.draft
    BY AnswerType DEF ReconcileLands
  <1>2. TypeOK'
    BY <1>1, ZenonT(60) DEF IInv, TypeOK, ReconcileLands, Hangup
  <1>3. LoopMatches'
    BY <1>1 DEF IInv, LoopMatches, ReconcileLands, Hangup
  <1>4. Agreement'
    BY LocalUntouched DEF IInv, LoopMatches, Agreement, ReconcileLands
  <1>5. ServerInv'
    BY HangupKeepsServer DEF IInv, ReconcileLands, Answered
  <1> QED
    BY <1>2, <1>3, <1>4, <1>5, LocalUntouched DEF IInv, ReconcileLands

LEMMA ReconcileAdoptsInv ==
    ASSUME IInv, ReconcileAdopts
    PROVE  IInv'
  <1>1. draft \in Draft /\ draft.body \in State
    BY DEF IInv, TypeOK, LoopMatches, ReconcileAdopts, Draft
  <1>2. undo' = <<draft.body>> /\ redo' = <<>> /\ loop = "reconcile" /\ chain = <<>>
    BY DEF IInv, LoopMatches, ReconcileAdopts
  <1>3. /\ undo' \in Seq(State) /\ Len(undo') = 1 /\ Last(undo') = draft.body
        /\ redo' \in Seq(State) /\ Len(redo') = 0
    BY <1>1, <1>2 DEF Last
  <1>4. TypeOK'
    <2>1. Len(undo') \in 1..MaxRevisions
      BY <1>3, RevisionsAssumption
    <2>2. syncError' \in BOOLEAN
      BY DEF ReconcileAdopts
    <2> QED
      BY <1>3, <2>1, <2>2 DEF IInv, TypeOK, ReconcileAdopts
  <1>5. StacksFit'
    BY <1>3, RevisionsAssumption DEF StacksFit
  <1>6. LoopMatches'
    BY DEF IInv, LoopMatches, ReconcileAdopts
  <1>7. Agreement'
    <2>1. Current' = draft.body
      BY <1>3 DEF Current
    <2>2. \A i \in 1..Len(undo') : undo'[i] = draft.body
      BY <1>2, <1>3
    <2>3. Hold(undo', draft.body.others)
      BY <2>2 DEF Hold
    <2>4. Hold(redo', draft.body.others) /\ Hold(chain', draft.body.others)
      BY <1>2 DEF Hold, ReconcileAdopts
    <2> QED
      BY <2>1, <2>3, <2>4 DEF IInv, Agreement, ReconcileAdopts
  <1> QED
    BY <1>4, <1>5, <1>6, <1>7, ServerUntouched DEF IInv, ReconcileAdopts

LEMMA ReconcileFailsInv ==
    ASSUME IInv, ReconcileFails
    PROVE  IInv'
  <1>1. syncError' \in BOOLEAN
    BY DEF ReconcileFails
  <1>2. TypeOK'
    BY <1>1 DEF IInv, TypeOK, ReconcileFails, Hangup
  <1>3. LoopMatches' /\ Agreement'
    BY LocalUntouched DEF IInv, LoopMatches, Agreement, ReconcileFails, Hangup
  <1>4. ServerInv'
    BY HangupKeepsServer DEF IInv, ReconcileFails
  <1> QED
    BY <1>2, <1>3, <1>4, LocalUntouched DEF IInv, ReconcileFails

-----------------------------------------------------------------------------
(* The store and the network *)

\* What a step that only answers, stores or loses leaves alone.
ClientVars == <<undo, redo, reconciling, chain, awaiting, syncError, draft, pending, intent,
                loop, sending, completed, needsReconciliation, automaticRebase, request, strategy>>

LEMMA ClientUntouched ==
    ASSUME IInv, UNCHANGED ClientVars
    PROVE  StacksFit' /\ Agreement'
  BY DEF IInv, StacksFit, Agreement, Current, ClientVars

LEMMA AnswerKeepsServer ==
    ASSUME ServerInv, UNCHANGED <<strategy, draft, request, store, late>>
    PROVE  DraftsBegun' /\ DraftWasServed' /\ WritesAreSafe'
  BY DEF ServerInv, DraftsBegun, DraftWasServed, Served, WritesAreSafe, SafeWrite

LEMMA ServerGetInv ==
    ASSUME IInv, ServerGet
    PROVE  IInv'
  <1>1. request \in Gets /\ request.id \in Nat /\ request # None /\ request.op = "get"
    BY DEF IInv, TypeOK, Requests, Writes, Creates, Replaces, Gets, ServerGet, Unanswered
  <1>u. UNCHANGED ClientVars /\ UNCHANGED <<store, late, used>>
    BY DEF ServerGet, ClientVars
  <1>2. CASE Exists(request.id)
    <2> DEFINE d == Read(request.id)
    <2>1. store[request.id] \in Seq(State) /\ Len(store[request.id]) > 0
          /\ Len(store[request.id]) \in Nat
      BY <1>2 DEF IInv, TypeOK, ServerInv, DraftsBegun, Exists
    <2>2. Last(store[request.id]) \in State
          /\ Last(store[request.id]) = store[request.id][Len(store[request.id])]
      BY <2>1, LastType, EmptySeq
    <2>3. d \in Draft /\ Served(d)
      BY <1>1, <1>2, <2>1, <2>2 DEF Draft, Read, Served, Exists
    <2>4. reply' = [ok |-> TRUE, draft |-> d]
      BY <1>2 DEF ServerGet
    <2> HIDE DEF d
    <2>5. reply' \in Replies
      BY <2>3, <2>4 DEF Replies
    <2>6. TypeOK'
      BY <1>u, <2>5 DEF IInv, TypeOK, ClientVars
    <2>7. LoopMatches'
      BY <1>u, <2>4 DEF IInv, LoopMatches, ClientVars
    <2>8. AnswersAreServed'
      BY <1>u, <1>1, <2>3, <2>4 DEF AnswersAreServed, Served, ClientVars
    <2>9. ServerInv'
      BY <1>u, <2>8, AnswerKeepsServer DEF IInv, ServerInv, ClientVars
    <2> QED
      BY <2>6, <2>7, <2>9, <1>u, ClientUntouched DEF IInv
  <1>3. CASE ~Exists(request.id)
    <2>1. reply' = [ok |-> FALSE, conflict |-> FALSE]
      BY <1>3 DEF ServerGet, Refusal
    <2>2. reply' \in Replies
      BY <2>1 DEF Replies
    <2>3. TypeOK'
      BY <1>u, <2>2 DEF IInv, TypeOK, ClientVars
    <2>4. LoopMatches'
      BY <1>u, <2>1 DEF IInv, LoopMatches, ClientVars
    <2>5. ServerInv'
      BY <1>u, <2>1, AnswerKeepsServer DEF IInv, ServerInv, AnswersAreServed, ClientVars
    <2> QED
      BY <2>3, <2>4, <2>5, <1>u, ClientUntouched DEF IInv
  <1> QED
    BY <1>2, <1>3

\* A store that only grew keeps what is known of it, but for a new answer.
LEMMA GrowthKeepsServer ==
    ASSUME IInv, store' \in Seq(Seq(State)), DraftsBegun', Grows,
           late' \subseteq late, UNCHANGED <<strategy, draft, request>>
    PROVE  DraftWasServed' /\ WritesAreSafe' /\ (reply' = reply => AnswersAreServed')
  <1>1. /\ store \in Seq(Seq(State)) /\ (draft # None => draft \in Draft) /\ late \subseteq Writes
        /\ (reply # None /\ reply.ok => reply.draft \in Draft)
    BY DEF IInv, TypeOK, Replies
  <1>2. draft # None => Served(draft)
    BY DEF IInv, ServerInv, DraftWasServed
  <1>3. DraftWasServed'
    BY <1>1, <1>2, GrowthKeepsServed DEF DraftWasServed, Served
  <1>4. \A r \in Writes : SafeWrite(r) => SafeWrite(r)'
    BY <1>1, GrowthKeepsServed DEF SafeWrite
  <1>5. \A r \in Gets : SafeWrite(r)'
    BY DEF Gets, SafeWrite
  <1>6. request # None => request \in Writes \union Gets
    BY DEF IInv, TypeOK, Requests
  <1>7. WritesAreSafe'
    <2>1. request' # None => SafeWrite(request)'
      BY <1>4, <1>5, <1>6 DEF IInv, ServerInv, WritesAreSafe
    <2>2. \A r \in late' : SafeWrite(r)'
      BY <1>1, <1>4 DEF IInv, ServerInv, WritesAreSafe
    <2> QED
      BY <2>1, <2>2 DEF WritesAreSafe, SafeWrite
  <1>8. ASSUME reply' = reply PROVE AnswersAreServed'
    BY <1>1, <1>8, GrowthKeepsServed DEF IInv, ServerInv, AnswersAreServed, Served
  <1> QED
    BY <1>3, <1>7, <1>8

\* What the store makes of a safe write it accepts is served from then on.
LEMMA StoredKeepsServer ==
    ASSUME IInv, NEW r \in Writes, SafeWrite(r), Accepts(r), store' = Stored(r),
           late' \subseteq late, UNCHANGED <<strategy, draft, request>>
    PROVE  /\ store' \in Seq(Seq(State)) /\ DraftsBegun' /\ DraftWasServed' /\ WritesAreSafe'
           /\ reply' = reply => AnswersAreServed'
           /\ Reached(r).draft \in Draft /\ ServedNext(Reached(r).draft)
           /\ Reached(r).draft.body = r.body
  <1>1. store \in Seq(Seq(State)) /\ DraftsBegun /\ Len(store) \in Nat /\ r.body \in State
    BY DEF IInv, TypeOK, ServerInv, Writes, Creates, Replaces
  <1>2. /\ store' \in Seq(Seq(State)) /\ DraftsBegun' /\ Grows
        /\ r.op = "create" => Len(store') = Len(store) + 1 /\ store'[Len(store) + 1] = <<r.body>>
        /\ r.op = "replace" => /\ r.id \in 1..Len(store) /\ Len(store') = Len(store)
                               /\ store'[r.id] = Append(store[r.id], r.body)
    BY <1>1, StoredFacts
  <1> DEFINE d == Reached(r).draft
  <1>3. d.body = r.body
    BY DEF Reached
  <1>4. d \in Draft /\ ServedNext(d)
    <2>1. CASE r.op = "create"
      <3>1. d = [id |-> Len(store) + 1, generation |-> 1, body |-> r.body]
        BY <2>1 DEF Reached
      <3> HIDE DEF d
      <3>2. <<r.body>>[1] = r.body /\ Len(<<r.body>>) = 1
        OBVIOUS
      <3> QED
        BY <1>1, <1>2, <2>1, <3>1, <3>2 DEF Draft, ServedNext
    <2>2. CASE r.op = "replace"
      <3>1. d = [id |-> r.id, generation |-> Len(store[r.id]) + 1, body |-> r.body]
        BY <2>2 DEF Reached
      <3> HIDE DEF d
      <3>2. store[r.id] \in Seq(State) /\ Len(store[r.id]) \in Nat
        BY <1>1, <1>2, <2>2
      <3>3. Len(store'[r.id]) = Len(store[r.id]) + 1
            /\ store'[r.id][Len(store[r.id]) + 1] = r.body
        BY <1>1, <1>2, <2>2, <3>2, AppendFacts
      <3>4. r.id \in 1..Len(store') /\ r.id \in Nat
        BY <1>1, <1>2, <2>2
      <3> QED
        BY <1>1, <3>1, <3>2, <3>3, <3>4 DEF Draft, ServedNext
    <2> QED
      BY <2>1, <2>2 DEF Writes, Creates, Replaces
  <1> QED
    BY <1>2, <1>3, <1>4, GrowthKeepsServer

LEMMA ServerWriteInv ==
    ASSUME IInv, ServerWrite
    PROVE  IInv'
  <1>1. request \in Writes /\ SafeWrite(request) /\ request # None /\ request.op # "get"
    BY DEF IInv, TypeOK, Requests, Gets, ServerWrite, Unanswered, ServerInv, WritesAreSafe
  <1>2. UNCHANGED ClientVars /\ UNCHANGED <<late, used>>
    BY DEF ServerWrite, ClientVars
  <1>3. CASE Accepts(request)
    <2>1. store' = Stored(request) /\ reply' = Reached(request)
      BY <1>3 DEF ServerWrite
    <2>2. /\ store' \in Seq(Seq(State)) /\ DraftsBegun' /\ DraftWasServed' /\ WritesAreSafe'
          /\ reply'.draft \in Draft /\ ServedNext(reply'.draft) /\ reply'.draft.body = request.body
      <3>1. late' \subseteq late /\ UNCHANGED <<strategy, draft, request>>
        BY <1>2 DEF ClientVars
      <3> QED
        BY <1>1, <1>3, <2>1, <3>1, StoredKeepsServer
    <2>3. reply' = [ok |-> TRUE, draft |-> reply'.draft] /\ reply'.ok
      BY <2>1 DEF Reached
    <2>4. reply' \in Replies
      <3> DEFINE d == reply'.draft
      <3>1. d \in Draft /\ reply' = [ok |-> TRUE, draft |-> d]
        BY <2>2, <2>3
      <3> HIDE DEF d
      <3> QED
        BY <3>1 DEF Replies
    <2>5. TypeOK'
      BY <1>2, <2>2, <2>4 DEF IInv, TypeOK, ClientVars
    <2>6. LoopMatches'
      BY <1>2, <2>3 DEF IInv, LoopMatches, ClientVars
    <2>7. AnswersAreServed'
      BY <1>1, <1>2, <2>2 DEF AnswersAreServed, Served, ServedNext, ClientVars
    <2> QED
      BY <1>2, <2>2, <2>5, <2>6, <2>7, ClientUntouched DEF IInv, ServerInv
  <1>4. CASE ~Accepts(request)
    <2>1. store' = store /\ reply' = [ok |-> FALSE, conflict |-> TRUE]
      BY <1>4 DEF ServerWrite, Refusal
    <2>2. reply' \in Replies
      BY <2>1 DEF Replies
    <2>3. request.op = "replace"
      BY <1>1, <1>4 DEF Accepts, Writes, Creates, Replaces
    <2>4. TypeOK'
      BY <1>2, <2>1, <2>2 DEF IInv, TypeOK, ClientVars
    <2>5. LoopMatches'
      BY <1>2, <2>1, <2>3 DEF IInv, LoopMatches, ClientVars
    <2>6. ServerInv'
      BY <1>2, <2>1, AnswerKeepsServer DEF IInv, ServerInv, AnswersAreServed, ClientVars
    <2> QED
      BY <1>2, <2>4, <2>5, <2>6, ClientUntouched DEF IInv
  <1> QED
    BY <1>3, <1>4

LEMMA LoseRequestInv ==
    ASSUME IInv, LoseRequest
    PROVE  IInv'
  <1>1. UNCHANGED ClientVars /\ store' = store
    BY DEF LoseRequest, ClientVars
  <1>2. reply' = [ok |-> FALSE, conflict |-> FALSE]
    BY DEF LoseRequest, Refusal
  <1>3. reply' \in Replies
    BY <1>2 DEF Replies
  <1>4. used' \in [Operations -> Nat]
    BY SpendType DEF IInv, TypeOK, LoseRequest, Operations
  <1>5. late' = late \/ (late' = late \union {request} /\ request \in Writes /\ request # None)
    BY DEF IInv, TypeOK, LoseRequest, Unanswered, Requests, Gets
  <1>6. late' \subseteq Writes
    BY <1>5 DEF IInv, TypeOK
  <1>7. TypeOK'
    BY <1>1, <1>3, <1>4, <1>6 DEF IInv, TypeOK, ClientVars
  <1>8. LoopMatches'
    BY <1>1, <1>2 DEF IInv, LoopMatches, ClientVars
  <1>9. ServerInv'
    BY <1>1, <1>2, <1>5 DEF IInv, ServerInv, DraftsBegun, DraftWasServed, Served, WritesAreSafe,
                            SafeWrite, AnswersAreServed, ClientVars
  <1> QED
    BY <1>1, <1>7, <1>8, <1>9, ClientUntouched DEF IInv

LEMMA LoseReplyInv ==
    ASSUME IInv, LoseReply
    PROVE  IInv'
  <1>1. UNCHANGED ClientVars /\ UNCHANGED <<store, late>>
    BY DEF LoseReply, ClientVars
  <1>2. reply' = [ok |-> FALSE, conflict |-> FALSE]
    BY DEF LoseReply, Refusal
  <1>3. reply' \in Replies
    BY <1>2 DEF Replies
  <1>4. used' \in [Operations -> Nat]
    BY SpendType DEF IInv, TypeOK, LoseReply, Operations
  <1>5. TypeOK'
    BY <1>1, <1>3, <1>4 DEF IInv, TypeOK, ClientVars
  <1>6. LoopMatches'
    BY <1>1, <1>2 DEF IInv, LoopMatches, ClientVars
  <1>7. ServerInv'
    BY <1>1, <1>2, AnswerKeepsServer DEF IInv, ServerInv, AnswersAreServed, ClientVars
  <1> QED
    BY <1>1, <1>5, <1>6, <1>7, ClientUntouched DEF IInv

\* A store step that leaves the wire alone.
LEMMA StoreStepInv ==
    ASSUME IInv, UNCHANGED ClientVars, reply' = reply, late' \subseteq late,
           used' \in [Operations -> Nat], store' \in Seq(Seq(State)),
           DraftsBegun' /\ DraftWasServed' /\ WritesAreSafe' /\ AnswersAreServed'
    PROVE  IInv'
  <1>1. TypeOK'
    BY DEF IInv, TypeOK, ClientVars
  <1>2. LoopMatches'
    BY DEF IInv, LoopMatches, ClientVars
  <1> QED
    BY <1>1, <1>2, ClientUntouched DEF IInv, ServerInv

LEMMA LateWriteInv ==
    ASSUME IInv, LateWrite
    PROVE  IInv'
  <1>1. PICK r \in late : /\ late' = late \ {r}
                          /\ store' = IF Accepts(r) THEN Stored(r) ELSE store
                          /\ UNCHANGED ClientVars /\ UNCHANGED <<reply, used>>
    BY DEF LateWrite, ClientVars
  <1>2. r \in Writes /\ SafeWrite(r) /\ used \in [Operations -> Nat]
    BY DEF IInv, TypeOK, ServerInv, WritesAreSafe
  <1>3. late' \subseteq late /\ UNCHANGED <<strategy, draft, request, reply>>
    BY <1>1 DEF ClientVars
  <1>4. /\ store' \in Seq(Seq(State)) /\ DraftsBegun' /\ DraftWasServed' /\ WritesAreSafe'
        /\ AnswersAreServed'
    <2>1. CASE Accepts(r)
      <3>1. store' = Stored(r)
        BY <1>1, <2>1
      <3> QED
        BY <1>2, <1>3, <2>1, <3>1, StoredKeepsServer
    <2>2. CASE ~Accepts(r)
      <3>1. store' = store
        BY <1>1, <2>2
      <3>2. DraftsBegun' /\ DraftWasServed' /\ AnswersAreServed' /\ store' \in Seq(Seq(State))
        BY <1>3, <3>1 DEF IInv, TypeOK, ServerInv, DraftsBegun, DraftWasServed, Served, AnswersAreServed
      <3>3. WritesAreSafe'
        BY <1>3, <3>1 DEF IInv, ServerInv, WritesAreSafe, SafeWrite
      <3> QED
        BY <3>2, <3>3
    <2> QED
      BY <2>1, <2>2
  <1> QED
    BY <1>1, <1>2, <1>3, <1>4, StoreStepInv

\* Another session's revision holds what the one before it held.
LEMMA OtherAddsFacts ==
    ASSUME IInv, NEW d \in 1..Len(store), NEW e \in Additions, OtherAdds(d, e)
    PROVE  /\ store' \in Seq(Seq(State)) /\ DraftsBegun' /\ Grows /\ Promise!Next
  <1>1. /\ store \in Seq(Seq(State)) /\ store[d] \in Seq(State) /\ Len(store[d]) \in Nat
        /\ Len(store[d]) > 0
    BY DEF IInv, TypeOK, ServerInv, DraftsBegun
  <1> DEFINE new == [Last(store[d]) EXCEPT !.others = @ \union {e}]
             longer == Append(store[d], new)
  <1>2. new \in State
    <2>1. Last(store[d]) \in State
      BY <1>1, LastType, EmptySeq
    <2> QED
      BY <2>1 DEF State
  <1>3. store' = [store EXCEPT ![d] = longer]
    <2>1. store' = [store EXCEPT ![d] = Append(store[d], [Last(store[d]) EXCEPT !.others = @ \union {e}])]
      BY DEF OtherAdds
    <2> QED
      BY <2>1
  <1>4. Promise!Next
    <2>1. store' = [store EXCEPT ![d] = Append(@, [Promise!Newest(d) EXCEPT !.others = @ \union {e}])]
      BY <1>3 DEF Promise!Newest, Last
    <2>2. Promise!Add(d, e)
      BY <2>1 DEF Promise!Add, OtherAdds
    <2> QED
      BY <2>2 DEF Promise!Next
  <1> HIDE DEF new
  <1>5. /\ longer \in Seq(State) /\ Len(longer) = Len(store[d]) + 1
        /\ \A g \in 1..Len(store[d]) : longer[g] = store[d][g]
    BY <1>1, <1>2, AppendFacts
  <1> HIDE DEF longer
  <1>6. /\ store' \in Seq(Seq(State)) /\ Len(store') = Len(store)
        /\ \A i \in 1..Len(store) : store'[i] = IF i = d THEN longer ELSE store[i]
    BY <1>1, <1>3, <1>5, ExceptSeq
  <1>7. \A i \in 1..Len(store) : Len(store[i]) \in Nat
    BY <1>1
  <1>8. ASSUME NEW i \in 1..Len(store)
        PROVE  /\ Len(store'[i]) > 0 /\ Len(store[i]) <= Len(store'[i])
               /\ \A g \in 1..Len(store[i]) : store'[i][g] = store[i][g]
    <2>1. CASE i = d
      BY <1>1, <1>5, <1>6, <2>1
    <2>2. CASE i # d
      BY <1>6, <1>7, <2>2 DEF IInv, ServerInv, DraftsBegun
    <2> QED
      BY <2>1, <2>2
  <1>9. Len(store) <= Len(store')
    BY <1>6
  <1> QED
    BY <1>4, <1>6, <1>8, <1>9 DEF DraftsBegun, Grows

LEMMA OtherAddsInv ==
    ASSUME IInv, NEW d \in 1..Len(store), NEW e \in Additions, OtherAdds(d, e)
    PROVE  IInv'
  <1>1. /\ store' \in Seq(Seq(State)) /\ DraftsBegun' /\ Grows
    BY OtherAddsFacts
  <1>2. UNCHANGED ClientVars /\ UNCHANGED <<reply, late>>
    BY DEF OtherAdds, ClientVars
  <1>3. used' \in [Operations -> Nat]
    BY SpendType DEF IInv, TypeOK, OtherAdds, Operations
  <1>4. DraftWasServed' /\ WritesAreSafe' /\ AnswersAreServed'
    BY <1>1, <1>2, GrowthKeepsServer DEF ClientVars
  <1> QED
    BY <1>1, <1>2, <1>3, <1>4, StoreStepInv

-----------------------------------------------------------------------------
(* Init, Next and the theorems *)

LEMMA InitInv == Init => IInv
  <1> SUFFICES ASSUME Init PROVE IInv
    OBVIOUS
  <1>1. PICK e \in Edits : undo = <<[edit |-> e, others |-> {}]>>
    BY DEF Init
  <1>2. /\ undo \in Seq(State) /\ Len(undo) = 1 /\ Len(redo) = 0 /\ redo \in Seq(State)
        /\ Len(undo) \in 1..MaxRevisions
    BY <1>1, RevisionsAssumption DEF Init, State
  <1>3. store \in Seq(Seq(State)) /\ Len(store) = 0 /\ chain \in Seq(State)
    BY DEF Init
  <1>4. used \in [Operations -> Nat]
    BY DEF Init
  <1>5. TypeOK
    BY <1>2, <1>3, <1>4 DEF Init, TypeOK
  <1>6. StacksFit
    BY <1>2, RevisionsAssumption DEF StacksFit
  <1>7. LoopMatches
    BY DEF Init, LoopMatches
  <1>8. ServerInv
    BY <1>3 DEF Init, ServerInv, DraftsBegun, DraftWasServed, WritesAreSafe, AnswersAreServed
  <1>9. Agreement
    <2>1. Hold(undo, Current.others)
      <3>1. \A i \in 1..Len(undo) : undo[i] = undo[1]
        BY <1>2
      <3>2. Current = undo[1]
        BY <1>2 DEF Current, Last
      <3> QED
        BY <3>1, <3>2 DEF Hold
    <2>2. Hold(redo, Current.others) /\ Hold(chain, Current.others)
      BY DEF Init, Hold
    <2> QED
      BY <2>1, <2>2 DEF Init, Agreement
  <1> QED
    BY <1>5, <1>6, <1>7, <1>8, <1>9 DEF IInv

LEMMA StutterInv == IInv /\ UNCHANGED vars => IInv'
  <1> SUFFICES ASSUME IInv, UNCHANGED vars PROVE IInv'
    OBVIOUS
  <1>1. UNCHANGED ClientVars /\ UNCHANGED <<reply, store, late, used>>
    BY DEF vars, ClientVars
  <1>2. ServerInv'
    BY <1>1, ServerUntouched DEF IInv, ClientVars
  <1> QED
    BY <1>1, <1>2, StoreStepInv DEF IInv, ServerInv, TypeOK

LEMMA NextInv == IInv /\ [Next]_vars => IInv'
  <1> SUFFICES ASSUME IInv, [Next]_vars PROVE IInv'
    OBVIOUS
  <1>1. ASSUME Call PROVE IInv'
    BY <1>1, EditInv, UndoInv, RedoInv, ReconcileInv, DirectApplyInv DEF Call
  <1>2. ASSUME Run PROVE IInv'
    BY <1>2, StartSyncInv, FlushInv, EndLoopInv, AcceptedInv, ConflictInv, ReloadedInv,
       FlushFailsInv, CloseLoopInv, ReconcileRefusedInv, ReconcileStartsInv, ReconcileWritesInv,
       ReconcileLandsInv, ReconcileAdoptsInv, ReconcileFailsInv DEF Run
  <1>3. ASSUME Respond PROVE IInv'
    BY <1>3, ServerGetInv, ServerWriteInv DEF Respond
  <1>4. ASSUME Network PROVE IInv'
    BY <1>4, LoseRequestInv, LoseReplyInv, LateWriteInv, OtherAddsInv DEF Network
  <1> QED
    BY <1>1, <1>2, <1>3, <1>4, StutterInv DEF Next

THEOREM Invariance == Spec => []IInv
  BY InitInv, NextInv, PTL DEF Spec

\* Every variable keeps its type, the undo stack its bounds, whatever the
\* session, the other sessions and the network do.
THEOREM TypeCorrect == Spec => []TypeOK
  <1>1. IInv => TypeOK
    BY DEF IInv
  <1> QED
    BY <1>1, Invariance, PTL

\* The draft the client writes against is always a revision the server accepted.
THEOREM ServedDraft == Spec => []DraftWasServed
  <1>1. IInv => DraftWasServed
    BY DEF IInv, ServerInv
  <1> QED
    BY <1>1, Invariance, PTL

\* The client holds a revision the server accepted and an undo stack within its bound.
THEOREM HeldDraft == Spec => []HoldsServedDraft
  <1>1. IInv => HoldsServedDraft
    BY DEF IInv, ServerInv, HoldsServedDraft
  <1> QED
    BY <1>1, Invariance, PTL

\* Each step is a step of ReconciledDrafts or leaves the drafts alone.
LEMMA StepRefines == IInv /\ [Next]_vars => [Promise!Next]_<<strategy, store>>
  <1> SUFFICES ASSUME IInv, [Next]_vars PROVE [Promise!Next]_<<strategy, store>>
    OBVIOUS
  <1>1. ASSUME Call \/ Run \/ ServerGet \/ LoseRequest \/ LoseReply \/ UNCHANGED vars
        PROVE  UNCHANGED <<strategy, store>>
    <2>1. ASSUME Call PROVE UNCHANGED <<strategy, store>>
      BY <2>1 DEF Call, Edit, Undo, Redo, Reconcile, DirectApply
    <2>2. ASSUME StartSync \/ Flush \/ EndLoop \/ Accepted \/ Conflict \/ Reloaded \/ FlushFails
                 \/ CloseLoop
          PROVE  UNCHANGED <<strategy, store>>
      BY <2>2 DEF StartSync, Flush, EndLoop, Accepted, Conflict, Reloaded, FlushFails, CloseLoop
    <2>3. ASSUME ReconcileRefused \/ ReconcileStarts \/ ReconcileWrites \/ ReconcileLands
                 \/ ReconcileAdopts \/ ReconcileFails
          PROVE  UNCHANGED <<strategy, store>>
      BY <2>3 DEF ReconcileRefused, ReconcileStarts, ReconcileWrites, ReconcileLands,
                  ReconcileAdopts, ReconcileFails
    <2>4. ASSUME ServerGet \/ LoseRequest \/ LoseReply \/ UNCHANGED vars
          PROVE  UNCHANGED <<strategy, store>>
      BY <2>4 DEF ServerGet, LoseRequest, LoseReply, vars
    <2> QED
      BY <1>1, <2>1, <2>2, <2>3, <2>4 DEF Run
  <1>2. ASSUME NEW r \in Writes, SafeWrite(r), Accepts(r), store' = Stored(r), strategy' = strategy
        PROVE  Promise!Next
    BY <1>2, StoredFacts DEF IInv, TypeOK, ServerInv
  <1>3. ASSUME ServerWrite PROVE [Promise!Next]_<<strategy, store>>
    <2>1. request \in Writes /\ SafeWrite(request) /\ strategy' = strategy
      BY <1>3 DEF IInv, TypeOK, Requests, Gets, ServerWrite, Unanswered, ServerInv, WritesAreSafe
    <2> QED
      BY <1>2, <1>3, <2>1 DEF ServerWrite
  <1>4. ASSUME LateWrite PROVE [Promise!Next]_<<strategy, store>>
    <2>1. PICK r \in late : store' = (IF Accepts(r) THEN Stored(r) ELSE store) /\ strategy' = strategy
      BY <1>4 DEF LateWrite
    <2>2. r \in Writes /\ SafeWrite(r)
      BY DEF IInv, TypeOK, ServerInv, WritesAreSafe
    <2>3. CASE Accepts(r)
      BY <1>2, <2>1, <2>2, <2>3
    <2>4. CASE ~Accepts(r)
      BY <2>1, <2>4
    <2> QED
      BY <2>3, <2>4
  <1>5. ASSUME NEW d \in 1..Len(store), NEW e \in Additions, OtherAdds(d, e)
        PROVE  [Promise!Next]_<<strategy, store>>
    BY <1>5, OtherAddsFacts
  <1> QED
    BY <1>1, <1>3, <1>4, <1>5 DEF Next, Respond, Network

\* The drafts on the server evolve only as ReconciledDrafts allows: without a
\* rebase strategy no revision this session writes drops what another added.
THEOREM Refinement == Spec => Implements
  <1>1. Init => Promise!Init
    BY DEF Init, Promise!Init
  <1>2. IInv /\ [Next]_vars => [Promise!Next]_<<strategy, store>>
    BY StepRefines
  <1> QED
    BY <1>1, <1>2, Invariance, PTL DEF Spec, Implements, Promise!Spec

-----------------------------------------------------------------------------
(* The latest intent *)

\* Where the state last handed to apply is while a loop runs: it waits, it is
\* being sent, or the draft holds its edit.
IntentKept ==
    /\ loop \in {"tick", "write", "reload", "resolved"} /\ pending # None
         => pending.edit = intent.edit
    /\ loop \in {"write", "reload"} =>
         sending \in State /\ (pending = None => sending.edit = intent.edit)
    /\ loop = "write" => request.body = sending
    /\ loop \in {"tick", "resolved"} /\ pending = None => draft.body.edit = intent.edit

\* A state handed to apply waits for the loop that runs, or starts one.
LEMMA IntendIntent ==
    ASSUME IntentKept, NEW s \in State, Intend(s), UNCHANGED <<draft, sending, request>>
    PROVE  IntentKept'
  <1>1. pending' = s /\ intent' = s /\ pending' # None
    BY NoneIsNoState DEF Intend
  <1>2. loop' = loop \/ loop' = "tick"
    BY DEF Intend
  <1> QED
    BY <1>1, <1>2 DEF IntentKept

LEMMA FlushIntent ==
    ASSUME IInv, IntentKept, Flush
    PROVE  IntentKept'
  <1>1. pending \in State /\ pending.edit = intent.edit
    BY DEF IInv, TypeOK, IntentKept, Flush
  <1>2. sending' = pending \/ (draft \in Draft /\ sending' = Merged(pending, draft.body))
    BY DEF Flush, IInv, TypeOK
  <1>3. sending' \in State /\ sending'.edit = pending.edit
    BY <1>1, <1>2 DEF Merged, State, Draft
  <1>4. request'.body = sending' /\ pending' = None /\ loop' = "write" /\ intent' = intent
    BY DEF Flush, Send
  <1> QED
    BY <1>1, <1>3, <1>4 DEF IntentKept

LEMMA AcceptedIntent ==
    ASSUME IInv, IntentKept, Accepted
    PROVE  IntentKept'
  <1>1. reply.draft.body = request.body /\ request.body = sending
    BY DEF IInv, ServerInv, AnswersAreServed, LoopMatches, Writes, Creates, Replaces, IntentKept,
           Accepted, Answered
  <1>2. draft' = reply.draft /\ loop' = "tick" /\ loop = "write" /\ UNCHANGED <<pending, intent, sending>>
    BY DEF Accepted
  <1> QED
    BY <1>1, <1>2 DEF IntentKept

LEMMA ReloadedIntent ==
    ASSUME IInv, IntentKept, Reloaded
    PROVE  IntentKept'
  <1>1. sending \in State /\ sending # None
    BY NoneIsNoState DEF IntentKept, Reloaded
  <1> QED
    BY <1>1 DEF IntentKept, Reloaded

LEMMA NextIntent == IInv /\ IntentKept /\ [Next]_vars => IntentKept'
  <1> SUFFICES ASSUME IInv, IntentKept, [Next]_vars PROVE IntentKept'
    OBVIOUS
  <1>1. ASSUME UNCHANGED <<draft, pending, intent, loop, sending, request>>
        PROVE  IntentKept'
    BY <1>1 DEF IntentKept
  <1>2. CASE StartSync
    <2>1. CASE Blocked
      BY <1>1, <1>2, <2>1 DEF StartSync
    <2>2. CASE ~Blocked
      <3>1. Head(chain) \in State
        BY <1>2, HeadTailProperties DEF IInv, TypeOK, StartSync
      <3> QED
        BY <1>2, <2>2, <3>1, IntendIntent DEF StartSync
    <2> QED
      BY <2>1, <2>2
  <1>3. ASSUME NEW e \in Edits, DirectApply(e)
        PROVE  IntentKept'
    <2>1. [Current EXCEPT !.edit = e] \in State
      BY CurrentType DEF IInv, State
    <2> QED
      BY <1>3, <2>1, IntendIntent DEF DirectApply
  <1>4. CASE Call
    BY <1>1, <1>3, <1>4 DEF Call, Edit, Undo, Redo, Reconcile
  <1>5. CASE Conflict
    BY <1>5 DEF IntentKept, Conflict
  <1>6. CASE EndLoop
    BY <1>6 DEF IntentKept, EndLoop
  <1>7. ASSUME loop' \in {"none", "rejected", "reconcile"}
        PROVE  IntentKept'
    BY <1>7 DEF IntentKept
  <1>8. CASE \/ FlushFails \/ CloseLoop \/ ReconcileStarts \/ ReconcileAdopts \/ ReconcileFails
    BY <1>7, <1>8 DEF FlushFails, CloseLoop, ReconcileStarts, ReconcileAdopts, ReconcileFails
  <1>9. CASE ReconcileWrites \/ ReconcileLands
    <2>1. loop' = "reconcile"
      BY <1>9 DEF IInv, LoopMatches, ReconcileWrites, ReconcileLands
    <2> QED
      BY <1>7, <2>1
  <1>10. CASE Run
    BY <1>1, <1>2, <1>5, <1>6, <1>8, <1>9, <1>10, FlushIntent, AcceptedIntent, ReloadedIntent
    DEF Run, ReconcileRefused
  <1>11. CASE Respond \/ Network \/ UNCHANGED vars
    BY <1>1, <1>11
    DEF Respond, ServerGet, ServerWrite, Network, LoseRequest, LoseReply, LateWrite, OtherAdds, vars
  <1> QED
    BY <1>4, <1>10, <1>11 DEF Next

\* A loop that resolves with nothing left behind has saved the state it was last
\* asked to save, whatever was refused, reloaded, rebased and queued again
\* meanwhile (#flushOnce, #reloadAndRebase).
THEOREM LatestIntent == Spec => LatestIntentSaved
  <1>1. Init => IntentKept
    BY DEF Init, IntentKept
  <1>2. Spec => []IntentKept
    BY <1>1, NextIntent, Invariance, PTL DEF Spec
  <1>3. IntentKept => [loop = "resolved" /\ loop' = "none" /\ pending = None
                         => draft.body.edit = intent.edit]_vars
    BY DEF IntentKept
  <1> QED
    BY <1>2, <1>3, PTL DEF Spec, LatestIntentSaved

LEMMA NextResult == IInv /\ LoopHasResult /\ [Next]_vars => LoopHasResult'
  <1> SUFFICES ASSUME IInv, LoopHasResult, [Next]_vars PROVE LoopHasResult'
    OBVIOUS
  <1>1. ASSUME UNCHANGED <<pending, loop, completed>>
        PROVE  LoopHasResult'
    BY <1>1 DEF LoopHasResult
  <1>2. ASSUME NEW s \in State, Intend(s)
        PROVE  LoopHasResult'
    BY <1>2, NoneIsNoState DEF Intend, LoopHasResult
  <1>3. CASE StartSync
    <2>1. ~Blocked => Head(chain) \in State
      BY <1>3, HeadTailProperties DEF IInv, TypeOK, StartSync
    <2> QED
      BY <1>1, <1>2, <1>3, <2>1 DEF StartSync
  <1>4. ASSUME NEW e \in Edits, DirectApply(e)
        PROVE  LoopHasResult'
    <2>1. [Current EXCEPT !.edit = e] \in State
      BY CurrentType DEF IInv, State
    <2> QED
      BY <1>2, <1>4, <2>1 DEF DirectApply
  <1>5. CASE Call
    BY <1>1, <1>4, <1>5 DEF Call, Edit, Undo, Redo, Reconcile
  <1>6. ASSUME loop' # "tick" \/ completed'
        PROVE  LoopHasResult'
    BY <1>6 DEF LoopHasResult
  <1>7. CASE Run
    BY <1>1, <1>3, <1>6, <1>7
    DEF Run, Flush, EndLoop, Accepted, Conflict, Reloaded, FlushFails, CloseLoop, ReconcileRefused,
        ReconcileStarts, ReconcileWrites, ReconcileLands, ReconcileAdopts, ReconcileFails
  <1>8. CASE Respond \/ Network \/ UNCHANGED vars
    BY <1>1, <1>8
    DEF Respond, ServerGet, ServerWrite, Network, LoseRequest, LoseReply, LateWrite, OtherAdds, vars
  <1> QED
    BY <1>5, <1>7, <1>8 DEF Next

\* The shared loop never ends without a result for the callers that wait for it
\* (#runFlushLoop).
THEOREM LoopResult == Spec => []LoopHasResult
  <1>1. Init => LoopHasResult
    BY DEF Init, LoopHasResult
  <1> QED
    BY <1>1, NextResult, Invariance, PTL DEF Spec

=============================================================================
