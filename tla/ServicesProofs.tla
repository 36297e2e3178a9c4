--------------------------- MODULE ServicesProofs ---------------------------
(***************************************************************************)
(* What holds of the components of MCServices for every value of their     *)
(* constants: each has an inductive invariant of its own, proved over its  *)
(* own specification, and ServicesSpec is a behaviour of all of them, in   *)
(* which one moves.  ProcessRunsProofs is the sixth component's.           *)
(***************************************************************************)
EXTENDS MCServices, ProcessRunsProofs, FiniteSetTheorems, SequenceTheorems, TLAPS

(***************************************************************************)
(* FixtureServer: versions, pointers, drafts and proposals                 *)
(***************************************************************************)
Item == [current : Nat \cup {Absent}, published : Nat \cup {Absent}, updated : Nat]
Version == [item : 1..MaxDrafts, number : Nat, body : 0..MaxOps, draft : 1..MaxDrafts]
Proposal == [item : 1..MaxDrafts, version : Nat, actor : Actors,
             status : {"AwaitingApproval", "Active", "Rejected", "Failed"}]

\* The draft of a command is the one the command is known to have created.
Made(d, command) ==
  command # Absent => command \in DOMAIN creates /\ creates[command].draft = d

\* A pointer of item i names one of its versions.
Points(i, pointer) == pointer \in VersionsOf(i) \cup {Absent}

RequestOK(r) ==
  /\ r.n \in 1..MaxOps
  /\ r.op = "create" => r.command \in Commands \cup {Absent}
  /\ r.op \in {"put", "save"} =>
       r.draft \in 1..MaxDrafts /\ r.held \in Held /\ Made(r.draft, r.held.command)
  /\ r.op = "publish" => r.item \in DOMAIN items /\ r.version \in VersionsOf(r.item)
  /\ r.op = "rollback" =>
       /\ r.item \in DOMAIN items /\ r.held \in Item
       /\ Points(r.item, r.held.current) /\ Points(r.item, r.held.published)
  /\ r.op = "decide" => r.proposal \in 1..Len(proposals)

CountersOK ==
  /\ now \in Nat /\ ops \in 0..MaxOps /\ nextDraft \in 1..MaxDrafts + 1

DraftsOK ==
  /\ DOMAIN drafts \subseteq 1..MaxDrafts
  /\ \A d \in DOMAIN drafts : drafts[d] \in Held /\ Made(d, drafts[d].command)
  /\ DOMAIN creates \subseteq Commands

ItemsOK ==
  /\ DOMAIN items \subseteq 1..MaxDrafts
  /\ \A i \in DOMAIN items :
       /\ items[i] \in Item /\ items[i].updated \in 0..now
       /\ Points(i, items[i].current) /\ Points(i, items[i].published)

ProposalsOK ==
  /\ proposals \in Seq(Proposal)
  /\ \A n \in 1..Len(proposals) :
       /\ proposals[n].item \in DOMAIN items
       /\ proposals[n].version \in VersionsOf(proposals[n].item)

FixtureInv ==
  /\ CountersOK /\ DraftsOK /\ ItemsOK /\ ProposalsOK
  /\ versions \in Seq(Version)
  /\ VersionsNumbered /\ OneAwaiting
  /\ \A r \in requests : RequestOK(r)

LEMMA FixtureInvInit == FixtureInit => FixtureInv
<1> SUFFICES ASSUME FixtureInit PROVE FixtureInv
  OBVIOUS
<1> USE FixtureAssumption
<1>1. CountersOK
  BY DEF FixtureInit, CountersOK
<1>2. /\ DOMAIN drafts = {1, 2} /\ DOMAIN items = {1, 2}
      /\ \A d \in {1, 2} : drafts[d] \in Held /\ drafts[d].command = Absent
      /\ creates = <<>>
  BY DEF FixtureInit, Held
<1>3. DraftsOK
  BY <1>2 DEF DraftsOK, Made
<1>4. versions \in Seq(Version) /\ Len(versions) = 1 /\ versions[1].item = 1
      /\ versions[1].number = 1
  BY DEF FixtureInit, Version
<1>5. VersionsOf(1) = {1}
  BY <1>4 DEF VersionsOf
<1>6. ItemsOK
  BY <1>2, <1>5 DEF FixtureInit, ItemsOK, Points, Item
<1>7. VersionsNumbered
  <2>1. {u \in VersionsOf(1) : u <= 1} = {1}
    BY <1>5
  <2>2. Cardinality({1}) = 1
    BY FS_Singleton
  <2>3. versions[1].number = Cardinality({u \in VersionsOf(versions[1].item) : u <= 1})
    BY <1>4, <2>1, <2>2
  <2>4. \A v \in 1..Len(versions) : v = 1
    BY <1>4
  <2> QED
    BY <2>3, <2>4 DEF VersionsNumbered
<1>8. ProposalsOK /\ OneAwaiting
  BY DEF FixtureInit, ProposalsOK, OneAwaiting
<1>9. \A r \in requests : RequestOK(r)
  BY DEF FixtureInit
<1> QED
  BY <1>1, <1>3, <1>4, <1>6, <1>7, <1>8, <1>9 DEF FixtureInv

\* What the store knows it goes on knowing.
StoreGrows ==
  /\ DOMAIN items \subseteq DOMAIN items'
  /\ \A i : VersionsOf(i) \subseteq VersionsOf(i)'
  /\ \A k \in DOMAIN creates : k \in DOMAIN creates' /\ creates'[k] = creates[k]
  /\ Len(proposals) \in Nat /\ Len(proposals') \in Nat /\ Len(proposals) <= Len(proposals')

\* A pointer stays a pointer while the versions grow.
LEMMA PointsKept ==
  ASSUME StoreGrows, NEW i, NEW p, Points(i, p)
  PROVE  Points(i, p)'
  BY DEF StoreGrows, Points

\* A command's draft stays its draft.
LEMMA MadeKept ==
  ASSUME StoreGrows, NEW d, NEW k, Made(d, k)
  PROVE  Made(d, k)'
  BY DEF StoreGrows, Made

LEMMA RequestKept ==
  ASSUME StoreGrows, NEW r, RequestOK(r)
  PROVE  RequestOK(r)'
<1>1. r.op \in {"put", "save"} => Made(r.draft, r.held.command)'
  BY MadeKept DEF RequestOK
<1>2. r.op = "publish" => r.item \in DOMAIN items' /\ r.version \in VersionsOf(r.item)'
  BY DEF RequestOK, StoreGrows
<1>3. r.op = "rollback" =>
        /\ r.item \in DOMAIN items'
        /\ Points(r.item, r.held.current)' /\ Points(r.item, r.held.published)'
  BY PointsKept DEF RequestOK, StoreGrows
<1>4. r.op = "decide" => r.proposal \in 1..Len(proposals')
  BY DEF RequestOK, StoreGrows
<1> QED
  BY <1>1, <1>2, <1>3, <1>4 DEF RequestOK

\* A draft is written: its command is its own.
LEMMA StoreKeeps ==
  ASSUME DraftsOK, NEW d \in 1..MaxDrafts, NEW record \in Held, Store(d, record),
         Made(d, record.command)', StoreGrows, DOMAIN creates' \subseteq Commands
  PROVE  DraftsOK'
<1>1. DOMAIN drafts' = DOMAIN drafts \cup {d} /\ drafts'[d] = record
      /\ \A e \in DOMAIN drafts : e # d => drafts'[e] = drafts[e]
  BY DEF Store, Having
<1>2. \A k : \A e \in DOMAIN drafts : k = drafts[e].command => Made(e, k)'
  BY MadeKept DEF DraftsOK
<1>3. \A k : \A e \in DOMAIN drafts' : k = drafts'[e].command => drafts'[e] \in Held /\ Made(e, k)'
  BY <1>1, <1>2 DEF DraftsOK
<1> QED
  BY <1>1, <1>3 DEF DraftsOK, Made

\* The drafts a step leaves alone.
LEMMA DraftsKept ==
  ASSUME DraftsOK, UNCHANGED drafts, StoreGrows, DOMAIN creates' \subseteq Commands
  PROVE  DraftsOK'
  BY MadeKept DEF DraftsOK

LEMMA TouchedKeeps ==
  ASSUME CountersOK, ItemsOK, NEW i \in 1..MaxDrafts, items' = Touched(i), Tick,
         \A j : VersionsOf(j) \subseteq VersionsOf(j)'
  PROVE  ItemsOK' /\ DOMAIN items' = DOMAIN items \cup {i}
<1> USE FixtureAssumption
<1>0. now \in Nat /\ now' \in Nat /\ now <= now'
  BY DEF CountersOK, Tick
<1>1. DOMAIN items' = DOMAIN items \cup {i}
  BY DEF Touched, Having
<1>2. \A j \in DOMAIN items : j # i => items'[j] = items[j]
  BY DEF Touched, Having
<1>3. CASE i \in DOMAIN items
  <2>1. items'[i] = [items[i] EXCEPT !.updated = now']
    BY <1>3 DEF Touched
  <2>2. /\ items'[i] \in Item /\ items'[i].updated = now'
        /\ items'[i].current = items[i].current /\ items'[i].published = items[i].published
    BY <2>1, <1>0, <1>3 DEF ItemsOK, Item
  <2> QED
    BY <1>0, <1>1, <1>2, <1>3, <2>2 DEF ItemsOK, Points
<1>4. CASE i \notin DOMAIN items
  <2>1. items'[i] = [current |-> Absent, published |-> Absent, updated |-> now']
    BY <1>4 DEF Touched, Having
  <2>2. /\ items'[i] \in Item /\ items'[i].updated = now'
        /\ items'[i].current = Absent /\ items'[i].published = Absent
    BY <2>1, <1>0 DEF Item
  <2> QED
    BY <1>0, <1>1, <1>2, <1>4, <2>2 DEF ItemsOK, Points
<1> QED
  BY <1>3, <1>4

\* An item's record is replaced by one whose pointers name its versions.
LEMMA PointedKeeps ==
  ASSUME CountersOK, ItemsOK, NEW i \in DOMAIN items, NEW record \in Item,
         items' = [items EXCEPT ![i] = record], Tick, record.updated = now',
         \A j : VersionsOf(j) \subseteq VersionsOf(j)',
         Points(i, record.current)', Points(i, record.published)'
  PROVE  ItemsOK' /\ DOMAIN items' = DOMAIN items
<1>0. now \in Nat /\ now' \in Nat /\ now <= now'
  BY DEF CountersOK, Tick
<1>1. DOMAIN items' = DOMAIN items /\ items'[i] = record
      /\ \A j \in DOMAIN items : j # i => items'[j] = items[j]
  OBVIOUS
<1>2. \A j \in DOMAIN items' : items'[j] \in Item /\ items'[j].updated \in 0..now'
  BY <1>0, <1>1 DEF ItemsOK, Item
<1>3. \A j \in DOMAIN items' : /\ items'[j].current \in VersionsOf(j)' \cup {Absent}
                             /\ items'[j].published \in VersionsOf(j)' \cup {Absent}
  BY <1>1 DEF ItemsOK, Points
<1> QED
  BY <1>1, <1>2, <1>3 DEF ItemsOK, Points

\* One item's pointers move, the others stay.
LEMMA ItemsKept ==
  ASSUME CountersOK, ItemsOK, UNCHANGED items, now' \in {now, now + 1}, StoreGrows
  PROVE  ItemsOK'
  BY DEF CountersOK, ItemsOK, StoreGrows, Points

LEMMA ProposalsKept ==
  ASSUME ProposalsOK, OneAwaiting, UNCHANGED <<proposals, awaitingByKey>>, StoreGrows
  PROVE  ProposalsOK' /\ OneAwaiting'
<1>1. ProposalsOK'
  BY DEF ProposalsOK, StoreGrows
<1>2. OneAwaiting'
  BY DEF OneAwaiting, KeyOf
<1> QED
  BY <1>1, <1>2

\* A version is appended with the next number of its item.
LEMMA AppendKeeps ==
  ASSUME versions \in Seq(Version), VersionsNumbered, NEW version \in Version,
         versions' = Append(versions, version), version.number = NumberFor(0, version.item)
  PROVE  /\ versions' \in Seq(Version) /\ VersionsNumbered'
         /\ \A i : VersionsOf(i) \subseteq VersionsOf(i)'
         /\ Len(versions) + 1 \in VersionsOf(version.item)'
<1> DEFINE last == Len(versions) + 1
           i == version.item
<1>1. /\ versions' \in Seq(Version) /\ Len(versions') = last /\ last \in Nat
      /\ versions'[last] = version /\ Len(versions) \in Nat
      /\ \A u \in 1..Len(versions) : versions'[u] = versions[u]
  OBVIOUS
<1>2. \A j : VersionsOf(j) \subseteq VersionsOf(j)'
      /\ VersionsOf(j)' \subseteq VersionsOf(j) \cup {last}
  BY <1>1 DEF VersionsOf
<1>3. last \in VersionsOf(i)' /\ last \notin VersionsOf(i)
  BY <1>1 DEF VersionsOf
<1>4. VersionsOf(i)' = VersionsOf(i) \cup {last}
  BY <1>2, <1>3
<1>5. IsFiniteSet(VersionsOf(i))
  <2>1. VersionsOf(i) \subseteq 1..Len(versions)
    BY DEF VersionsOf
  <2>2. IsFiniteSet(1..Len(versions))
    BY <1>1, FS_Interval
  <2> QED
    BY <2>1, <2>2, FS_Subset
<1>6. Cardinality(VersionsOf(i)') = Cardinality(VersionsOf(i)) + 1
  BY <1>3, <1>4, <1>5, FS_AddElement
<1>7. VersionsNumbered'
  <2> SUFFICES ASSUME NEW v \in 1..Len(versions'), NEW j, j = versions'[v].item
               PROVE  versions'[v].number = Cardinality({u \in VersionsOf(j)' : u <= v})
    BY DEF VersionsNumbered, VersionsOf
  <2>1. CASE v = last
    <3>1. {u \in VersionsOf(i)' : u <= last} = VersionsOf(i)'
      BY <1>1 DEF VersionsOf
    <3>2. j = i /\ versions'[v].number = Cardinality(VersionsOf(i)) + 1
      BY <1>1, <2>1 DEF NumberFor
    <3> QED
      BY <2>1, <3>1, <3>2, <1>6
  <2>2. CASE v # last
    <3>1. v \in 1..Len(versions) /\ versions'[v] = versions[v]
      BY <1>1, <2>2
    <3>2. {u \in VersionsOf(j)' : u <= v} = {u \in VersionsOf(j) : u <= v}
      BY <1>1, <1>2, <3>1
    <3>3. versions[v].number = Cardinality({u \in VersionsOf(versions[v].item) : u <= v})
      BY <3>1 DEF VersionsNumbered
    <3> QED
      BY <3>1, <3>2, <3>3
  <2> QED
    BY <2>1, <2>2
<1> QED
  BY <1>1, <1>2, <1>3, <1>7

\* A step that only adds a request leaves the store as it was.
LEMMA CalledKeeps ==
  ASSUME FixtureInv, NEW request, RequestOK(request), Called(request)
  PROVE  FixtureInv'
<1>1. UNCHANGED storeVars /\ now' = now /\ ops' \in 0..MaxOps
      /\ requests' = requests \cup {request}
  BY FixtureAssumption DEF Called, FixtureInv, CountersOK
<1>2. StoreGrows
  BY <1>1 DEF StoreGrows, storeVars, FixtureInv, ProposalsOK, VersionsOf
<1>3. \A r \in requests' : RequestOK(r)'
  BY <1>1, <1>2, RequestKept DEF FixtureInv
<1>4. CountersOK' /\ versions' \in Seq(Version) /\ VersionsNumbered'
  BY <1>1 DEF storeVars, FixtureInv, CountersOK, VersionsNumbered, VersionsOf
<1>5. DraftsOK' /\ ItemsOK' /\ ProposalsOK' /\ OneAwaiting'
  BY <1>1, <1>2, DraftsKept, ItemsKept, ProposalsKept DEF storeVars, FixtureInv, DraftsOK
<1> QED
  BY <1>3, <1>4, <1>5 DEF FixtureInv

\* The clock, the requests and the walk may move under a store that stays.
LEMMA StoreStays ==
  ASSUME FixtureInv, UNCHANGED storeVars, requests' \subseteq requests,
         now' \in {now, now + 1}, ops' \in 0..MaxOps
  PROVE  FixtureInv'
<1>2. StoreGrows
  BY DEF StoreGrows, storeVars, FixtureInv, ProposalsOK, VersionsOf
<1>3. \A r \in requests' : RequestOK(r)'
  BY <1>2, RequestKept DEF FixtureInv
<1>4. CountersOK' /\ versions' \in Seq(Version) /\ VersionsNumbered'
  BY DEF storeVars, FixtureInv, CountersOK, VersionsNumbered, VersionsOf
<1>5. DraftsOK' /\ ItemsOK' /\ ProposalsOK' /\ OneAwaiting'
  BY <1>2, DraftsKept, ItemsKept, ProposalsKept DEF storeVars, FixtureInv, DraftsOK
<1> QED
  BY <1>3, <1>4, <1>5 DEF FixtureInv

LEMMA PointerType ==
  ASSUME NEW item \in Item, NEW v \in Nat
  PROVE  /\ [item EXCEPT !.current = v] \in Item
         /\ [item EXCEPT !.current = v].current = v
         /\ [item EXCEPT !.current = v].updated = item.updated
         /\ [item EXCEPT !.current = v].published = item.published
  BY DEF Item

\* A draft that is written again keeps its item and its command.
LEMMA WrittenType ==
  ASSUME NEW held \in Held, NEW time \in Nat, NEW g \in Nat, NEW body \in 0..MaxOps
  PROVE  /\ [held EXCEPT !.generation = g, !.updated = time] \in Held
         /\ [held EXCEPT !.generation = g, !.updated = time].command = held.command
         /\ [held EXCEPT !.body = body, !.generation = g, !.updated = time] \in Held
         /\ [held EXCEPT !.body = body, !.generation = g, !.updated = time].command = held.command
  BY DEF Held

\* What a request that has been read, and a tool's call, leave of the rest.
Moves ==
  /\ requests' \subseteq requests /\ Tick /\ ops' \in 0..MaxOps

\* A step that saves no version, and keeps the proposals.
LEMMA WritesKeep ==
  ASSUME FixtureInv, Moves, UNCHANGED <<versions, proposals, awaitingByKey>>,
         StoreGrows, nextDraft' \in 1..MaxDrafts + 1, DraftsOK', ItemsOK'
  PROVE  FixtureInv'
<1>1. \A r \in requests' : RequestOK(r)'
  BY RequestKept DEF FixtureInv, Moves
<1>2. versions' \in Seq(Version) /\ VersionsNumbered'
  BY DEF FixtureInv, VersionsNumbered, VersionsOf
<1>3. ProposalsOK' /\ OneAwaiting'
  BY ProposalsKept DEF FixtureInv
<1>4. CountersOK'
  BY DEF Moves, Tick, CountersOK, FixtureInv
<1> QED
  BY <1>1, <1>2, <1>3, <1>4 DEF FixtureInv

\* A step that saves a version.
LEMMA SaveKeeps ==
  ASSUME FixtureInv, Moves, UNCHANGED <<proposals, awaitingByKey, creates, nextDraft>>,
         NEW d \in 1..MaxDrafts, NEW held \in Held, Made(d, held.command),
         SaveStudioVersion(d, held)
  PROVE  FixtureInv'
<1> DEFINE v == Len(versions) + 1
           i == held.item
           version == [item |-> i, number |-> NumberFor(d, i), body |-> held.body, draft |-> d]
           saved == [held EXCEPT !.generation = @ + 1, !.updated = now']
<1>0. /\ i \in 1..MaxDrafts /\ held.body \in 0..MaxOps /\ held.generation \in Nat
      /\ v \in Nat /\ now \in Nat /\ now' \in Nat /\ now <= now'
  BY DEF Held, FixtureInv, CountersOK, Moves, Tick
<1>1. /\ versions' = Append(versions, version)
      /\ items' = [Touched(i) EXCEPT ![i].current = v] /\ Store(d, saved)
  BY DEF SaveStudioVersion
<1>2. NumberFor(d, i) \in Nat
  <2>1. IsFiniteSet(1..Len(versions))
    BY FS_Interval DEF FixtureInv
  <2>2. IsFiniteSet(VersionsOf(i))
    BY <2>1, FS_Subset DEF VersionsOf
  <2> QED
    BY <2>2, FS_CardinalityType DEF NumberFor
<1>3. version \in Version /\ version.number = NumberFor(0, version.item) /\ version.item = i
  BY <1>0, <1>2 DEF Version, NumberFor
<1> HIDE DEF version
<1>4. /\ versions' \in Seq(Version) /\ VersionsNumbered'
      /\ \A j : VersionsOf(j) \subseteq VersionsOf(j)'
      /\ v \in VersionsOf(i)'
  BY <1>1, <1>3, AppendKeeps DEF FixtureInv
<1>5. ItemsOK' /\ DOMAIN items' = DOMAIN items \cup {i}
  <2>1. DOMAIN Touched(i) = DOMAIN items \cup {i}
    BY DEF Touched, Having
  <2>2. \A j \in DOMAIN items : j # i => Touched(i)[j] = items[j]
    BY DEF Touched, Having
  <2>3. /\ Touched(i)[i] \in Item /\ Touched(i)[i].updated = now'
        /\ Points(i, Touched(i)[i].published)
    <3>1. CASE i \in DOMAIN items
      <4>1. Touched(i)[i] = [items[i] EXCEPT !.updated = now'] /\ items[i] \in Item
        BY <3>1 DEF Touched, FixtureInv, ItemsOK
      <4> QED
        BY <4>1, <1>0, <3>1 DEF Item, FixtureInv, ItemsOK
    <3>2. CASE i \notin DOMAIN items
      <4>1. Touched(i)[i] = [current |-> Absent, published |-> Absent, updated |-> now']
        BY <3>2 DEF Touched, Having
      <4> QED
        BY <4>1, <1>0 DEF Item, Points
    <3> QED
      BY <3>1, <3>2
  <2> DEFINE touched == Touched(i)
  <2>4. items' = [touched EXCEPT ![i] = [touched[i] EXCEPT !.current = v]]
    BY <1>1
  <2>5. /\ touched[i] \in Item /\ DOMAIN touched = DOMAIN items \cup {i}
        /\ \A j \in DOMAIN items : j # i => touched[j] = items[j]
        /\ touched[i].updated = now' /\ touched[i].published \in VersionsOf(i) \cup {Absent}
    BY <2>1, <2>2, <2>3 DEF Points
  <2> HIDE DEF touched
  <2> DEFINE last == [touched[i] EXCEPT !.current = v]
  <2>6. last \in Item /\ last.updated = now' /\ last.current = v
        /\ last.published = touched[i].published
    <3>1. touched[i] \in Item /\ v \in Nat
      BY <2>5, <1>0
    <3>2. /\ last \in Item /\ last.current = v /\ last.updated = touched[i].updated
          /\ last.published = touched[i].published
      BY <3>1, PointerType
    <3> QED
      BY <3>2, <2>5
  <2>7. DOMAIN items' = DOMAIN items \cup {i} /\ items'[i] = last
        /\ \A j \in DOMAIN items : j # i => items'[j] = items[j]
    BY <2>4, <2>5
  <2> HIDE DEF last
  <2>8. \A j \in DOMAIN items' :
          /\ items'[j] \in Item /\ items'[j].updated \in 0..now'
          /\ items'[j].current \in VersionsOf(j)' \cup {Absent}
          /\ items'[j].published \in VersionsOf(j)' \cup {Absent}
    <3> SUFFICES ASSUME NEW j \in DOMAIN items'
                 PROVE  /\ items'[j] \in Item /\ items'[j].updated \in 0..now'
                        /\ items'[j].current \in VersionsOf(j)' \cup {Absent}
                        /\ items'[j].published \in VersionsOf(j)' \cup {Absent}
      OBVIOUS
    <3>1. CASE j = i
      <4>1. items'[j] = last /\ j = i
        BY <3>1, <2>7
      <4>2. last.current \in VersionsOf(i)' /\ last.published \in VersionsOf(i)' \cup {Absent}
        <5>1. VersionsOf(i) \subseteq VersionsOf(i)'
          BY <1>4
        <5> QED
          BY <5>1, <1>4, <2>5, <2>6
      <4> QED
        BY <4>1, <4>2, <1>0, <2>6
    <3>2. CASE j # i
      <4>1. j \in DOMAIN items /\ items'[j] = items[j]
        BY <2>7, <3>2
      <4> QED
        BY <4>1, <1>0, <1>4 DEF FixtureInv, ItemsOK, Points
    <3> QED
      BY <3>1, <3>2
  <2> QED
    BY <1>0, <2>7, <2>8 DEF ItemsOK, Points, FixtureInv
<1>6. StoreGrows
  BY <1>4, <1>5 DEF StoreGrows, FixtureInv, ProposalsOK
<1>7. saved \in Held /\ saved.command = held.command
  <2>1. held.generation + 1 \in Nat /\ now' \in Nat
    BY <1>0
  <2> QED
    BY <2>1, <1>0, WrittenType
<1>8. DraftsOK'
  <2>1. \A k : k = held.command => Made(d, k)'
    BY <1>6, MadeKept
  <2> QED
    BY <1>1, <1>6, <1>7, <2>1, StoreKeeps DEF FixtureInv, DraftsOK, Made
<1>9. \A r \in requests' : RequestOK(r)'
  BY <1>6, RequestKept DEF FixtureInv, Moves
<1>10. CountersOK' /\ ProposalsOK' /\ OneAwaiting'
  BY <1>6, ProposalsKept DEF Moves, Tick, CountersOK, FixtureInv
<1> QED
  BY <1>4, <1>5, <1>8, <1>9, <1>10 DEF FixtureInv

\* A step that grows the store by what it writes.
LEMMA GrowsBy ==
  ASSUME FixtureInv, UNCHANGED <<versions, proposals>>,
         DOMAIN items \subseteq DOMAIN items',
         \A k \in DOMAIN creates : k \in DOMAIN creates' /\ creates'[k] = creates[k]
  PROVE  StoreGrows
  BY DEF StoreGrows, FixtureInv, ProposalsOK, VersionsOf

LEMMA BodyReadMoves ==
  ASSUME FixtureInv, NEW r \in requests, BodyRead(r)
  PROVE  Moves
  BY DEF Moves, BodyRead, FixtureInv, CountersOK

\* An operation counts and takes its time; what it answers is not yet taken.
LEMMA CountedMoves ==
  ASSUME FixtureInv, Counted
  PROVE  Moves /\ ops' \in 1..MaxOps
  BY FixtureAssumption DEF Moves, Counted, FixtureInv, CountersOK

\* A draft is written, and its item touched or left as it is.
LEMMA WriteKeeps ==
  ASSUME FixtureInv, Moves, UNCHANGED <<versions, proposals, awaitingByKey, creates>>,
         nextDraft' \in 1..MaxDrafts + 1,
         NEW d \in 1..MaxDrafts, NEW record \in Held, Store(d, record),
         Made(d, record.command), NEW i \in 1..MaxDrafts, items' = Touched(i) \/ items' = items
  PROVE  FixtureInv'
<1>1. \A j : VersionsOf(j) \subseteq VersionsOf(j)'
  BY DEF VersionsOf
<1>2. ItemsOK' /\ DOMAIN items \subseteq DOMAIN items'
  <2>1. CASE items' = Touched(i)
    BY <2>1, <1>1, TouchedKeeps DEF FixtureInv, Moves
  <2>2. CASE items' = items
    BY <2>2, <1>1 DEF FixtureInv, ItemsOK, Points, CountersOK, Moves, Tick
  <2> QED
    BY <2>1, <2>2
<1>3. StoreGrows
  BY <1>2, GrowsBy
<1>4. \A k : k = record.command => Made(d, k)'
  BY <1>3, MadeKept
<1>5. DraftsOK'
  BY <1>3, <1>4, StoreKeeps DEF FixtureInv, DraftsOK, Made
<1> QED
  BY <1>2, <1>3, <1>5, WritesKeep

\* An item's pointers are moved, to versions of its own.
LEMMA PointersMove ==
  ASSUME FixtureInv, Moves,
           UNCHANGED <<drafts, versions, proposals, awaitingByKey, creates, nextDraft>>,
         NEW i \in DOMAIN items, NEW record \in Item, items' = [items EXCEPT ![i] = record],
         record.updated = now',
         record.current \in VersionsOf(i) \cup {Absent},
         record.published \in VersionsOf(i) \cup {Absent}
  PROVE  FixtureInv'
<1>1. \A j : VersionsOf(j)' = VersionsOf(j)
  BY DEF VersionsOf
<1>2. ItemsOK' /\ DOMAIN items' = DOMAIN items
  BY <1>1, PointedKeeps DEF FixtureInv, Moves, Points
<1>3. StoreGrows
  BY <1>2, GrowsBy
<1>4. DraftsOK'
  BY <1>3, DraftsKept DEF FixtureInv, DraftsOK
<1>5. nextDraft' \in 1..MaxDrafts + 1
  BY DEF FixtureInv, CountersOK
<1> QED
  BY <1>2, <1>3, <1>4, <1>5, WritesKeep

\* POST /package-drafts: a new draft of a new command.
LEMMA CreateKeeps ==
  ASSUME FixtureInv, NEW r \in requests, Create(r)
  PROVE  FixtureInv'
<1>0. Moves /\ RequestOK(r) /\ r.op = "create"
  BY BodyReadMoves DEF Create, FixtureInv
<1>1. CASE Previous(r)
  BY <1>1, <1>0, StoreStays DEF Create, Moves, Tick
<1>2. CASE ~Previous(r)
  <2> DEFINE record == [item |-> nextDraft, generation |-> 1, body |-> r.n, base |-> 0,
                        updated |-> now', command |-> r.command]
             made == [input |-> r.input, draft |-> nextDraft]
  <2>1. /\ nextDraft \in 1..MaxDrafts /\ Store(nextDraft, record) /\ items' = Touched(nextDraft)
        /\ creates' = IF r.command = Absent THEN creates ELSE Having(creates, r.command, made)
        /\ nextDraft' = nextDraft + 1
        /\ UNCHANGED <<versions, proposals, awaitingByKey>>
    BY <1>2, FixtureAssumption DEF Create, FixtureInv, CountersOK
  <2>2. record \in Held /\ record.command = r.command
    BY <1>0, <2>1, FixtureAssumption DEF Held, RequestOK, Moves, Tick, FixtureInv, CountersOK
  <2>3. /\ \A k \in DOMAIN creates : k \in DOMAIN creates' /\ creates'[k] = creates[k]
        /\ DOMAIN creates' \subseteq Commands
        /\ r.command # Absent => r.command \in DOMAIN creates' /\ creates'[r.command] = made
    BY <1>0, <1>2, <2>1 DEF Having, Previous, RequestOK, FixtureInv, DraftsOK
  <2>4. \A j : VersionsOf(j) \subseteq VersionsOf(j)'
    BY <2>1 DEF VersionsOf
  <2>5. ItemsOK' /\ DOMAIN items \subseteq DOMAIN items'
    BY <1>0, <2>1, <2>4, TouchedKeeps DEF FixtureInv, Moves
  <2>6. StoreGrows
    BY <2>1, <2>3, <2>5, GrowsBy
  <2> HIDE DEF record
  <2>7. \A k, n : k = r.command /\ n = nextDraft => Made(n, k)'
    BY <2>3 DEF Made
  <2>8. DraftsOK'
    BY <2>1, <2>2, <2>3, <2>6, <2>7, StoreKeeps DEF FixtureInv, Made
  <2>9. nextDraft' \in 1..MaxDrafts + 1
    BY <2>1, FixtureAssumption
  <2> QED
    BY <1>0, <2>1, <2>5, <2>6, <2>8, <2>9, WritesKeep
<1> QED
  BY <1>1, <1>2

\* The handlers, one lemma each.
LEMMA PutKeeps ==
  ASSUME FixtureInv, NEW r \in requests, Put(r)
  PROVE  FixtureInv'
<1>0. Moves /\ RequestOK(r) /\ r.op = "put"
  BY BodyReadMoves DEF Put, FixtureInv
<1>1. CASE UNCHANGED storeVars
  BY <1>1, <1>0, StoreStays DEF Moves, Tick
<1>2. CASE ~UNCHANGED storeVars
  <2>1. /\ r.draft \in 1..MaxDrafts /\ r.held \in Held /\ Made(r.draft, r.held.command)
        /\ r.held.item \in 1..MaxDrafts /\ r.n \in 0..MaxOps
        /\ r.held.generation + 1 \in Nat /\ now' \in Nat
    BY <1>0 DEF RequestOK, Held, Moves, Tick, FixtureInv, CountersOK
  <2> DEFINE record == [r.held EXCEPT !.body = r.n, !.generation = r.held.generation + 1,
                                      !.updated = now']
  <2>2. record \in Held /\ record.command = r.held.command
    BY <2>1, WrittenType
  <2>3. /\ Store(r.draft, record) /\ items' = Touched(r.held.item)
        /\ UNCHANGED <<versions, proposals, awaitingByKey, creates, nextDraft>>
    BY <1>2 DEF Put
  <2> HIDE DEF record
  <2>4. nextDraft' \in 1..MaxDrafts + 1
    BY <2>3 DEF FixtureInv, CountersOK
  <2> QED
    BY <1>0, <2>1, <2>2, <2>3, <2>4, WriteKeeps
<1> QED
  BY <1>1, <1>2

LEMMA PublishKeeps ==
  ASSUME FixtureInv, NEW r \in requests, Publish(r)
  PROVE  FixtureInv'
<1>0. /\ Moves /\ RequestOK(r) /\ r.op = "publish" /\ now' \in Nat
      /\ UNCHANGED <<drafts, versions, proposals, awaitingByKey, creates, nextDraft>>
  BY BodyReadMoves DEF Publish, FixtureInv, Moves, Tick, CountersOK
<1> DEFINE i == r.item
           record == [items[i] EXCEPT !.published = r.version, !.updated = now']
<1>1. i \in DOMAIN items /\ r.version \in VersionsOf(i) /\ items[i] \in Item /\ r.version \in Nat
      /\ Points(i, items[i].current)
  BY <1>0 DEF RequestOK, FixtureInv, ItemsOK, VersionsOf
<1>2. items' = [items EXCEPT ![i] = record]
  BY DEF Publish
<1>3. record \in Item /\ record.current = items[i].current /\ record.published = r.version
      /\ record.updated = now'
  BY <1>0, <1>1 DEF Item
<1> HIDE DEF record
<1>4. \A j : VersionsOf(j) \subseteq VersionsOf(j)'
  BY <1>0 DEF VersionsOf
<1>5. record.current \in VersionsOf(i) \cup {Absent}
      /\ record.published \in VersionsOf(i) \cup {Absent}
  BY <1>1, <1>3 DEF Points
<1> QED
  BY <1>0, <1>1, <1>2, <1>3, <1>4, <1>5, PointersMove

LEMMA RollbackKeeps ==
  ASSUME FixtureInv, NEW r \in requests, Rollback(r)
  PROVE  FixtureInv'
<1>0. /\ Moves /\ RequestOK(r) /\ r.op = "rollback" /\ now' \in Nat
      /\ UNCHANGED <<drafts, versions, proposals, awaitingByKey, creates, nextDraft>>
  BY BodyReadMoves DEF Rollback, FixtureInv, Moves, Tick, CountersOK
<1> DEFINE i == r.item
           record(v, pointers) ==
             [current |-> IF "current" \in pointers THEN v ELSE r.held.current,
              published |-> IF "published" \in pointers THEN v ELSE r.held.published,
              updated |-> now']
<1>1. PICK v \in 1..Len(versions), pointers \in (SUBSET {"current", "published"}) \ {{}} :
        VersionOf(i, v) /\ items' = [items EXCEPT ![i] = record(v, pointers)]
  BY DEF Rollback
<1>2. /\ i \in DOMAIN items /\ r.held \in Item /\ v \in VersionsOf(i) /\ v \in Nat
      /\ r.held.current \in VersionsOf(i) \cup {Absent}
      /\ r.held.published \in VersionsOf(i) \cup {Absent}
      /\ r.held.current \in Nat \cup {Absent} /\ r.held.published \in Nat \cup {Absent}
  BY <1>0, <1>1 DEF RequestOK, Points, VersionOf, Item
<1> DEFINE next == record(v, pointers)
<1>3. /\ next \in Item /\ next.updated = now'
      /\ next.current \in VersionsOf(i) \cup {Absent}
      /\ next.published \in VersionsOf(i) \cup {Absent}
  BY <1>0, <1>2 DEF Item
<1>4. items' = [items EXCEPT ![i] = next]
  BY <1>1
<1> HIDE DEF next
<1> QED
  BY <1>0, <1>2, <1>3, <1>4, PointersMove

\* A decision ends a proposal that still awaits it, and no other.
LEMMA DecideKeeps ==
  ASSUME FixtureInv, NEW r \in requests, Decide(r)
  PROVE  FixtureInv'
<1>0. /\ Moves /\ RequestOK(r) /\ r.op = "decide" /\ now' \in Nat
  BY BodyReadMoves DEF Decide, FixtureInv, Moves, Tick, CountersOK
<1>1. CASE ~StillAwaiting(r)
  BY <1>0, <1>1, StoreStays DEF Decide, Moves, Tick
<1>2. CASE StillAwaiting(r)
  <2> DEFINE n == r.proposal
             p == proposals[n]
             i == p.item
             record == [items[i] EXCEPT !.published = p.version, !.updated = now']
  <2>1. PICK status \in {"Active", "Rejected", "Failed"} :
          /\ proposals' = [proposals EXCEPT ![n].status = status]
          /\ items' = IF status = "Active" THEN [items EXCEPT ![i] = record] ELSE items
    BY <1>2 DEF Decide
  <2>2. /\ awaitingByKey' = [k \in DOMAIN awaitingByKey \ {KeyOf(p)} |-> awaitingByKey[k]]
        /\ UNCHANGED <<drafts, versions, creates, nextDraft>>
    BY <1>2 DEF Decide
  <2>3. /\ n \in 1..Len(proposals) /\ proposals \in Seq(Proposal) /\ p \in Proposal
        /\ i \in DOMAIN items /\ p.version \in VersionsOf(i) /\ items[i] \in Item
        /\ Points(i, items[i].current) /\ p.status = "AwaitingApproval" /\ p.version \in Nat
    <3>1. n \in 1..Len(proposals) /\ p.status = "AwaitingApproval"
      BY <1>0, <1>2 DEF RequestOK, StillAwaiting
    <3>2. /\ proposals \in Seq(Proposal) /\ p \in Proposal /\ i \in DOMAIN items
          /\ p.version \in VersionsOf(i)
      BY <3>1 DEF FixtureInv, ProposalsOK
    <3>3. items[i] \in Item /\ Points(i, items[i].current)
      BY <3>2 DEF FixtureInv, ItemsOK
    <3> QED
      BY <3>1, <3>2, <3>3 DEF Proposal
  <2>4. record \in Item /\ record.current = items[i].current /\ record.published = p.version
        /\ record.updated = now'
    BY <1>0, <2>3 DEF Item
  <2> HIDE DEF record
  <2>5. \A j : VersionsOf(j)' = VersionsOf(j)
    BY <2>2 DEF VersionsOf
  <2>6. ItemsOK' /\ DOMAIN items' = DOMAIN items
    <3>1. CASE status = "Active"
      <4>1. \A k, q : k = i /\ q \in {record.current, record.published} => Points(k, q)'
        BY <2>3, <2>4, <2>5 DEF Points
      <4>2. \A j : VersionsOf(j) \subseteq VersionsOf(j)'
        BY <2>5
      <4>3. items' = [items EXCEPT ![i] = record]
        BY <2>1, <3>1
      <4>4. PICK k, next : k = i /\ next = record
        OBVIOUS
      <4>5. /\ k \in DOMAIN items /\ next \in Item /\ next.updated = now'
            /\ items' = [items EXCEPT ![k] = next]
        BY <2>3, <2>4, <4>3, <4>4
      <4>6. Points(k, next.current)' /\ Points(k, next.published)'
        BY <4>1, <4>4
      <4>7. CountersOK /\ ItemsOK /\ Tick
        BY <1>0 DEF FixtureInv, Moves
      <4> QED
        BY <4>2, <4>5, <4>6, <4>7, PointedKeeps
    <3>2. CASE status # "Active"
      BY <1>0, <2>1, <2>5, <3>2 DEF FixtureInv, ItemsOK, Points, CountersOK, Moves, Tick
    <3> QED
      BY <3>1, <3>2
  <2> DEFINE ended == [p EXCEPT !.status = status]
  <2>7. /\ ended \in Proposal /\ ended.item = i /\ ended.version = p.version
        /\ ended.actor = p.actor /\ ended.status # "AwaitingApproval"
    BY <2>3 DEF Proposal
  <2>8. proposals' = [proposals EXCEPT ![n] = ended]
    BY <2>1
  <2> HIDE DEF ended
  <2>9. /\ proposals' \in Seq(Proposal) /\ Len(proposals') = Len(proposals)
        /\ proposals'[n] = ended
        /\ \A m \in 1..Len(proposals) : m # n => proposals'[m] = proposals[m]
    BY <2>3, <2>7, <2>8
  <2>10. StoreGrows
    BY <2>2, <2>3, <2>5, <2>6, <2>9 DEF StoreGrows
  <2>11. ProposalsOK'
    <3>1. \A m \in 1..Len(proposals') :
            /\ proposals'[m].item \in DOMAIN items
            /\ proposals'[m].version \in VersionsOf(proposals'[m].item)
      BY <2>3, <2>7, <2>9 DEF FixtureInv, ProposalsOK
    <3>2. \A j : \A m \in 1..Len(proposals') :
            j = proposals'[m].item => proposals'[m].version \in VersionsOf(j)'
      BY <2>5, <3>1
    <3> QED
      BY <2>6, <2>9, <3>1, <3>2 DEF ProposalsOK, VersionsOf
  <2>12. OneAwaiting'
    <3> SUFFICES ASSUME NEW m \in 1..Len(proposals'), proposals'[m].status = "AwaitingApproval"
                 PROVE  /\ KeyOf(proposals'[m]) \in DOMAIN awaitingByKey'
                        /\ awaitingByKey'[KeyOf(proposals'[m])] = m
      BY DEF OneAwaiting, KeyOf
    <3>1. m # n /\ proposals'[m] = proposals[m] /\ m \in 1..Len(proposals)
      BY <2>7, <2>9
    <3>2. KeyOf(proposals[m]) \in DOMAIN awaitingByKey /\ awaitingByKey[KeyOf(proposals[m])] = m
      BY <3>1 DEF FixtureInv, OneAwaiting
    <3>3. awaitingByKey[KeyOf(p)] = n
      BY <2>3 DEF FixtureInv, OneAwaiting
    <3>4. KeyOf(proposals[m]) # KeyOf(p)
      BY <3>1, <3>2, <3>3
    <3> QED
      BY <2>2, <3>1, <3>2, <3>4
  <2>13. \A q \in requests' : RequestOK(q)'
    BY <1>0, <2>10, RequestKept DEF FixtureInv, Moves
  <2>14. DraftsOK'
    BY <2>2, <2>10, DraftsKept DEF FixtureInv, DraftsOK
  <2>15. versions' \in Seq(Version) /\ VersionsNumbered' /\ CountersOK'
    BY <1>0, <2>2 DEF FixtureInv, VersionsNumbered, VersionsOf, CountersOK, Moves, Tick
  <2> QED
    BY <2>6, <2>11, <2>12, <2>13, <2>14, <2>15 DEF FixtureInv
<1> QED
  BY <1>1, <1>2

LEMMA ProposeKeeps ==
  ASSUME FixtureInv, NEW i \in DOMAIN items, NEW actor \in Actors, ProposePublication(i, actor)
  PROVE  FixtureInv'
<1> DEFINE v == items[i].current
           key == <<i, v, actor>>
           p == [item |-> i, version |-> v, actor |-> actor, status |-> "AwaitingApproval"]
           last == Len(proposals) + 1
<1>0. Moves
  BY CountedMoves DEF ProposePublication, AtOnce
<1>1. /\ v # Absent /\ ~Standing(key) /\ proposals' = Append(proposals, p)
      /\ awaitingByKey' = Having(awaitingByKey, key, last)
      /\ UNCHANGED <<drafts, items, versions, creates, nextDraft>>
  BY DEF ProposePublication
<1>2. v \in VersionsOf(i) /\ v \in Nat /\ i \in 1..MaxDrafts
  BY <1>1 DEF FixtureInv, ItemsOK, Points, VersionsOf
<1>3. p \in Proposal /\ p.item = i /\ p.version = v /\ KeyOf(p) = key
  BY <1>2 DEF Proposal, KeyOf
<1> HIDE DEF p
<1>4. /\ proposals' \in Seq(Proposal) /\ Len(proposals') = last /\ last \in Nat
      /\ proposals'[last] = p /\ proposals \in Seq(Proposal)
      /\ \A m \in 1..Len(proposals) : proposals'[m] = proposals[m]
  BY <1>1, <1>3 DEF FixtureInv, ProposalsOK
<1>5. \A j : VersionsOf(j)' = VersionsOf(j)
  BY <1>1 DEF VersionsOf
<1>6. StoreGrows
  BY <1>1, <1>4, <1>5 DEF StoreGrows
<1>7. ProposalsOK'
  <2>1. \A j : \A m \in 1..Len(proposals') :
          j = proposals'[m].item => j \in DOMAIN items /\ proposals'[m].version \in VersionsOf(j)'
    <3>1. \A m \in 1..Len(proposals) :
            /\ proposals[m].item \in DOMAIN items
            /\ proposals[m].version \in VersionsOf(proposals[m].item)
      BY DEF FixtureInv, ProposalsOK
    <3>2. \A m \in 1..Len(proposals') : m \in 1..Len(proposals) \/ m = last
      BY <1>4
    <3> QED
      BY <1>2, <1>3, <1>4, <1>5, <3>1, <3>2
  <2> QED
    BY <1>1, <1>4, <2>1 DEF ProposalsOK, VersionsOf
<1>8. OneAwaiting'
  <2> SUFFICES ASSUME NEW m \in 1..Len(proposals'), proposals'[m].status = "AwaitingApproval"
               PROVE  /\ KeyOf(proposals'[m]) \in DOMAIN awaitingByKey'
                      /\ awaitingByKey'[KeyOf(proposals'[m])] = m
    BY DEF OneAwaiting, KeyOf
  <2>1. CASE m = last
    BY <2>1, <1>1, <1>3, <1>4 DEF Having
  <2>2. CASE m # last
    <3>1. m \in 1..Len(proposals) /\ proposals'[m] = proposals[m]
      BY <1>4, <2>2
    <3>2. KeyOf(proposals[m]) \in DOMAIN awaitingByKey /\ awaitingByKey[KeyOf(proposals[m])] = m
      BY <3>1 DEF FixtureInv, OneAwaiting
    <3>3. KeyOf(proposals[m]) # key
      BY <1>1, <3>1, <3>2 DEF Standing
    <3> QED
      BY <1>1, <3>1, <3>2, <3>3 DEF Having
  <2> QED
    BY <2>1, <2>2
<1>9. \A q \in requests' : RequestOK(q)'
  BY <1>0, <1>6, RequestKept DEF FixtureInv, Moves
<1>10. DraftsOK' /\ ItemsOK'
  BY <1>0, <1>1, <1>6, DraftsKept, ItemsKept DEF FixtureInv, DraftsOK, Moves, Tick
<1>11. versions' \in Seq(Version) /\ VersionsNumbered' /\ CountersOK'
  BY <1>0, <1>1 DEF FixtureInv, VersionsNumbered, VersionsOf, CountersOK, Moves, Tick
<1> QED
  BY <1>7, <1>8, <1>9, <1>10, <1>11 DEF FixtureInv

LEMMA DeleteKeeps ==
  ASSUME FixtureInv, NEW d \in DOMAIN drafts, DeleteDraft(d)
  PROVE  FixtureInv'
<1>0. Moves
  BY CountedMoves DEF DeleteDraft
<1>1. /\ drafts' = [e \in DOMAIN drafts \ {d} |-> drafts[e]]
      /\ UNCHANGED <<items, versions, proposals, awaitingByKey, creates, nextDraft>>
  BY DEF DeleteDraft
<1>2. StoreGrows
  BY <1>1, GrowsBy
<1>3. DraftsOK'
  BY <1>1 DEF FixtureInv, DraftsOK, Made
<1>4. ItemsOK' /\ nextDraft' \in 1..MaxDrafts + 1
  BY <1>0, <1>1, <1>2, ItemsKept DEF FixtureInv, CountersOK, Moves, Tick
<1> QED
  BY <1>0, <1>1, <1>2, <1>3, <1>4, WritesKeep

LEMMA ValidateKeeps ==
  ASSUME FixtureInv, NEW d \in DOMAIN drafts, NEW counts \in {0, 1}, ValidateDraft(d, counts)
  PROVE  FixtureInv'
<1>0. Moves /\ UNCHANGED <<items, versions, proposals, awaitingByKey, creates, nextDraft>>
  BY CountedMoves DEF ValidateDraft, AtOnce
<1>1. /\ drafts[d] \in Held /\ Made(d, drafts[d].command) /\ d \in 1..MaxDrafts
      /\ drafts[d].generation + counts \in Nat /\ now' \in Nat /\ drafts[d].item \in 1..MaxDrafts
      /\ 0 \in 0..MaxOps
  BY <1>0, FixtureAssumption DEF FixtureInv, DraftsOK, Held, Moves, Tick, CountersOK
<1> DEFINE record == [drafts[d] EXCEPT !.generation = drafts[d].generation + counts,
                                       !.updated = now']
<1>2. record \in Held /\ record.command = drafts[d].command
  BY <1>1, WrittenType
<1>3. Store(d, record)
  <2>1. record = [drafts[d] EXCEPT !.updated = now', !.generation = drafts[d].generation + counts]
    BY <1>1 DEF Held
  <2> QED
    BY <2>1 DEF ValidateDraft
<1> HIDE DEF record
<1>4. nextDraft' \in 1..MaxDrafts + 1
  BY <1>0 DEF FixtureInv, CountersOK
<1> QED
  BY <1>0, <1>1, <1>2, <1>3, <1>4, WriteKeeps

LEMMA ToolCreatesKeeps ==
  ASSUME FixtureInv, NEW i \in DOMAIN items \cup {Absent}, ToolCreatesDraft(i)
  PROVE  FixtureInv'
<1>0. Moves /\ ops' \in 1..MaxOps /\ UNCHANGED <<versions, proposals, awaitingByKey, creates>>
  BY CountedMoves DEF ToolCreatesDraft, AtOnce
<1> DEFINE d == IF i = Absent THEN nextDraft ELSE i
           record == [item |-> d, generation |-> 1, body |-> ops', base |-> 0,
                      updated |-> now', command |-> Absent]
<1>1. /\ d <= MaxDrafts /\ Store(d, record) /\ items' = Touched(d)
      /\ nextDraft' = IF i = Absent THEN nextDraft + 1 ELSE nextDraft
  BY DEF ToolCreatesDraft
<1>2. d \in 1..MaxDrafts /\ nextDraft' \in 1..MaxDrafts + 1
  BY <1>1, FixtureAssumption DEF FixtureInv, CountersOK, ItemsOK
<1>3. record \in Held /\ record.command = Absent
  BY <1>0, <1>2 DEF Held, FixtureInv, CountersOK, Moves, Tick
<1>4. Made(d, Absent)
  BY DEF Made
<1>5. PICK e, next : e = d /\ next = record
  OBVIOUS
<1>6. e \in 1..MaxDrafts /\ next \in Held /\ Store(e, next) /\ Made(e, next.command)
      /\ items' = Touched(e)
  BY <1>1, <1>2, <1>3, <1>4, <1>5
<1> QED
  BY <1>0, <1>2, <1>6, WriteKeeps

LEMMA ToolUpdatesKeeps ==
  ASSUME FixtureInv, NEW d \in DOMAIN drafts, ToolUpdatesDraft(d)
  PROVE  FixtureInv'
<1>0. Moves /\ ops' \in 0..MaxOps
      /\ UNCHANGED <<versions, proposals, awaitingByKey, creates, nextDraft>>
  BY CountedMoves DEF ToolUpdatesDraft, AtOnce, Moves
<1>1. /\ drafts[d] \in Held /\ Made(d, drafts[d].command) /\ d \in 1..MaxDrafts
      /\ drafts[d].generation + 1 \in Nat /\ now' \in Nat /\ drafts[d].item \in 1..MaxDrafts
  BY <1>0 DEF FixtureInv, DraftsOK, Held, Moves, Tick, CountersOK
<1> DEFINE record == [drafts[d] EXCEPT !.body = ops', !.generation = drafts[d].generation + 1,
                                       !.updated = now']
<1>2. record \in Held /\ record.command = drafts[d].command
  <2>1. PICK held, time, g, body :
          held = drafts[d] /\ time = now' /\ g = drafts[d].generation + 1 /\ body = ops'
    OBVIOUS
  <2>2. held \in Held /\ time \in Nat /\ g \in Nat /\ body \in 0..MaxOps
    BY <1>0, <1>1, <2>1
  <2>3. PICK next : next = record
    OBVIOUS
  <2>4. next = [held EXCEPT !.body = body, !.generation = g, !.updated = time]
    BY <2>1, <2>3
  <2>5. next \in Held /\ next.command = held.command
    BY <2>2, <2>4 DEF Held
  <2> HIDE DEF record
  <2> QED
    BY <2>1, <2>3, <2>5
<1>3. Store(d, record) /\ items' = Touched(drafts[d].item)
  BY DEF ToolUpdatesDraft
<1> HIDE DEF record
<1>4. nextDraft' \in 1..MaxDrafts + 1
  BY <1>0 DEF FixtureInv, CountersOK
<1>5. PICK i, next : i = drafts[d].item /\ next = record
  OBVIOUS
<1>6. i \in 1..MaxDrafts /\ items' = Touched(i) /\ Store(d, next) /\ next \in Held
      /\ Made(d, next.command)
  BY <1>1, <1>2, <1>3, <1>5
<1> QED
  BY <1>0, <1>1, <1>4, <1>6, WriteKeeps

LEMMA ReopenKeeps ==
  ASSUME FixtureInv, NEW v \in 1..Len(versions), Reopen(v)
  PROVE  FixtureInv'
<1> DEFINE d == nextDraft
           record == [item |-> versions[v].item, generation |-> 1, body |-> versions[v].body,
                      base |-> v, updated |-> now', command |-> Absent]
<1>0. Moves /\ UNCHANGED <<items, versions, proposals, awaitingByKey, creates>>
  BY CountedMoves DEF Reopen, AtOnce
<1>1. d \in 1..MaxDrafts /\ nextDraft' = d + 1 /\ Store(d, record)
  BY FixtureAssumption DEF Reopen, FixtureInv, CountersOK
<1>2. record \in Held /\ record.command = Absent /\ nextDraft' \in 1..MaxDrafts + 1
  <2>1. versions[v].item \in 1..MaxDrafts /\ versions[v].body \in 0..MaxOps /\ v \in Nat
    <3>1. versions \in Seq(Version)
      BY DEF FixtureInv
    <3>2. versions[v] \in Version
      BY <3>1
    <3> QED
      BY <3>2 DEF Version
  <2>2. now' \in Nat /\ nextDraft' \in 1..MaxDrafts + 1
    BY <1>0, <1>1, FixtureAssumption DEF FixtureInv, CountersOK, Moves, Tick
  <2> QED
    BY <2>1, <2>2 DEF Held
<1>3. PICK e, next : e = d /\ next = record
  OBVIOUS
<1>4. e \in 1..MaxDrafts /\ next \in Held /\ Store(e, next) /\ Made(e, next.command)
  BY <1>1, <1>2, <1>3 DEF Made
<1> QED
  BY <1>0, <1>1, <1>2, <1>4, WriteKeeps

LEMMA SavingKeeps ==
  ASSUME FixtureInv,
         \/ \E r \in requests : SaveDraft(r)
         \/ \E d \in DOMAIN drafts : ToolSavesVersion(d)
  PROVE  FixtureInv'
<1>1. ASSUME NEW r \in requests, SaveDraft(r) PROVE FixtureInv'
  <2>1. /\ Moves /\ RequestOK(r) /\ r.op = "save" /\ SaveStudioVersion(r.draft, r.held)
        /\ UNCHANGED <<proposals, awaitingByKey, creates, nextDraft>>
    BY <1>1, BodyReadMoves DEF SaveDraft, FixtureInv
  <2>2. r.draft \in 1..MaxDrafts /\ r.held \in Held /\ Made(r.draft, r.held.command)
    BY <2>1 DEF RequestOK
  <2> QED
    BY <2>1, <2>2, SaveKeeps
<1>2. ASSUME NEW d \in DOMAIN drafts, ToolSavesVersion(d) PROVE FixtureInv'
  <2>1. /\ Moves /\ SaveStudioVersion(d, drafts[d])
        /\ UNCHANGED <<proposals, awaitingByKey, creates, nextDraft>>
    BY <1>2, CountedMoves DEF ToolSavesVersion, AtOnce
  <2>2. d \in 1..MaxDrafts /\ drafts[d] \in Held /\ Made(d, drafts[d].command)
    BY DEF FixtureInv, DraftsOK
  <2>3. PICK held : held = drafts[d]
    OBVIOUS
  <2> QED
    BY <2>1, <2>2, <2>3, SaveKeeps
<1> QED
  BY <1>1, <1>2

LEMMA Calling ==
  ASSUME FixtureInv, \E request : RequestOK(request) /\ Called(request)
  PROVE  FixtureInv'
  BY CalledKeeps

\* A client's call is remembered with what the server held when it was made.
LEMMA CallsKeep ==
  ASSUME FixtureInv,
         \/ \E k \in Commands, x \in Inputs : CallCreate(k, x)
         \/ \E x \in Inputs : CallCreate(Absent, x)
         \/ \E d \in DOMAIN drafts, g \in {Absent} \cup (1 .. MaxOps + 2) : CallPut(d, g)
         \/ \E d \in DOMAIN drafts : CallSave(d)
         \/ \E i \in DOMAIN items, v \in 1 .. Len(versions) : CallPublish(i, v)
         \/ \E i \in DOMAIN items : CallRollback(i)
         \/ \E n \in 1 .. Len(proposals), a \in Actors : CallDecision(n, a)
  PROVE  FixtureInv'
<1>0. ASSUME NEW request, Called(request) PROVE ops + 1 \in 1..MaxOps
  BY <1>0, FixtureAssumption DEF Called, FixtureInv, CountersOK
<1>1. ASSUME NEW k \in Commands \cup {Absent}, NEW x \in Inputs, CallCreate(k, x) PROVE FixtureInv'
  <2> DEFINE request == [n |-> ops + 1, op |-> "create", command |-> k, input |-> x]
  <2>1. Called(request) /\ ops + 1 \in 1..MaxOps
    BY <1>0, <1>1 DEF CallCreate
  <2>2. RequestOK(request)
    BY <2>1 DEF RequestOK
  <2> QED
    BY <2>1, <2>2, Calling
<1>2. ASSUME NEW d \in DOMAIN drafts, NEW g, CallPut(d, g) PROVE FixtureInv'
  <2> DEFINE request == [n |-> ops + 1, op |-> "put", draft |-> d, held |-> drafts[d],
                         generation |-> g]
  <2>1. Called(request) /\ ops + 1 \in 1..MaxOps
    BY <1>0, <1>2 DEF CallPut
  <2>2. RequestOK(request)
    BY <2>1 DEF RequestOK, FixtureInv, DraftsOK
  <2> QED
    BY <2>1, <2>2, Calling
<1>3. ASSUME NEW d \in DOMAIN drafts, CallSave(d) PROVE FixtureInv'
  <2> DEFINE request == [n |-> ops + 1, op |-> "save", draft |-> d, held |-> drafts[d]]
  <2>1. Called(request) /\ ops + 1 \in 1..MaxOps
    BY <1>0, <1>3 DEF CallSave
  <2>2. RequestOK(request)
    BY <2>1 DEF RequestOK, FixtureInv, DraftsOK
  <2> QED
    BY <2>1, <2>2, Calling
<1>4. ASSUME NEW i \in DOMAIN items, NEW v, CallPublish(i, v) PROVE FixtureInv'
  <2> DEFINE request == [n |-> ops + 1, op |-> "publish", item |-> i, version |-> v]
  <2>1. Called(request) /\ ops + 1 \in 1..MaxOps /\ v \in VersionsOf(i)
    BY <1>0, <1>4 DEF CallPublish, VersionOf
  <2>2. RequestOK(request)
    BY <2>1 DEF RequestOK
  <2> QED
    BY <2>1, <2>2, Calling
<1>5. ASSUME NEW i \in DOMAIN items, CallRollback(i) PROVE FixtureInv'
  <2> DEFINE request == [n |-> ops + 1, op |-> "rollback", item |-> i, held |-> items[i]]
  <2>1. Called(request) /\ ops + 1 \in 1..MaxOps
    BY <1>0, <1>5 DEF CallRollback
  <2>2. RequestOK(request)
    BY <2>1 DEF RequestOK, FixtureInv, ItemsOK
  <2> QED
    BY <2>1, <2>2, Calling
<1>6. ASSUME NEW n \in 1..Len(proposals), NEW a, CallDecision(n, a) PROVE FixtureInv'
  <2> DEFINE request == [n |-> ops + 1, op |-> "decide", proposal |-> n,
                         held |-> proposals[n].status]
  <2>1. Called(request) /\ ops + 1 \in 1..MaxOps
    BY <1>0, <1>6 DEF CallDecision
  <2>2. RequestOK(request)
    BY <2>1 DEF RequestOK
  <2> QED
    BY <2>1, <2>2, Calling
<1> QED
  BY <1>1, <1>2, <1>3, <1>4, <1>5, <1>6

\* Every step of the fixture server keeps its invariant.
LEMMA FixtureInvNext == FixtureInv /\ [FixtureNext]_fixtureVars => FixtureInv'
<1> SUFFICES ASSUME FixtureInv, [FixtureNext]_fixtureVars PROVE FixtureInv'
  OBVIOUS
<1>0. now \in Nat /\ ops \in 0..MaxOps
  BY DEF FixtureInv, CountersOK
<1>1. ASSUME NEW r \in requests, Refuse(r) PROVE FixtureInv'
  BY <1>0, <1>1, StoreStays DEF Refuse
<1>2. CASE (\E of \in {"items", "drafts"} : StartWalk(of)) \/ NextPage \/ EndWalk
  <2>1. UNCHANGED <<storeVars, requests, now>> /\ ops' \in 0..MaxOps
    BY <1>0, <1>2, FixtureAssumption DEF StartWalk, NextPage, EndWalk
  <2> QED
    BY <2>1, StoreStays
<1>3. CASE UNCHANGED fixtureVars
  BY <1>0, <1>3, StoreStays DEF fixtureVars
<1> QED
  BY <1>1, <1>2, <1>3, CallsKeep, CreateKeeps, PutKeeps, SavingKeeps, PublishKeeps, RollbackKeeps,
     DecideKeeps, DeleteKeeps, ToolUpdatesKeeps, ValidateKeeps, ToolCreatesKeeps, ReopenKeeps,
     ProposeKeeps DEF FixtureNext

LEMMA FixtureInvImplies ==
  FixtureInv => /\ FixtureTypeOK /\ VersionsNumbered /\ PointersOwn /\ OneDraftPerCommand
                /\ OneAwaiting
<1> SUFFICES ASSUME FixtureInv
             PROVE  /\ FixtureTypeOK /\ VersionsNumbered /\ PointersOwn /\ OneDraftPerCommand
                    /\ OneAwaiting
  OBVIOUS
<1>1. FixtureTypeOK
  BY DEF FixtureInv, FixtureTypeOK, CountersOK, DraftsOK, ItemsOK
<1>2. PointersOwn
  BY DEF FixtureInv, PointersOwn, ItemsOK, Points
<1>3. OneDraftPerCommand
  BY DEF FixtureInv, OneDraftPerCommand, DraftsOK, Made
<1> QED
  BY <1>1, <1>2, <1>3 DEF FixtureInv

\* Only a decision changes a proposal, and only one that still awaits it.
LEMMA DecidedStays ==
  FixtureInv /\ [FixtureNext]_fixtureVars =>
    [\A n \in 1 .. Len(proposals) :
       proposals[n].status # "AwaitingApproval" =>
         proposals'[n].status = proposals[n].status]_fixtureVars
<1> SUFFICES ASSUME FixtureInv, FixtureNext, NEW n \in 1..Len(proposals),
                    proposals[n].status # "AwaitingApproval"
             PROVE  proposals'[n].status = proposals[n].status
  OBVIOUS
<1>0. proposals \in Seq(Proposal)
  BY DEF FixtureInv, ProposalsOK
<1>1. ASSUME NEW r \in requests, Decide(r) PROVE proposals'[n].status = proposals[n].status
  <2>1. CASE ~StillAwaiting(r)
    BY <1>1, <2>1 DEF Decide, storeVars
  <2>2. CASE StillAwaiting(r)
    <3>1. r.proposal # n
      BY <2>2 DEF StillAwaiting
    <3>2. proposals'[n] = proposals[n]
      BY <1>1, <2>2, <3>1, <1>0 DEF Decide
    <3> QED
      BY <3>2
  <2> QED
    BY <2>1, <2>2
<1>2. ASSUME NEW i \in DOMAIN items, NEW a \in Actors, ProposePublication(i, a)
      PROVE  proposals'[n].status = proposals[n].status
  <2>1. \E p : proposals' = Append(proposals, p)
    BY <1>2 DEF ProposePublication
  <2> QED
    BY <2>1, <1>0
<1>3. \/ \E r \in requests : Decide(r)
      \/ \E i \in DOMAIN items, a \in Actors : ProposePublication(i, a)
      \/ proposals' = proposals
  BY DEF FixtureNext, CallCreate, CallPut, CallSave, CallPublish, CallRollback, CallDecision,
       Called,
    storeVars, Refuse, Create, Put, SaveDraft, Publish, Rollback, DeleteDraft, ToolUpdatesDraft,
    ToolSavesVersion, ValidateDraft, ToolCreatesDraft, Reopen, StartWalk, NextPage, EndWalk
<1> QED
  BY <1>1, <1>2, <1>3

\* The fixture's versions are numbered within their item, its pointers name versions
\* of their own item, a creation command has one draft, an awaiting proposal is the one
\* found by its key, and a decision is final (mock-server.mjs).
THEOREM StoreAgrees ==
  FixtureSpec => /\ [](/\ FixtureTypeOK /\ VersionsNumbered /\ PointersOwn
                       /\ OneDraftPerCommand /\ OneAwaiting)
                 /\ DecisionStands
  BY FixtureInvInit, FixtureInvNext, FixtureInvImplies, DecidedStays, PTL
    DEF FixtureSpec, DecisionStands

(***************************************************************************)
(* FixtureServer: the jobs and the catalog                                 *)
(***************************************************************************)
Job == [draft : Drafts, polls : Nat, fails : BOOLEAN, registered : SUBSET (Outputs \cup {Result}),
        override : BOOLEAN]
Dataset == [job : Nat, output : Outputs \cup {Result}]

EntriesOf(n) == {i \in DOMAIN catalog : catalog[i].job = n}

\* The catalog's entries of a job are its registered outputs, each once.
Registered(n) ==
    /\ {catalog[i].output : i \in EntriesOf(n)} = jobs[n].registered
    /\ \A i, j \in EntriesOf(n) : catalog[i].output = catalog[j].output => i = j
    /\ jobs[n].registered # {} => JobStatus(jobs[n]) = "successful"

JobsInv ==
    /\ declared \in [Drafts -> (SUBSET Outputs) \cup {Gone}]
    /\ validated \subseteq Drafts
    /\ jobs \in Seq(Job) /\ catalog \in Seq(Dataset)
    /\ \A i \in DOMAIN catalog : catalog[i].job \in DOMAIN jobs
    /\ \A n \in DOMAIN jobs : Registered(n)

\* A finite set in a sequence: every member, and each once.
LEMMA SequenceOfSet ==
    ASSUME NEW S, IsFiniteSet(S)
    PROVE  /\ SetToSeq(S) \in Seq(S)
           /\ \A i, j \in DOMAIN SetToSeq(S) : SetToSeq(S)[i] = SetToSeq(S)[j] => i = j
           /\ \A x \in S : \E i \in DOMAIN SetToSeq(S) : SetToSeq(S)[i] = x
<1> DEFINE n == Cardinality(S)
           s == SetToSeq(S)
<1>1. n \in Nat /\ ExistsBijection(1..n, S)
    BY FS_CardinalityType
<1>2. PICK b : b \in Bijection(1..n, S)
    BY <1>1 DEF ExistsBijection
<1>3. b \in [1..n -> S] /\ IsInjective(b)
    BY <1>2 DEF Bijection, Injection
<1>4. s \in [1..n -> S] /\ IsInjective(s)
    BY <1>3 DEF SetToSeq
<1> HIDE DEF s
<1>5. s \in Injection(1..n, S)
    BY <1>4 DEF Injection
<1>6. IsFiniteSet(1..n) /\ Cardinality(1..n) = n
    BY <1>1, FS_Interval
<1>7. s \in Surjection(1..n, S)
    BY <1>5, <1>6, FS_Injection
<1>8. \A x \in S : \E i \in 1..n : s[i] = x
    BY <1>7 DEF Surjection
<1>9. s \in Seq(S) /\ DOMAIN s = 1..n
    BY <1>1, <1>4
<1> QED
    BY <1>4, <1>8, <1>9 DEF IsInjective, s

LEMMA JobsInvInit == JobsInit => JobsInv
  BY DEF JobsInit, JobsInv

\* What a draft declares is finite, and is never nothing.
LEMMA OutputsOfDraft ==
    ASSUME JobsInv, NEW d \in Drafts
    PROVE  /\ DraftOutputs(d) \in SUBSET (Outputs \cup {Result}) /\ DraftOutputs(d) # {}
           /\ IsFiniteSet(DraftOutputs(d))
<1>1. DraftOutputs(d) \in SUBSET (Outputs \cup {Result}) /\ DraftOutputs(d) # {}
    BY DEF JobsInv, DraftOutputs
<1>2. IsFiniteSet(Outputs \cup {Result})
    BY OutputsAssumption, FS_AddElement
<1> QED
    BY <1>1, <1>2, FS_Subset

LEMMA Behind ==
    ASSUME NEW c \in Nat, NEW l \in Nat, NEW i \in 1..(c + l), i \notin 1..c
    PROVE  i - c \in 1..l /\ i = c + (i - c)
  OBVIOUS

\* A job that has not registered has no entries, and the others keep theirs.
LEMMA RegisterKeeps ==
    ASSUME JobsInv, UNCHANGED <<declared, validated>>, NEW n \in DOMAIN jobs, NEW job \in Job,
           job.registered = jobs[n].registered, JobStatus(job) = "successful",
           Unregistered(job), TakeSnapshot(n, job)
    PROVE  JobsInv'
<1> DEFINE outputs == DraftOutputs(job.draft)
           added == {[job |-> n, output |-> o] : o \in outputs}
           s == SetToSeq(added)
           next == [job EXCEPT !.registered = outputs]
<1>0. job.draft \in Drafts /\ jobs \in Seq(Job) /\ catalog \in Seq(Dataset) /\ n \in Nat
    BY DEF Job, JobsInv
<1>1. /\ outputs \in SUBSET (Outputs \cup {Result}) /\ IsFiniteSet(outputs)
    BY <1>0, OutputsOfDraft
<1>2. catalog' = catalog \o s /\ jobs' = [jobs EXCEPT ![n] = next]
    BY DEF TakeSnapshot
<1>3. next \in Job /\ next.registered = outputs /\ JobStatus(next) = "successful"
    BY <1>1 DEF Job, JobStatus
<1> HIDE DEF outputs, next
<1>4. IsFiniteSet(added)
    <2> DEFINE f == [o \in outputs |-> [job |-> n, output |-> o]]
    <2>1. f \in Surjection(outputs, added)
        BY DEF Surjection
    <2> QED
        BY <1>1, <2>1, FS_Surjection
<1> HIDE DEF s
<1>5. /\ s \in Seq(added)
      /\ \A i, j \in DOMAIN s : s[i] = s[j] => i = j
      /\ \A x \in added : \E i \in DOMAIN s : s[i] = x
    BY <1>4, SequenceOfSet DEF s
<1>6. \A x \in added : x \in Dataset /\ x.job = n /\ x.output \in outputs
    BY <1>0, <1>1 DEF Dataset
<1>7. s \in Seq(Dataset)
    BY <1>5, <1>6
<1> DEFINE c == Len(catalog)
<1>8. /\ catalog' \in Seq(Dataset) /\ c \in Nat /\ Len(s) \in Nat
      /\ DOMAIN catalog' = 1..(c + Len(s)) /\ DOMAIN catalog = 1..c /\ DOMAIN s = 1..Len(s)
      /\ \A i \in 1..c : catalog'[i] = catalog[i]
      /\ \A i \in 1..Len(s) : catalog'[c + i] = s[i]
    BY <1>0, <1>2, <1>7
<1>9. \A i \in DOMAIN catalog' : i \notin 1..c => i - c \in 1..Len(s) /\ catalog'[i] = s[i - c]
    <2>1. SUFFICES ASSUME NEW i \in DOMAIN catalog', i \notin 1..c
                   PROVE  i - c \in 1..Len(s) /\ catalog'[i] = s[i - c]
        OBVIOUS
    <2>2. i - c \in 1..Len(s) /\ i = c + (i - c)
        <3>1. i \in 1..(c + Len(s)) /\ c \in Nat /\ Len(s) \in Nat
            BY <1>8
        <3> QED
            BY <2>1, <3>1, Behind
    <2> QED
        BY <1>8, <2>2
<1>10. \A i \in DOMAIN catalog' : i \notin 1..c =>
         catalog'[i].job = n /\ catalog'[i].output \in outputs
    BY <1>5, <1>6, <1>8, <1>9
<1>11. /\ jobs' \in Seq(Job) /\ DOMAIN jobs' = DOMAIN jobs /\ jobs'[n] = next
       /\ \A m \in DOMAIN jobs : m # n => jobs'[m] = jobs[m]
    BY <1>0, <1>2, <1>3
<1>12. EntriesOf(n) = {}
    <2>1. {catalog[i].output : i \in EntriesOf(n)} = {}
        BY DEF JobsInv, Registered, Unregistered
    <2> QED
        BY <2>1
<1>13. EntriesOf(n)' = DOMAIN catalog' \ (1..c)
    BY <1>8, <1>10, <1>12 DEF EntriesOf
<1>14. \A m \in DOMAIN jobs : m # n => EntriesOf(m)' = EntriesOf(m) /\ EntriesOf(m) \subseteq 1..c
    BY <1>8, <1>10 DEF EntriesOf
<1>15. Registered(n)'
    <2>1. \A o \in outputs : \E i \in EntriesOf(n)' : catalog'[i].output = o
        <3> SUFFICES ASSUME NEW o \in outputs PROVE \E i \in EntriesOf(n)' : catalog'[i].output = o
            OBVIOUS
        <3>1. PICK i \in 1..Len(s) : s[i] = [job |-> n, output |-> o]
            BY <1>5, <1>8
        <3>2. c + i \in DOMAIN catalog' /\ c + i \notin 1..c /\ catalog'[c + i] = s[i]
            BY <1>8
        <3> QED
            BY <1>13, <3>1, <3>2
    <2>2. {catalog'[i].output : i \in EntriesOf(n)'} = outputs
        BY <1>10, <1>13, <2>1
    <2>3. ASSUME NEW i \in EntriesOf(n)', NEW j \in EntriesOf(n)',
                   catalog'[i].output = catalog'[j].output
          PROVE  i = j
        <3>1. /\ i - c \in 1..Len(s) /\ catalog'[i] = s[i - c]
              /\ j - c \in 1..Len(s) /\ catalog'[j] = s[j - c] /\ i \in Int /\ j \in Int
            BY <1>8, <1>9, <1>13
        <3>2. s[i - c] \in added /\ s[j - c] \in added
            BY <1>5, <1>8, <3>1
        <3>3. s[i - c] = s[j - c]
            <4>1. PICK o, p \in outputs : s[i - c] = [job |-> n, output |-> o]
                       /\ s[j - c] = [job |-> n, output |-> p]
                BY <3>2
            <4>2. o = p
                BY <2>3, <3>1, <4>1
            <4> QED
                BY <4>1, <4>2
        <3>4. i - c = j - c
            BY <1>5, <1>8, <3>1, <3>3
        <3> QED
            BY <1>8, <3>1, <3>4
    <2> QED
        BY <1>3, <1>11, <2>2, <2>3 DEF Registered
<1>16. \A m \in DOMAIN jobs : m # n => Registered(m)'
    <2> SUFFICES ASSUME NEW m \in DOMAIN jobs, m # n PROVE Registered(m)'
        OBVIOUS
    <2>1. Registered(m) /\ jobs'[m] = jobs[m]
        BY <1>11 DEF JobsInv
    <2>2. \A i \in EntriesOf(m) : catalog'[i] = catalog[i]
        BY <1>8, <1>14
    <2> QED
        BY <1>14, <2>1, <2>2 DEF Registered
<1>17. \A i \in DOMAIN catalog' : catalog'[i].job \in DOMAIN jobs'
    BY <1>8, <1>10, <1>11 DEF JobsInv
<1> QED
    BY <1>8, <1>11, <1>15, <1>16, <1>17 DEF JobsInv

\* A job goes on without registering anything.
LEMMA GoesOn ==
    ASSUME JobsInv, UNCHANGED <<declared, validated, catalog>>, NEW n \in DOMAIN jobs,
           NEW job \in Job, jobs' = [jobs EXCEPT ![n] = job], job.registered = jobs[n].registered,
           job.registered # {} => JobStatus(job) = "successful"
    PROVE  JobsInv'
<1>1. /\ jobs' \in Seq(Job) /\ DOMAIN jobs' = DOMAIN jobs /\ jobs'[n] = job
      /\ \A m \in DOMAIN jobs : m # n => jobs'[m] = jobs[m]
    BY DEF JobsInv
<1>2. \A m : EntriesOf(m)' = EntriesOf(m)
    BY DEF EntriesOf
<1>3. \A m \in DOMAIN jobs : Registered(m)'
    BY <1>1, <1>2 DEF JobsInv, Registered
<1> QED
    BY <1>1, <1>3 DEF JobsInv

\* One more poll: an end stays, and what was registered.
LEMMA Polled ==
    ASSUME NEW job \in Job, job.registered # {} => JobStatus(job) = "successful"
    PROVE  LET next == [job EXCEPT !.polls = IF job.override THEN job.polls ELSE job.polls + 1]
           IN  /\ next \in Job /\ next.registered = job.registered
               /\ next.registered # {} => JobStatus(next) = "successful"
               /\ JobStatus(job) \in Ended => JobStatus(next) = JobStatus(job)
  BY DEF Job, JobStatus, Ended

\* A job that ends without success has registered nothing.
LEMMA Cancelled ==
    ASSUME NEW job \in Job, job.registered # {} => JobStatus(job) = "successful"
    PROVE  LET next == [job EXCEPT !.override = job.override \/ MayDismiss(job)]
           IN  /\ next \in Job /\ next.registered = job.registered
               /\ next.registered # {} => JobStatus(next) = "successful"
               /\ JobStatus(job) \in Ended => JobStatus(next) = JobStatus(job)
  BY DEF Job, JobStatus, Ended, MayDismiss

\* The jobs a step leaves alone.
LEMMA JobsStay ==
    ASSUME JobsInv, UNCHANGED <<jobs, catalog>>,
           declared' \in [Drafts -> (SUBSET Outputs) \cup {Gone}], validated' \subseteq Drafts
    PROVE  JobsInv'
  BY DEF JobsInv, Registered, EntriesOf

\* A submission adds a job that has registered nothing.
LEMMA SubmitKeeps ==
    ASSUME JobsInv, NEW d \in Drafts, NEW fails \in BOOLEAN, SubmitJob(d, fails)
    PROVE  JobsInv'
<1> DEFINE job ==
             [draft |-> d, polls |-> 0, fails |-> fails, registered |-> {}, override |-> FALSE]
<1> PICK last : last = Len(jobs) + 1
    OBVIOUS
<1>1. jobs' = Append(jobs, job) /\ UNCHANGED <<declared, validated, catalog>>
    BY DEF SubmitJob
<1>2. job \in Job /\ job.registered = {}
    BY DEF Job
<1> HIDE DEF job
<1>3. /\ jobs' \in Seq(Job) /\ DOMAIN jobs' = 1..last /\ DOMAIN jobs = 1..Len(jobs)
      /\ jobs'[last] = job /\ Len(jobs) \in Nat
      /\ \A m \in DOMAIN jobs : jobs'[m] = jobs[m]
    BY <1>1, <1>2 DEF JobsInv
<1>4. \A m : EntriesOf(m)' = EntriesOf(m)
    BY <1>1 DEF EntriesOf
<1>5. EntriesOf(last) = {}
    BY <1>3 DEF JobsInv, EntriesOf
<1>6. Registered(last)'
    <2>1. {catalog[i].output : i \in {}} = {}
        OBVIOUS
    <2> QED
        BY <1>1, <1>2, <1>3, <1>4, <1>5, <2>1 DEF Registered
<1>7. \A m \in DOMAIN jobs : Registered(m)'
    BY <1>1, <1>3, <1>4 DEF JobsInv, Registered
<1>8. \A m \in DOMAIN jobs' : Registered(m)'
    BY <1>3, <1>6, <1>7
<1> QED
    BY <1>1, <1>3, <1>8 DEF JobsInv

\* What becomes of a job when it is asked for, or cancelled.
JobStep(n, job) ==
    /\ job \in Job /\ job.registered = jobs[n].registered
    /\ job.registered # {} => JobStatus(job) = "successful"
    /\ JobStatus(jobs[n]) \in Ended => JobStatus(job) = JobStatus(jobs[n])
    /\ \/ TakeSnapshot(n, job)
       \/ jobs' = [jobs EXCEPT ![n] = job] /\ UNCHANGED catalog

LEMMA StepOfJob ==
    ASSUME JobsInv, NEW n \in DOMAIN jobs, PollJob(n) \/ CancelJob(n)
    PROVE  (\E job : JobStep(n, job)) /\ UNCHANGED <<declared, validated>>
<1>0. jobs[n] \in Job /\ (jobs[n].registered # {} => JobStatus(jobs[n]) = "successful")
    BY DEF JobsInv, Registered
<1>1. CASE PollJob(n)
    <2> DEFINE job == [jobs[n] EXCEPT !.polls = IF jobs[n].override THEN jobs[n].polls
                                                ELSE jobs[n].polls + 1]
    <2>1. TakeSnapshot(n, job) /\ UNCHANGED <<declared, validated>>
        BY <1>1 DEF PollJob
    <2>2. /\ job \in Job /\ job.registered = jobs[n].registered
          /\ job.registered # {} => JobStatus(job) = "successful"
          /\ JobStatus(jobs[n]) \in Ended => JobStatus(job) = JobStatus(jobs[n])
        BY <1>0, Polled
    <2> QED
        BY <2>1, <2>2 DEF JobStep
<1>2. CASE CancelJob(n)
    <2> DEFINE job == [jobs[n] EXCEPT !.override = jobs[n].override \/ MayDismiss(jobs[n])]
    <2>1. jobs' = [jobs EXCEPT ![n] = job] /\ UNCHANGED <<declared, validated, catalog>>
        BY <1>2 DEF CancelJob
    <2>2. /\ job \in Job /\ job.registered = jobs[n].registered
          /\ job.registered # {} => JobStatus(job) = "successful"
          /\ JobStatus(jobs[n]) \in Ended => JobStatus(job) = JobStatus(jobs[n])
        BY <1>0, Cancelled
    <2> QED
        BY <2>1, <2>2 DEF JobStep
<1> QED
    BY <1>1, <1>2

\* A job's own step keeps the invariant, whatever became of its draft.
LEMMA JobKeeps ==
    ASSUME JobsInv, NEW n \in DOMAIN jobs, NEW job, JobStep(n, job),
             UNCHANGED <<declared, validated>>
    PROVE  JobsInv'
<1>1. CASE TakeSnapshot(n, job) /\ JobStatus(job) = "successful" /\ Unregistered(job)
    BY <1>1, RegisterKeeps DEF JobStep
<1>2. CASE ~(TakeSnapshot(n, job) /\ JobStatus(job) = "successful" /\ Unregistered(job))
    <2>1. jobs' = [jobs EXCEPT ![n] = job] /\ UNCHANGED catalog
        BY <1>2 DEF JobStep, TakeSnapshot
    <2> QED
        BY <2>1, GoesOn DEF JobStep
<1> QED
    BY <1>1, <1>2

LEMMA JobsInvNext == JobsInv /\ [JobsNext]_jobVars => JobsInv'
<1> SUFFICES ASSUME JobsInv, [JobsNext]_jobVars PROVE JobsInv'
    OBVIOUS
<1>1. ASSUME NEW n \in DOMAIN jobs, PollJob(n) \/ CancelJob(n) PROVE JobsInv'
    BY <1>1, StepOfJob, JobKeeps
<1>2. ASSUME NEW d \in Drafts, AskAboutDraft(d) PROVE JobsInv'
    BY <1>2, JobsStay DEF AskAboutDraft, JobsInv
<1>3. ASSUME NEW d \in Drafts, NEW o \in (SUBSET Outputs) \cup {Gone}, WriteDraft(d, o)
               PROVE JobsInv'
    BY <1>3, JobsStay DEF WriteDraft, JobsInv
<1>4. CASE UNCHANGED jobVars
    BY <1>4, JobsStay DEF jobVars, JobsInv
<1> QED
    BY <1>1, <1>2, <1>3, <1>4, SubmitKeeps DEF JobsNext

LEMMA JobsInvImplies == JobsInv => JobsTypeOK /\ CatalogHoldsResults
<1> SUFFICES ASSUME JobsInv PROVE JobsTypeOK /\ CatalogHoldsResults
    OBVIOUS
<1>1. JobsTypeOK
    <2>1. \A n \in DOMAIN jobs : jobs[n] \in Job
        BY DEF JobsInv
    <2> QED
        BY <2>1 DEF JobsInv, JobsTypeOK, Job
<1>2. ASSUME NEW n \in DOMAIN jobs
      PROVE  Cardinality(EntriesOf(n)) = Cardinality(jobs[n].registered)
    <2> DEFINE f == [i \in EntriesOf(n) |-> catalog[i].output]
    <2>1. Registered(n)
        BY DEF JobsInv
    <2>2. f \in Surjection(EntriesOf(n), jobs[n].registered)
        BY <2>1 DEF Registered, Surjection
    <2>3. f \in Injection(EntriesOf(n), jobs[n].registered)
        BY <2>1, <2>2 DEF Registered, Surjection, Injection, IsInjective
    <2>4. IsFiniteSet(EntriesOf(n))
        <3>1. IsFiniteSet(1..Len(catalog)) /\ EntriesOf(n) \subseteq 1..Len(catalog)
            BY FS_Interval DEF JobsInv, EntriesOf
        <3> QED
            BY <3>1, FS_Subset
    <2> QED
        BY <2>2, <2>3, <2>4, FS_Surjection
<1>3. CatalogHoldsResults
    BY <1>2 DEF CatalogHoldsResults, JobsInv, Registered, EntriesOf
<1> QED
    BY <1>1, <1>3

LEMMA EndsStand ==
    JobsInv /\ [JobsNext]_jobVars =>
      [\A n \in DOMAIN jobs : JobStatus(jobs[n]) \in Ended =>
           /\ JobStatus(jobs'[n]) = JobStatus(jobs[n])
           /\ jobs[n].registered # {} => jobs'[n].registered = jobs[n].registered]_jobVars
<1> SUFFICES ASSUME JobsInv, JobsNext, NEW n \in DOMAIN jobs, JobStatus(jobs[n]) \in Ended
             PROVE  /\ JobStatus(jobs'[n]) = JobStatus(jobs[n])
                    /\ jobs[n].registered # {} => jobs'[n].registered = jobs[n].registered
    OBVIOUS
<1>0. jobs \in Seq(Job)
    BY DEF JobsInv
<1>1. ASSUME NEW m \in DOMAIN jobs, NEW job, JobStep(m, job)
      PROVE  /\ JobStatus(jobs'[n]) = JobStatus(jobs[n])
             /\ jobs[n].registered # {} => jobs'[n].registered = jobs[n].registered
    <2>1. CASE m # n
        <3>1. jobs'[n] = jobs[n]
            BY <1>0, <1>1, <2>1 DEF JobStep, TakeSnapshot
        <3> QED
            BY <3>1
    <2>2. CASE m = n /\ jobs' = [jobs EXCEPT ![m] = job]
        <3>1. jobs'[n] = job
            BY <1>0, <2>2
        <3> QED
            BY <1>1, <2>2, <3>1 DEF JobStep
    <2>3. CASE m = n /\ jobs' # [jobs EXCEPT ![m] = job]
        <3> DEFINE next == [job EXCEPT !.registered = DraftOutputs(job.draft)]
        <3>1. Unregistered(job) /\ jobs' = [jobs EXCEPT ![m] = next]
            BY <1>1, <2>3 DEF JobStep, TakeSnapshot
        <3>2. JobStatus(next) = JobStatus(job)
            BY <1>1 DEF JobStep, JobStatus, Job
        <3> HIDE DEF next
        <3>3. jobs'[n] = next
            BY <1>0, <2>3, <3>1
        <3> QED
            BY <1>1, <2>3, <3>1, <3>2, <3>3 DEF JobStep, Unregistered
    <2> QED
        BY <2>1, <2>2, <2>3
<1>2. ASSUME NEW d \in Drafts, NEW fails \in BOOLEAN, SubmitJob(d, fails)
      PROVE  jobs'[n] = jobs[n]
    <2>1. \E job : jobs' = Append(jobs, job)
        BY <1>2 DEF SubmitJob
    <2> QED
        BY <2>1, <1>0
<1>3. ASSUME NEW d \in Drafts,
             AskAboutDraft(d) \/ \E o \in (SUBSET Outputs) \cup {Gone} : WriteDraft(d, o)
      PROVE  jobs' = jobs
    BY <1>3 DEF AskAboutDraft, WriteDraft
<1>4. ASSUME NEW m \in DOMAIN jobs, PollJob(m) \/ CancelJob(m)
      PROVE  \E job : JobStep(m, job)
    BY <1>4, StepOfJob
<1> QED
    BY <1>1, <1>2, <1>3, <1>4 DEF JobsNext

\* The catalog holds the results of successful jobs only, each once, whatever polls,
\* results and cancellations interleave, and an end is final (mock-server.mjs).
THEOREM ResultsOnce ==
    JobsSpec => [](JobsTypeOK /\ CatalogHoldsResults) /\ EndStands
  BY JobsInvInit, JobsInvNext, JobsInvImplies, EndsStand, PTL DEF JobsSpec, EndStands

(***************************************************************************)
(* EvalRun: the case, its turns and its agent session                      *)
(***************************************************************************)
Event == [type : {"textDelta", "messageStop", "error", "toolCall"}, id : CallIds \cup {None},
          layer : Layers \cup {None}]
Reply == [text : Nat, recordedText : Nat, recorded : BOOLEAN, stopped : BOOLEAN,
          failed : BOOLEAN, calling : Event \cup {None}, of : Nat \cup {None}]
AgentSession == [status : {"idle", "chatting", "ended"}, turn : Nat, calls : Nat,
                 aborted : BOOLEAN, rejected : BOOLEAN]
Message == [role : {"user", "assistant", "tool"}, turn : Nat]
Reading == [server : Seq(Layers) \cup {None}, local : Seq(Layers)]
TurnRecord == [kind : {"instruction", "user-action"}, completed : BOOLEAN, applied : BOOLEAN,
               read : Reading \cup {None}]

IsCall(e) == e.type = "toolCall" => e.id \in CallIds /\ e.layer \in Layers

EvalTypes ==
  /\ EvalTypeOK
  /\ queue \in Seq(Event) /\ \A i \in DOMAIN queue : IsCall(queue[i])
  /\ answer \in Reply
  /\ at = "calling" =>
       answer.calling \in Event /\ IsCall(answer.calling) /\ answer.calling.type = "toolCall"
  /\ session \in AgentSession
  /\ history \in Seq(Message) /\ turns \in Seq(TurnRecord)
  /\ draft \in [exists : BOOLEAN, layers : Seq(Layers)]
  /\ played \in Nat /\ plays \in Nat

\* Where a turn is under way.
InTurn == at \in {"streaming", "calling", "unwinding"}

PlaceInv ==
  /\ instruction < turn
  /\ InTurn \/ at = "observing" => turn <= Len(task.turns)
  /\ InTurn => task.turns[turn].kind = "instruction"
  /\ at \in {"create", "seed"} => turns = <<>> /\ instruction = 0
  /\ at = "observing" => turns # <<>>
  /\ cleanup => at = "done" /\ ~draft.exists
  /\ Len(task.turns) = 0 => toolCalls = <<>>

SessionInv ==
  /\ session.status = "chatting" => lane = "live" /\ InTurn
  /\ pending # {} => session.status = "chatting"
  /\ lane = "live" /\ InTurn => session.status \in {"chatting", "ended"}

Said(role) == \E j \in DOMAIN history : history[j] = [role |-> role, turn |-> turn]

HistoryInv ==
  /\ \A i \in DOMAIN history : history[i].turn <= turn
  /\ at \in {"streaming", "calling"} =>
       Said("user") /\ (answer.recorded => Said("assistant"))
  /\ ResultsFollowTheirCalls

Instructed == InTurn \/ (at = "observing" /\ task.turns[turn].kind = "instruction")

PlaysInv ==
  /\ plays = played
  /\ lane = "fixture" /\ task.conversation # 0
       /\ at \notin {"unwinding", "delete", "absent", "done"} =>
       plays = IF Instructed THEN instruction + 1 ELSE instruction
  /\ at \in {"streaming", "calling"} /\ answer.of # None => answer.of = instruction + 1

ReadInv ==
  turn > Len(task.turns) /\ turns # <<>> =>
    /\ turns[Len(turns)].read \in Reading
    /\ turns[Len(turns)].read.server \in {draft.layers, None}

EvalInv == EvalTypes /\ PlaceInv /\ SessionInv /\ HistoryInv /\ PlaysInv /\ ReadInv

\* The types of what the case is of.
LEMMA TaskHasTurns ==
  ASSUME EvalTypeOK
  PROVE  /\ task.turns \in Seq([kind : {"instruction", "user-action"}, scripted : BOOLEAN])
         /\ Len(task.turns) \in Nat /\ task.conversation \in Nat
         /\ turn \in 1..(Len(task.turns) + 1) /\ instruction \in 0..Len(task.turns)
         /\ turn \in Nat /\ instruction \in Nat
<1>1. /\ task.turns \in Seq([kind : {"instruction", "user-action"}, scripted : BOOLEAN])
      /\ task.conversation \in Nat
  BY TasksAssumption DEF EvalTypeOK
<1>2. Len(task.turns) \in Nat
  BY <1>1
<1> QED
  BY <1>1, <1>2 DEF EvalTypeOK

\* The streams are of events, and a call's event names its call and its layer.
LEMMA EventsOfCalls ==
  ASSUME NEW id \in CallIds, NEW l \in Layers
  PROVE  /\ Call(id, l) \in Event /\ IsCall(Call(id, l))
         /\ Call(id, l).type = "toolCall"
<1>1. "toolCall" \in {"textDelta", "messageStop", "error", "toolCall"}
  OBVIOUS
<1> QED
  BY <1>1 DEF Call, Event, IsCall

LEMMA PlainEvents ==
  /\ Text \in Event /\ IsCall(Text)
  /\ Stop \in Event /\ IsCall(Stop)
  /\ Error \in Event /\ IsCall(Error)
<1>1. /\ "textDelta" \in {"textDelta", "messageStop", "error", "toolCall"}
      /\ "messageStop" \in {"textDelta", "messageStop", "error", "toolCall"}
      /\ "error" \in {"textDelta", "messageStop", "error", "toolCall"}
  OBVIOUS
<1>2. "textDelta" # "toolCall" /\ "messageStop" # "toolCall" /\ "error" # "toolCall"
  OBVIOUS
<1> QED
  BY <1>1, <1>2 DEF Text, Stop, Error, Event, IsCall

Events(s) == s \in Seq(Event) /\ \A i \in DOMAIN s : IsCall(s[i])

LEMMA StreamsOfEvents ==
  ASSUME NEW t \in Nat, NEW c \in Nat
  PROVE  /\ \A s \in ScriptedTurnEvents(t) : Events(s)
         /\ \A s \in StreamChat(t, c) : Events(s)
<1>1. \A l \in Layers : Call([turn |-> t, number |-> 1], l) \in Event
      /\ IsCall(Call([turn |-> t, number |-> 1], l))
  <2>1. [turn |-> t, number |-> 1] \in CallIds
    BY DEF CallIds
  <2> QED
    BY <2>1, EventsOfCalls
<1>2. ASSUME NEW a \in Event, IsCall(a) PROVE Events(<<a>>)
  BY <1>2 DEF Events
<1>3. ASSUME NEW a \in Event, NEW b \in Event, IsCall(a), IsCall(b) PROVE Events(<<a, b>>)
  BY <1>3 DEF Events
<1>4. ASSUME NEW a \in Event, NEW b \in Event, NEW d \in Event, IsCall(a), IsCall(b), IsCall(d)
      PROVE Events(<<a, b, d>>)
  BY <1>4 DEF Events
<1>5. \A s \in ScriptedTurnEvents(t) : Events(s)
  <2>1. Events(<<Text, Stop>>)
    BY <1>3, PlainEvents
  <2>2. \A l \in Layers : Events(<<Text, Call([turn |-> t, number |-> 1], l), Stop>>)
    BY <1>1, <1>4, PlainEvents
  <2> QED
    BY <2>1, <2>2 DEF ScriptedTurnEvents
<1>6. Events(<<Error>>)
  BY <1>2, PlainEvents
<1>7. \A l \in Layers : Events(<<Call([turn |-> t, number |-> 1], l), Text, Error>>)
  BY <1>1, <1>4, PlainEvents
<1> QED
  BY <1>5, <1>6, <1>7 DEF StreamChat

LEMMA EventsAppend ==
  ASSUME NEW s, Events(s), NEW e \in Event, IsCall(e)
  PROVE  Events(Append(s, e))
<1>1. Append(s, e) \in Seq(Event) /\ Len(Append(s, e)) = Len(s) + 1
      /\ DOMAIN Append(s, e) = 1..(Len(s) + 1)
  BY DEF Events
<1>2. \A i \in 1..(Len(s) + 1) : Append(s, e)[i] = IF i \in 1..Len(s) THEN s[i] ELSE e
  BY DEF Events
<1>3. DOMAIN s = 1..Len(s)
  BY DEF Events
<1> QED
  BY <1>1, <1>2, <1>3 DEF Events

LEMMA EventsTail ==
  ASSUME NEW s, Events(s), s # <<>>
  PROVE  Events(Tail(s)) /\ Head(s) \in Event /\ IsCall(Head(s))
<1>1. /\ s \in Seq(Event) /\ Tail(s) \in Seq(Event) /\ Head(s) \in Event /\ Head(s) = s[1]
      /\ 1 \in DOMAIN s /\ DOMAIN Tail(s) = 1..(Len(s) - 1) /\ Len(s) \in Nat
           /\ DOMAIN s = 1..Len(s)
  BY DEF Events
<1>2. \A i \in 1..(Len(s) - 1) : Tail(s)[i] = s[i + 1] /\ i + 1 \in DOMAIN s
  BY <1>1
<1> QED
  BY <1>1, <1>2 DEF Events

\* The records, field by field.
LEMMA ReplyFields ==
  ASSUME NEW r \in Reply
  PROVE  /\ r.text \in Nat /\ r.recordedText \in Nat /\ r.recorded \in BOOLEAN
         /\ r.calling \in Event \cup {None} /\ r.of \in Nat \cup {None}
  BY DEF Reply

LEMMA NoReplyIsReply ==
  /\ NoReply \in Reply /\ NoReply.of = None /\ NoReply.recorded = FALSE
  /\ \A n \in Nat : /\ [NoReply EXCEPT !.of = n] \in Reply
                    /\ [NoReply EXCEPT !.of = n].of = n
                    /\ [NoReply EXCEPT !.of = n].recorded = FALSE
<1>1. 0 \in Nat /\ FALSE \in BOOLEAN /\ None \in Event \cup {None} /\ None \in Nat \cup {None}
  OBVIOUS
<1>2. \A n \in Nat : n \in Nat \cup {None}
  OBVIOUS
<1> QED
  BY <1>1, <1>2, Zenon DEF NoReply, Reply

LEMMA ReplyTakes ==
  ASSUME NEW r \in Reply, NEW e \in Event, NEW n \in Nat
  PROVE  /\ [r EXCEPT !.text = n] \in Reply
         /\ [r EXCEPT !.text = n].of = r.of
         /\ [r EXCEPT !.text = n].recorded = r.recorded
         /\ [r EXCEPT !.stopped = TRUE] \in Reply
         /\ [r EXCEPT !.stopped = TRUE].of = r.of
         /\ [r EXCEPT !.stopped = TRUE].recorded = r.recorded
         /\ [r EXCEPT !.failed = TRUE] \in Reply
         /\ [r EXCEPT !.failed = TRUE].of = r.of
         /\ [r EXCEPT !.failed = TRUE].recorded = r.recorded
         /\ [r EXCEPT !.calling = e] \in Reply
         /\ [r EXCEPT !.calling = e].of = r.of
         /\ [r EXCEPT !.calling = e].recorded = r.recorded
         /\ [r EXCEPT !.calling = e].calling = e
<1>1. TRUE \in BOOLEAN /\ e \in Event \cup {None}
  OBVIOUS
<1> QED
  BY <1>1, Zenon DEF Reply

LEMMA ReplyRecords ==
  ASSUME NEW r \in Reply, NEW n \in Nat
  PROVE  LET s == [r EXCEPT !.recordedText = n, !.recorded = TRUE, !.calling = None]
         IN s \in Reply /\ s.of = r.of /\ s.recorded = TRUE
<1>1. TRUE \in BOOLEAN /\ None \in Event \cup {None}
  OBVIOUS
<1> QED
  BY <1>1, Zenon DEF Reply

LEMMA SessionFields ==
  ASSUME NEW s \in AgentSession
  PROVE  /\ s.turn \in Nat /\ s.calls \in Nat
         /\ s.status \in {"idle", "chatting", "ended"} /\ s.rejected \in BOOLEAN
  BY DEF AgentSession

LEMMA SessionBegins ==
  ASSUME NEW t \in Nat
  PROVE  LET s == [NoSession EXCEPT !.status = "chatting", !.turn = t]
         IN s \in AgentSession /\ s.status = "chatting"
<1>1. "chatting" \in {"idle", "chatting", "ended"} /\ 0 \in Nat /\ FALSE \in BOOLEAN
  OBVIOUS
<1> QED
  BY <1>1, Zenon DEF AgentSession, NoSession

LEMMA SessionMoves ==
  ASSUME NEW s \in AgentSession, NEW n \in Nat, NEW b \in BOOLEAN
  PROVE  /\ [s EXCEPT !.calls = n] \in AgentSession
         /\ [s EXCEPT !.calls = n].status = s.status
         /\ [s EXCEPT !.status = "ended"] \in AgentSession
         /\ [s EXCEPT !.status = "ended"].status = "ended"
         /\ [s EXCEPT !.aborted = TRUE, !.rejected = b] \in AgentSession
         /\ [s EXCEPT !.aborted = TRUE, !.rejected = b].status = s.status
<1>1. "ended" \in {"idle", "chatting", "ended"} /\ TRUE \in BOOLEAN
  OBVIOUS
<1> QED
  BY <1>1, Zenon DEF AgentSession

LEMMA DraftMoves ==
  ASSUME NEW d \in [exists : BOOLEAN, layers : Seq(Layers)], NEW b \in BOOLEAN,
         NEW s \in Seq(Layers)
  PROVE  /\ d.exists \in BOOLEAN /\ d.layers \in Seq(Layers)
         /\ [d EXCEPT !.exists = b] \in [exists : BOOLEAN, layers : Seq(Layers)]
         /\ [d EXCEPT !.exists = b].exists = b
         /\ [d EXCEPT !.exists = b].layers = d.layers
         /\ [d EXCEPT !.layers = s] \in [exists : BOOLEAN, layers : Seq(Layers)]
         /\ [d EXCEPT !.layers = s].exists = d.exists
         /\ [d EXCEPT !.layers = s].layers = s
  BY Zenon

LEMMA TurnRecords ==
  ASSUME NEW kind \in {"instruction", "user-action"}, NEW c \in BOOLEAN, NEW a \in BOOLEAN
  PROVE  [kind |-> kind, completed |-> c, applied |-> a, read |-> None] \in TurnRecord
<1>1. None \in Reading \cup {None}
  OBVIOUS
<1> QED
  BY <1>1, Zenon DEF TurnRecord

LEMMA TurnIsRead ==
  ASSUME NEW s \in Seq(TurnRecord), s # <<>>, NEW r \in Reading
  PROVE  LET u == [s EXCEPT ![Len(s)].read = r]
         IN u \in Seq(TurnRecord) /\ Len(u) = Len(s) /\ u[Len(u)].read = r
<1>1. Len(s) \in Nat /\ Len(s) \in 1..Len(s) /\ s \in [1..Len(s) -> TurnRecord]
      /\ DOMAIN s = 1..Len(s)
  OBVIOUS
<1> DEFINE one == [s[Len(s)] EXCEPT !.read = r]
           u == [s EXCEPT ![Len(s)] = one]
<1>2. s[Len(s)] \in TurnRecord /\ r \in Reading \cup {None}
  BY <1>1
<1>3. one \in TurnRecord /\ one.read = r
  BY <1>2, Zenon DEF TurnRecord
<1> HIDE DEF one
<1>4. u \in [1..Len(s) -> TurnRecord] /\ u[Len(s)] = one
  BY <1>1, <1>3
<1>5. u \in Seq(TurnRecord) /\ Len(u) = Len(s)
  BY <1>1, <1>4
<1>6. [s EXCEPT ![Len(s)].read = r] = u
  BY <1>1 DEF one
<1> QED
  BY <1>3, <1>4, <1>5, <1>6

LEMMA MessageFields ==
  ASSUME NEW h \in Seq(Message)
  PROVE  \A i \in DOMAIN h :
           h[i] \in Message /\ h[i].role \in {"user", "assistant", "tool"} /\ h[i].turn \in Nat
<1>1. \A i \in DOMAIN h : h[i] \in Message
  OBVIOUS
<1> QED
  BY <1>1 DEF Message

LEMMA FrontStays ==
  ASSUME NEW s \in Seq(Layers), s # <<>>
  PROVE  Front(s) \in Seq(Layers)
  BY DEF Front

LEMMA EvalInvInit == EvalInit => EvalInv
<1> SUFFICES ASSUME EvalInit PROVE EvalInv
  OBVIOUS
<1>1. task \in Tasks /\ Len(task.turns) \in Nat
  <2>1. task \in Tasks
    BY DEF EvalInit
  <2> QED
    BY <2>1, TasksAssumption
<1>2. NoReply \in Reply /\ NoReply.of = None
  BY NoReplyIsReply
<1>3. NoSession \in AgentSession /\ NoSession.status = "idle"
  <2>1. "idle" \in {"idle", "chatting", "ended"} /\ 0 \in Nat /\ FALSE \in BOOLEAN
    OBVIOUS
  <2> QED
    BY <2>1, Zenon DEF AgentSession, NoSession
<1>4. /\ [exists |-> FALSE, layers |-> <<>>] \in [exists : BOOLEAN, layers : Seq(Layers)]
      /\ [exists |-> FALSE, layers |-> <<>>].layers \in Seq(Layers)
  OBVIOUS
<1>5. EvalTypeOK
  <2>1. turn \in 1..(Len(task.turns) + 1) /\ instruction \in 0..Len(task.turns)
    BY <1>1 DEF EvalInit
  <2>2. session.status \in {"idle", "chatting", "ended"} /\ draft.layers \in Seq(Layers)
    BY <1>3, <1>4 DEF EvalInit
  <2>3. local \in Seq(Layers)
        /\ \A i \in DOMAIN history : history[i].role \in {"user", "assistant", "tool"}
    BY DEF EvalInit
  <2> QED
    BY <2>1, <2>2, <2>3 DEF EvalInit, EvalTypeOK
<1>6. EvalTypes
  BY <1>2, <1>3, <1>4, <1>5 DEF EvalInit, EvalTypes
<1>7. PlaceInv
  BY DEF EvalInit, PlaceInv, InTurn
<1>8. SessionInv
  BY <1>3 DEF EvalInit, SessionInv, InTurn
<1>9. HistoryInv
  BY DEF EvalInit, HistoryInv, ResultsFollowTheirCalls
<1>10. PlaysInv
  BY DEF EvalInit, PlaysInv, Instructed, InTurn
<1>11. ReadInv
  BY DEF EvalInit, ReadInv
<1> QED
  BY <1>6, <1>7, <1>8, <1>9, <1>10, <1>11 DEF EvalInv

\* The types hold whatever the runner, the driver or the server does.
LEMMA EvalTypesKept ==
  ASSUME EvalInv, EvalNext
  PROVE  EvalTypes'
<1> USE DEF EvalTypes, EvalTypeOK
<1>0. EvalTypes /\ PlaceInv
  BY DEF EvalInv
<1>t. /\ Len(task.turns) \in Nat /\ task.conversation \in Nat
      /\ turn \in Nat /\ instruction \in Nat
           /\ task.turns \in Seq([kind : {"instruction", "user-action"}, scripted : BOOLEAN])
  BY <1>0, TaskHasTurns
<1>d. draft.layers \in Seq(Layers) /\ \A b \in BOOLEAN :
        /\ [draft EXCEPT !.exists = b] \in [exists : BOOLEAN, layers : Seq(Layers)]
        /\ [draft EXCEPT !.exists = b].layers \in Seq(Layers)
  BY <1>0, DraftMoves
<1>1. CASE CreateDraft
  <2>1. draft' \in [exists : BOOLEAN, layers : Seq(Layers)] /\ draft'.layers \in Seq(Layers)
    BY <1>1, <1>d DEF CreateDraft
  <2> QED
    BY <1>0, <1>1, <2>1 DEF CreateDraft
<1>2. CASE ReadSeed
  BY <1>0, <1>2 DEF ReadSeed
<1>3. CASE UserActionTurn
  <2>1. CASE at' = "delete"
    BY <1>0, <1>3, <2>1 DEF UserActionTurn
  <2>2. CASE at' # "delete"
    <3>1. PICK applied \in BOOLEAN :
           /\ IF applied
              THEN /\ Undoable > 0 /\ HistoryIsServers
                   /\ local' = Front(local) /\ draft' = [draft EXCEPT !.layers = Front(@)]
              ELSE Undoable = 0 /\ UNCHANGED <<local, draft>>
           /\ turns' = Append(turns, [kind |-> "user-action", completed |-> FALSE,
                                      applied |-> applied, read |-> None])
           /\ at' = "observing"
      BY <1>3, <2>2 DEF UserActionTurn
    <3>2. turns' \in Seq(TurnRecord)
      <4>1. [kind |-> "user-action", completed |-> FALSE, applied |-> applied, read |-> None]
              \in TurnRecord
        BY TurnRecords
      <4> QED
        BY <1>0, <3>1, <4>1
    <3>3. draft' \in [exists : BOOLEAN, layers : Seq(Layers)] /\ draft'.layers \in Seq(Layers)
          /\ local' \in Seq(Layers)
      <4>1. CASE applied
        <5>1. HistoryIsServers /\ Undoable > 0
          BY <3>1, <4>1
        <5>2. local = draft.layers /\ local # <<>>
          BY <1>0, <5>1 DEF HistoryIsServers
        <5>3. Front(local) \in Seq(Layers) /\ Front(draft.layers) = Front(local)
          BY <1>0, <5>2, FrontStays
        <5>4. local' = Front(local) /\ draft' = [draft EXCEPT !.layers = Front(draft.layers)]
          BY <3>1, <4>1
        <5> QED
          BY <1>0, <5>3, <5>4, DraftMoves
      <4> QED
        BY <1>0, <3>1, <4>1
    <3> QED
      BY <1>0, <1>3, <3>1, <3>2, <3>3 DEF UserActionTurn
  <2> QED
    BY <2>1, <2>2
<1>4. CASE PlayScript
  <2>1. Events(queue')
    BY <1>0, <1>4, <1>t, StreamsOfEvents DEF PlayScript
  <2>2. history' \in Seq(Message)
    <3>1. [role |-> "user", turn |-> turn] \in Message
      BY <1>t DEF Message
    <3> QED
      BY <1>0, <1>4, <3>1 DEF PlayScript, InstructionTurn
  <2>3. plays' \in Nat /\ played' \in Nat
    BY <1>0, <1>4, <1>t DEF PlayScript, SkipConversationTurn
  <2>4. answer' \in Reply
    BY <1>4, NoReplyIsReply DEF PlayScript
  <2> QED
    BY <1>0, <1>4, <2>1, <2>2, <2>3, <2>4, MessageFields DEF PlayScript, Events
<1>5. CASE PlayConversation
  <2>1. history' \in Seq(Message)
    <3>1. [role |-> "user", turn |-> turn] \in Message
      BY <1>t DEF Message
    <3> QED
      BY <1>0, <1>5, <3>1 DEF PlayConversation, InstructionTurn
  <2>2. CASE task.conversation = 0
    BY <1>0, <1>5, <2>1, <2>2, MessageFields DEF PlayConversation
  <2>3. CASE task.conversation # 0
    <3>1. plays' \in Nat /\ played' \in Nat
      BY <1>0, <1>5, <2>3 DEF PlayConversation
    <3>2. queue' \in StreamChat(turn, played') /\ answer' = [NoReply EXCEPT !.of = played']
          /\ at' = "streaming"
      BY <1>5, <2>3 DEF PlayConversation
    <3>3. Events(queue') /\ answer' \in Reply
      BY <1>t, <3>1, <3>2, StreamsOfEvents, NoReplyIsReply
    <3> QED
      BY <1>0, <1>5, <2>1, <3>1, <3>2, <3>3, MessageFields DEF PlayConversation, Events
  <2> QED
    BY <2>2, <2>3
<1>6. CASE Converse
  <2>1. history' \in Seq(Message)
    <3>1. [role |-> "user", turn |-> turn] \in Message
      BY <1>t DEF Message
    <3> QED
      BY <1>0, <1>6, <3>1 DEF Converse, InstructionTurn
  <2>2. session' \in AgentSession /\ session'.status \in {"idle", "chatting", "ended"}
    BY <1>6, <1>t, SessionBegins DEF Converse
  <2>3. queue' \in Seq(Event) /\ \A i \in DOMAIN queue' : IsCall(queue'[i])
    BY <1>6 DEF Converse
  <2>4. answer' \in Reply
    BY <1>6, NoReplyIsReply DEF Converse
  <2> QED
    BY <1>0, <1>6, <2>1, <2>2, <2>3, <2>4, MessageFields DEF Converse
<1>7. CASE Dispatch
  <2>1. PICK l \in Layers :
          /\ pending' = pending \cup {[turn |-> session.turn, number |-> session.calls + 1]}
          /\ queue' = Append(queue, Call([turn |-> session.turn, number |-> session.calls + 1], l))
    BY <1>7 DEF Dispatch
  <2>2. session.turn \in Nat /\ session.calls + 1 \in Nat
    BY <1>0, SessionFields
  <2>3. [turn |-> session.turn, number |-> session.calls + 1] \in CallIds
    BY <2>2 DEF CallIds
  <2>4. Events(queue') /\ pending' \subseteq CallIds
    BY <1>0, <2>1, <2>3, EventsOfCalls, EventsAppend DEF Events
  <2>5. session' \in AgentSession /\ session'.status \in {"idle", "chatting", "ended"}
    BY <1>0, <1>7, <2>2, SessionMoves DEF Dispatch
  <2> QED
    BY <1>0, <1>7, <2>4, <2>5 DEF Dispatch, Events
<1>8. CASE ChatEnds
  <2>1. Events(queue)
    BY <1>0 DEF Events
  <2>2. Events(Append(Append(queue, Text), Stop)) /\ Events(Append(queue, Stop))
        /\ Events(Append(queue, Error))
    BY <2>1, EventsAppend, PlainEvents
  <2>3. queue \o <<Text, Stop>> = Append(Append(queue, Text), Stop)
    <3>1. Text \in Event /\ Stop \in Event /\ queue \in Seq(Event)
      BY <1>0, PlainEvents
    <3> QED
      BY <3>1
  <2>4. Events(queue')
    BY <1>8, <2>2, <2>3 DEF ChatEnds
  <2>5. session' \in AgentSession /\ session'.status \in {"idle", "chatting", "ended"}
    BY <1>0, <1>8, SessionMoves, SessionFields DEF ChatEnds
  <2> QED
    BY <1>0, <1>8, <2>4, <2>5 DEF ChatEnds, Events
<1>9. CASE TurnTimesOut
  <2>1. (session.rejected \/ pending # {}) \in BOOLEAN
    OBVIOUS
  <2>2. session' = [session EXCEPT !.aborted = TRUE, !.rejected = session.rejected \/ pending # {}]
    BY <1>9 DEF TurnTimesOut
  <2>3. session' \in AgentSession /\ session'.status \in {"idle", "chatting", "ended"}
    BY <1>0, <2>1, <2>2, SessionMoves, SessionFields
  <2> QED
    BY <1>0, <1>9, <2>3 DEF TurnTimesOut
<1>10. CASE TakeText \/ TakeToolCall \/ TakeStop \/ TakeError
  <2>1. Events(Tail(queue)) /\ Head(queue) \in Event /\ IsCall(Head(queue))
    BY <1>0, <1>10, EventsTail DEF Events, TakeText, TakeToolCall, TakeStop, TakeError
  <2>2. answer.text + 1 \in Nat
    BY <1>0, ReplyFields
  <2>3. CASE TakeText
    <3>1. answer' \in Reply
      BY <1>0, <2>1, <2>2, <2>3, ReplyTakes DEF TakeText
    <3> QED
      BY <1>0, <2>1, <2>3, <3>1 DEF TakeText, Events
  <2>4. CASE TakeToolCall
    <3>1. answer' \in Reply /\ answer'.calling = Head(queue) /\ Head(queue).type = "toolCall"
      BY <1>0, <2>1, <2>2, <2>4, ReplyTakes DEF TakeToolCall
    <3> QED
      BY <1>0, <2>1, <2>4, <3>1 DEF TakeToolCall, Events
  <2>5. CASE TakeStop
    <3>1. answer' \in Reply
      BY <1>0, <2>1, <2>2, <2>5, ReplyTakes DEF TakeStop
    <3> QED
      BY <1>0, <2>1, <2>5, <3>1 DEF TakeStop, Events
  <2>6. CASE TakeError
    <3>1. answer' \in Reply
      BY <1>0, <2>1, <2>2, <2>6, ReplyTakes DEF TakeError
    <3> QED
      BY <1>0, <2>1, <2>6, <3>1 DEF TakeError, Events
  <2> QED
    BY <1>10, <2>3, <2>4, <2>5, <2>6
<1>11. CASE CallReturns
  <2>1. PICK outcome \in {"server", "refused", "lost"} :
       /\ draft' = IF outcome = "refused" THEN draft
                   ELSE [draft EXCEPT !.layers = Append(@, answer.calling.layer)]
       /\ local' = IF outcome = "server" THEN draft'.layers ELSE local
    BY <1>11 DEF CallReturns
  <2>2. answer.calling.layer \in Layers /\ answer.calling.id \in CallIds
    BY <1>0, <1>11 DEF CallReturns, IsCall
  <2>3. draft' \in [exists : BOOLEAN, layers : Seq(Layers)] /\ draft'.layers \in Seq(Layers)
    <3>1. Append(draft.layers, answer.calling.layer) \in Seq(Layers)
      BY <1>d, <2>2
    <3>2. draft' = draft
          \/ draft' = [draft EXCEPT !.layers = Append(draft.layers, answer.calling.layer)]
      BY <2>1
    <3>3. draft \in [exists : BOOLEAN, layers : Seq(Layers)]
      BY <1>0
    <3>4. \A s \in Seq(Layers) :
            /\ [draft EXCEPT !.layers = s] \in [exists : BOOLEAN, layers : Seq(Layers)]
            /\ [draft EXCEPT !.layers = s].layers = s
      BY <3>3, DraftMoves
    <3> QED
      BY <1>d, <3>1, <3>2, <3>3, <3>4
  <2>4. local' \in Seq(Layers)
    BY <1>0, <2>1, <2>3
  <2>5. history' \in Seq(Message)
    <3>1. [role |-> "tool", turn |-> turn] \in Message
          /\ [role |-> "assistant", turn |-> turn] \in Message
      BY <1>t DEF Message
    <3> QED
      BY <1>0, <1>11, <3>1 DEF CallReturns, RecordAssistantMessage
  <2>6. answer' \in Reply
    <3>1. PICK n : n = IF answer.recorded THEN answer.recordedText ELSE answer.text
      OBVIOUS
    <3>2. n \in Nat
      BY <1>0, <3>1, ReplyFields
    <3>3. answer' = [answer EXCEPT !.recordedText = IF answer.recorded THEN answer.recordedText
            ELSE answer.text,
                                   !.recorded = TRUE, !.calling = None]
      BY <1>11 DEF CallReturns
    <3>4. answer' = [answer EXCEPT !.recordedText = n, !.recorded = TRUE, !.calling = None]
      BY <3>1, <3>3, Zenon
    <3> QED
      BY <1>0, <3>2, <3>4, ReplyRecords
  <2>7. session' \in AgentSession /\ session'.status \in {"idle", "chatting", "ended"}
    BY <1>0, <1>11, SessionMoves, SessionFields DEF CallReturns
  <2>8. pending' \subseteq CallIds /\ at' \in {"unwinding", "streaming"}
    BY <1>0, <1>11 DEF CallReturns
  <2> QED
    BY <1>0, <1>11, <2>3, <2>4, <2>5, <2>6, <2>7, <2>8, MessageFields DEF CallReturns
<1>12. CASE RunRejects
  BY <1>0, <1>12 DEF RunRejects
<1>13. CASE StreamEnds
  <2>1. history' \in Seq(Message)
    <3>1. [role |-> "assistant", turn |-> turn] \in Message
      BY <1>t DEF Message
    <3> QED
      BY <1>0, <1>13, <3>1 DEF StreamEnds
  <2>2. turns' \in Seq(TurnRecord)
    <3>1. Completed \in BOOLEAN
      BY DEF Completed
    <3>2. [kind |-> "instruction", completed |-> Completed, applied |-> FALSE, read |-> None]
            \in TurnRecord
      BY <3>1, TurnRecords
    <3> QED
      BY <1>0, <1>13, <3>2 DEF StreamEnds
  <2> QED
    BY <1>0, <1>13, <2>1, <2>2, MessageFields DEF StreamEnds
<1>14. CASE Observe
  <2>1. PICK server \in {draft.layers, None} :
          turns' = [turns EXCEPT ![Len(turns)].read = [server |-> server, local |-> local]]
    BY <1>14 DEF Observe
  <2>2. [server |-> server, local |-> local] \in Reading
    BY <1>0, <1>d, <2>1 DEF Reading
  <2>3. turns # <<>> /\ turn <= Len(task.turns)
    BY <1>0, <1>14 DEF Observe, PlaceInv
  <2>4. turns' \in Seq(TurnRecord)
    BY <1>0, <2>1, <2>2, <2>3, TurnIsRead
  <2>5. turn' \in 1..(Len(task'.turns) + 1) /\ instruction' \in 0..Len(task'.turns)
    <3>1. turn' = turn + 1 /\ instruction' \in {instruction, instruction + 1} /\ task' = task
      BY <1>14, <1>t DEF Observe
    <3>2. instruction < turn
      BY <1>0 DEF PlaceInv
    <3> QED
      BY <1>0, <1>t, <2>3, <3>1, <3>2
  <2> QED
    BY <1>0, <1>14, <2>4, <2>5 DEF Observe
<1>15. CASE Score
  BY <1>0, <1>15 DEF Score
<1>16. CASE DeleteCaseDraft
  <2>1. draft' \in [exists : BOOLEAN, layers : Seq(Layers)] /\ draft'.layers \in Seq(Layers)
    BY <1>16, <1>d DEF DeleteCaseDraft
  <2> QED
    BY <1>0, <1>16, <2>1 DEF DeleteCaseDraft
<1>17. CASE ReadAbsent
  <2>1. cleanup' \in BOOLEAN
    BY <1>0, <1>17, DraftMoves DEF ReadAbsent
  <2> QED
    BY <1>0, <1>17, <2>1 DEF ReadAbsent
<1> QED
  BY <1>1, <1>2, <1>3, <1>4, <1>5, <1>6, <1>7, <1>8, <1>9, <1>10, <1>11, <1>12, <1>13,
     <1>14, <1>15, <1>16, <1>17 DEF EvalNext

\* Where the case is agrees with its turns.
LEMMA PlaceKept ==
  ASSUME EvalInv, EvalNext
  PROVE  PlaceInv'
<1>0. PlaceInv /\ EvalTypes
  BY DEF EvalInv
<1>t. /\ Len(task.turns) \in Nat /\ turn \in Nat /\ instruction \in Nat
      /\ draft \in [exists : BOOLEAN, layers : Seq(Layers)]
      /\ turns \in Seq(TurnRecord)
  BY <1>0, TaskHasTurns DEF EvalTypes
<1> USE DEF PlaceInv, InTurn
<1>1. CASE CreateDraft \/ ReadSeed
  <2>1. ~cleanup
    BY <1>0, <1>1 DEF CreateDraft, ReadSeed
  <2> QED
    BY <1>0, <1>1, <2>1 DEF CreateDraft, ReadSeed
<1>2. CASE UserActionTurn
  <2>1. ~cleanup
    BY <1>0, <1>2 DEF UserActionTurn
  <2>2. CASE at' = "delete"
    BY <1>0, <1>2, <2>1, <2>2 DEF UserActionTurn
  <2>3. CASE at' # "delete"
    <3>1. PICK applied \in BOOLEAN :
            turns' = Append(turns, [kind |-> "user-action", completed |-> FALSE,
                                    applied |-> applied, read |-> None])
      BY <1>2, <2>3 DEF UserActionTurn
    <3>2. [kind |-> "user-action", completed |-> FALSE, applied |-> applied, read |-> None]
            \in TurnRecord
      BY TurnRecords
    <3>3. turns' # <<>>
      BY <1>t, <3>1, <3>2
    <3>4. at' = "observing" /\ turn <= Len(task.turns)
      BY <1>2, <2>3 DEF UserActionTurn
    <3> QED
      BY <1>0, <1>2, <2>1, <3>3, <3>4 DEF UserActionTurn
  <2> QED
    BY <2>2, <2>3
<1>3. CASE PlayScript \/ PlayConversation \/ Converse
  <2>1. /\ at = "next" /\ at' \in {"streaming", "delete"}
        /\ turn <= Len(task.turns) /\ task.turns[turn].kind = "instruction"
        /\ UNCHANGED <<task, turn, instruction, toolCalls, cleanup, draft>>
    BY <1>3 DEF PlayScript, PlayConversation, Converse, InstructionTurn
  <2> QED
    BY <1>0, <2>1
<1>4. CASE Dispatch \/ ChatEnds \/ TurnTimesOut \/ TakeText \/ TakeToolCall \/ TakeStop
             \/ TakeError
  <2>1. /\ at' = at \/ (InTurn /\ InTurn')
        /\ UNCHANGED <<task, turn, instruction, turns, toolCalls, cleanup, draft>>
    BY <1>4 DEF Dispatch, ChatEnds, TurnTimesOut, TakeText, TakeToolCall, TakeStop, TakeError
  <2> QED
    BY <1>0, <2>1
<1>5. CASE CallReturns
  <2>1. /\ at = "calling" /\ at' \in {"unwinding", "streaming"}
        /\ UNCHANGED <<task, turn, instruction, turns, cleanup>>
    BY <1>5 DEF CallReturns
  <2>2. Len(task.turns) # 0
    BY <1>0, <1>t, <2>1
  <2> QED
    BY <1>0, <2>1, <2>2
<1>6. CASE RunRejects
  BY <1>0, <1>6 DEF RunRejects
<1>7. CASE StreamEnds
  <2>1. turns' # <<>>
    <3>1. Completed \in BOOLEAN
      BY DEF Completed
    <3>2. [kind |-> "instruction", completed |-> Completed, applied |-> FALSE, read |-> None]
            \in TurnRecord
      BY <3>1, TurnRecords
    <3>3. \E record \in TurnRecord : turns' = Append(turns, record)
      BY <1>7, <3>2 DEF StreamEnds
    <3> QED
      BY <1>t, <3>3
  <2> QED
    BY <1>0, <1>7, <2>1 DEF StreamEnds
<1>8. CASE Observe
  <2>1. turn' = turn + 1 /\ instruction' \in {instruction, instruction + 1} /\ at' = "next"
    BY <1>8, <1>t DEF Observe
  <2> QED
    BY <1>0, <1>t, <1>8, <2>1 DEF Observe
<1>9. CASE Score \/ DeleteCaseDraft
  <2>1. ~cleanup /\ cleanup' = cleanup /\ at' \in {"delete", "absent", "done"}
    BY <1>0, <1>9 DEF Score, DeleteCaseDraft
  <2> QED
    BY <1>0, <1>9, <2>1 DEF Score, DeleteCaseDraft
<1>10. CASE ReadAbsent
  <2>1. cleanup' => ~draft.exists
    BY <1>0, <1>10 DEF ReadAbsent
  <2> QED
    BY <1>0, <1>10, <2>1 DEF ReadAbsent
<1> QED
  BY <1>1, <1>2, <1>3, <1>4, <1>5, <1>6, <1>7, <1>8, <1>9, <1>10 DEF EvalNext

\* An agent session is of the turn that is under way, and its calls are of it.
LEMMA SessionKept ==
  ASSUME EvalInv, EvalNext
  PROVE  SessionInv'
<1>0. SessionInv /\ EvalTypes
  BY DEF EvalInv
<1>t. turn \in Nat /\ session \in AgentSession /\ lane \in {"fixture", "live"}
  BY <1>0, TaskHasTurns DEF EvalTypes, EvalTypeOK
<1> USE DEF SessionInv, InTurn
<1>1. CASE \/ CreateDraft \/ ReadSeed \/ UserActionTurn \/ Observe \/ Score
           \/ DeleteCaseDraft \/ ReadAbsent
  <2>1. ~InTurn /\ ~InTurn' /\ UNCHANGED <<session, pending, lane>>
    BY <1>1 DEF CreateDraft, ReadSeed, UserActionTurn, Observe, Score, DeleteCaseDraft, ReadAbsent
  <2> QED
    BY <1>0, <2>1
<1>2. CASE PlayScript \/ PlayConversation
  <2>1. lane = "fixture" /\ ~InTurn /\ UNCHANGED <<session, pending, lane>>
    BY <1>2 DEF PlayScript, PlayConversation, InstructionTurn
  <2> QED
    BY <1>0, <2>1
<1>3. CASE Converse
  <2>1. session'.status = "chatting"
    BY <1>3, <1>t, SessionBegins DEF Converse
  <2> QED
    BY <1>0, <1>3, <2>1 DEF Converse
<1>4. CASE Dispatch
  <2>1. session'.status = session.status
    <3>1. session.calls + 1 \in Nat
      BY <1>t, SessionFields
    <3> QED
      BY <1>t, <1>4, <3>1, SessionMoves DEF Dispatch
  <2> QED
    BY <1>0, <1>4, <2>1 DEF Dispatch
<1>5. CASE ChatEnds
  <2>1. session'.status = "ended"
    BY <1>5, <1>t, SessionMoves, SessionFields DEF ChatEnds
  <2> QED
    BY <1>0, <1>5, <2>1 DEF ChatEnds
<1>6. CASE TurnTimesOut
  <2>1. session'.status = session.status
    <3>1. (session.rejected \/ pending # {}) \in BOOLEAN
      OBVIOUS
    <3>2. session' = [session EXCEPT !.aborted = TRUE, !.rejected = session.rejected
          \/ pending # {}]
      BY <1>6 DEF TurnTimesOut
    <3> QED
      BY <1>t, <3>1, <3>2, SessionMoves, SessionFields
  <2> QED
    BY <1>0, <1>6, <2>1 DEF TurnTimesOut
<1>7. CASE TakeText \/ TakeToolCall \/ TakeStop \/ TakeError
  <2>1. InTurn /\ InTurn' /\ UNCHANGED <<session, pending, lane>>
    BY <1>7 DEF TakeText, TakeToolCall, TakeStop, TakeError
  <2> QED
    BY <1>0, <2>1
<1>8. CASE CallReturns
  <2>1. session'.status = session.status
    BY <1>t, <1>8, SessionMoves, SessionFields DEF CallReturns
  <2>2. pending' \subseteq pending /\ lane' = lane /\ InTurn /\ InTurn'
    BY <1>8 DEF CallReturns
  <2> QED
    BY <1>0, <2>1, <2>2
<1>9. CASE RunRejects \/ StreamEnds
  <2>1. TurnSettled /\ UNCHANGED <<session, pending, lane>> /\ ~InTurn'
    BY <1>9 DEF RunRejects, StreamEnds
  <2> QED
    BY <1>0, <2>1 DEF TurnSettled
<1> QED
  BY <1>1, <1>2, <1>3, <1>4, <1>5, <1>6, <1>7, <1>8, <1>9 DEF EvalNext

\* A conversation's turn is consumed by every instruction, scripted or not.
LEMMA PlaysKept ==
  ASSUME EvalInv, EvalNext
  PROVE  PlaysInv'
<1>0. PlaysInv /\ EvalTypes /\ PlaceInv
  BY DEF EvalInv
<1>t. /\ Len(task.turns) \in Nat /\ turn \in Nat /\ instruction \in Nat
      /\ answer \in Reply /\ played \in Nat /\ plays \in Nat /\ task.conversation \in Nat
  BY <1>0, TaskHasTurns DEF EvalTypes
<1> USE DEF PlaysInv, Instructed, InTurn
<1>1. CASE CreateDraft \/ ReadSeed \/ RunRejects \/ Score \/ DeleteCaseDraft \/ ReadAbsent
  <2>1. /\ ~Instructed' /\ at' \notin {"streaming", "calling"}
        /\ at \in {"create", "seed"} \/ at' \in {"delete", "absent", "done"}
        /\ UNCHANGED <<lane, task, plays, played, instruction>>
    BY <1>1 DEF CreateDraft, ReadSeed, RunRejects, Score, DeleteCaseDraft, ReadAbsent
  <2> QED
    BY <1>0, <2>1
<1>2. CASE UserActionTurn
  <2>1. /\ task.turns[turn].kind = "user-action" /\ at = "next" /\ at' \in {"observing", "delete"}
        /\ UNCHANGED <<lane, task, turn, plays, played, instruction>>
    BY <1>2 DEF UserActionTurn
  <2> QED
    BY <1>0, <2>1
<1>3. CASE PlayScript
  <2>1. plays' = plays + (IF task.conversation = 0 \/ plays > instruction THEN 0 ELSE 1)
    BY <1>3, <1>t DEF PlayScript, SkipConversationTurn
  <2>2. answer'.of = None
    BY <1>3, NoReplyIsReply DEF PlayScript
  <2>3. /\ at = "next" /\ at' = "streaming" /\ played' = played + plays' - plays
        /\ UNCHANGED <<lane, task, turn, instruction>> /\ lane = "fixture"
    BY <1>3 DEF PlayScript, InstructionTurn
  <2>4. task.conversation # 0 => plays = instruction
    BY <1>0, <2>3
  <2> QED
    BY <1>0, <1>t, <2>1, <2>2, <2>3, <2>4
<1>4. CASE PlayConversation
  <2>1. at = "next" /\ lane = "fixture" /\ UNCHANGED <<lane, task, turn, instruction>>
    BY <1>4 DEF PlayConversation, InstructionTurn
  <2>2. CASE task.conversation = 0
    BY <1>0, <1>4, <2>1, <2>2 DEF PlayConversation
  <2>3. CASE task.conversation # 0
    <3>1. plays' = plays + 1 /\ played' = played + 1 /\ at' = "streaming"
          /\ answer' = [NoReply EXCEPT !.of = played']
      BY <1>4, <2>3 DEF PlayConversation
    <3>2. answer'.of = played'
      BY <1>t, <3>1, NoReplyIsReply
    <3>3. plays = instruction
      BY <1>0, <2>1, <2>3
    <3> QED
      BY <1>0, <1>t, <2>1, <3>1, <3>2, <3>3
  <2> QED
    BY <2>2, <2>3
<1>5. CASE Converse
  <2>1. answer'.of = None
    BY <1>5, NoReplyIsReply DEF Converse
  <2> QED
    BY <1>0, <1>5, <2>1 DEF Converse
<1>6. CASE Dispatch \/ ChatEnds \/ TurnTimesOut
  BY <1>0, <1>6 DEF Dispatch, ChatEnds, TurnTimesOut
<1>7. CASE TakeText \/ TakeToolCall \/ TakeStop \/ TakeError
  <2>1. answer'.of = answer.of
    <3>1. answer.text + 1 \in Nat /\ Head(queue) \in Event
      BY <1>0, <1>t, <1>7, ReplyFields DEF EvalTypes, TakeText, TakeToolCall, TakeStop, TakeError
    <3>2. \/ answer' = [answer EXCEPT !.text = answer.text + 1]
          \/ answer' = [answer EXCEPT !.calling = Head(queue)]
          \/ answer' = [answer EXCEPT !.stopped = TRUE]
          \/ answer' = [answer EXCEPT !.failed = TRUE]
      BY <1>7 DEF TakeText, TakeToolCall, TakeStop, TakeError
    <3>3. /\ [answer EXCEPT !.text = answer.text + 1].of = answer.of
          /\ [answer EXCEPT !.calling = Head(queue)].of = answer.of
          /\ [answer EXCEPT !.stopped = TRUE].of = answer.of
          /\ [answer EXCEPT !.failed = TRUE].of = answer.of
      BY <1>t, <3>1, ReplyTakes
    <3> QED
      BY <3>2, <3>3, Zenon
  <2>2. /\ InTurn /\ at = "streaming" /\ at' \in {"streaming", "calling"}
        /\ UNCHANGED <<lane, task, turn, plays, played, instruction>>
    BY <1>7 DEF TakeText, TakeToolCall, TakeStop, TakeError
  <2> QED
    BY <1>0, <2>1, <2>2
<1>8. CASE CallReturns
  <2>1. answer'.of = answer.of
    <3>1. PICK n : n = IF answer.recorded THEN answer.recordedText ELSE answer.text
      OBVIOUS
    <3>2. n \in Nat
      BY <1>t, <3>1, ReplyFields
    <3>3. answer' = [answer EXCEPT !.recordedText = IF answer.recorded THEN answer.recordedText
            ELSE answer.text,
                                   !.recorded = TRUE, !.calling = None]
      BY <1>8 DEF CallReturns
    <3>4. answer' = [answer EXCEPT !.recordedText = n, !.recorded = TRUE, !.calling = None]
      BY <3>1, <3>3, Zenon
    <3> QED
      BY <1>t, <3>2, <3>4, ReplyRecords
  <2>2. /\ at = "calling" /\ at' \in {"streaming", "unwinding"}
        /\ UNCHANGED <<lane, task, turn, plays, played, instruction>>
    BY <1>8 DEF CallReturns
  <2> QED
    BY <1>0, <2>1, <2>2
<1>9. CASE StreamEnds
  <2>1. /\ at = "streaming" /\ at' = "observing" /\ task.turns[turn].kind = "instruction"
        /\ UNCHANGED <<lane, task, turn, plays, played, instruction>>
    BY <1>0, <1>9 DEF StreamEnds, PlaceInv
  <2> QED
    BY <1>0, <2>1
<1>10. CASE Observe
  <2>1. at = "observing" /\ at' = "next" /\ UNCHANGED <<lane, task, plays, played>>
    BY <1>10 DEF Observe
  <2>2. instruction' = IF task.turns[turn].kind = "instruction" THEN instruction + 1
          ELSE instruction
    BY <1>10, <1>t DEF Observe
  <2> QED
    BY <1>0, <2>1, <2>2
<1> QED
  BY <1>1, <1>2, <1>3, <1>4, <1>5, <1>6, <1>7, <1>8, <1>9, <1>10 DEF EvalNext

\* The last turn's reading is of the draft that is scored.
LEMMA ReadKept ==
  ASSUME EvalInv, EvalNext
  PROVE  ReadInv'
<1>0. ReadInv /\ EvalTypes /\ PlaceInv
  BY DEF EvalInv
<1>t. /\ Len(task.turns) \in Nat /\ turn \in Nat /\ instruction \in Nat
      /\ draft \in [exists : BOOLEAN, layers : Seq(Layers)] /\ local \in Seq(Layers)
      /\ turns \in Seq(TurnRecord)
  BY <1>0, TaskHasTurns DEF EvalTypes, EvalTypeOK
<1> USE DEF ReadInv, PlaceInv, InTurn
<1>1. CASE CreateDraft \/ ReadSeed
  <2>1. turns = <<>> /\ turns' = turns
    BY <1>0, <1>1 DEF CreateDraft, ReadSeed
  <2> QED
    BY <2>1
<1>2. CASE \/ UserActionTurn \/ PlayScript \/ PlayConversation \/ Converse \/ CallReturns
           \/ StreamEnds
  <2>1. turn <= Len(task.turns) /\ UNCHANGED <<task, turn>>
    BY <1>0, <1>2 DEF UserActionTurn, PlayScript, PlayConversation, Converse, InstructionTurn,
       CallReturns, StreamEnds
  <2> QED
    BY <1>t, <2>1
<1>3. CASE \/ Dispatch \/ ChatEnds \/ TurnTimesOut \/ TakeText \/ TakeToolCall \/ TakeStop
           \/ TakeError \/ RunRejects \/ Score
  <2>1. UNCHANGED <<task, turn, turns, draft>>
    BY <1>3 DEF Dispatch, ChatEnds, TurnTimesOut, TakeText, TakeToolCall, TakeStop, TakeError,
         RunRejects, Score
  <2> QED
    BY <1>0, <2>1
<1>4. CASE DeleteCaseDraft \/ ReadAbsent
  <2>1. UNCHANGED <<task, turn, turns>>
    BY <1>4 DEF DeleteCaseDraft, ReadAbsent
  <2>2. draft'.layers = draft.layers
    BY <1>t, <1>4, DraftMoves DEF DeleteCaseDraft, ReadAbsent
  <2> QED
    BY <1>0, <2>1, <2>2
<1>5. CASE Observe
  <2>1. PICK server \in {draft.layers, None} :
          turns' = [turns EXCEPT ![Len(turns)].read = [server |-> server, local |-> local]]
    BY <1>5 DEF Observe
  <2>2. /\ [server |-> server, local |-> local] \in Reading
        /\ [server |-> server, local |-> local].server = server
    BY <1>t, <2>1, DraftMoves DEF Reading
  <2>3. turns # <<>> /\ draft' = draft
    BY <1>0, <1>5 DEF Observe
  <2>4. turns'[Len(turns')].read = [server |-> server, local |-> local]
    BY <1>t, <2>1, <2>2, <2>3, TurnIsRead
  <2> QED
    BY <2>1, <2>2, <2>3, <2>4
<1> QED
  BY <1>1, <1>2, <1>3, <1>4, <1>5 DEF EvalNext

\* A tool's result or an assistant's message in `h` has its antecedent.
InOrder(h) ==
  \A i \in DOMAIN h :
    /\ h[i].role = "tool" =>
         \E j \in 1..(i - 1) : h[j] = [role |-> "assistant", turn |-> h[i].turn]
    /\ h[i].role = "assistant" =>
         \E j \in 1..(i - 1) : h[j] = [role |-> "user", turn |-> h[i].turn]
    /\ \A j \in 1..(i - 1) : h[j].turn <= h[i].turn

\* No message is of a turn after `n`.
Until(h, n) == \A i \in DOMAIN h : h[i].turn <= n

Holds(h, role, n) == \E j \in DOMAIN h : h[j] = [role |-> role, turn |-> n]

\* Appending a message keeps that, when the antecedent is there.
LEMMA AppendInOrder ==
  ASSUME NEW h \in Seq(Message), NEW n \in Nat, Until(h, n), InOrder(h),
         NEW role \in {"user", "assistant", "tool"},
         role = "tool" => Holds(h, "assistant", n),
         role = "assistant" => Holds(h, "user", n),
         NEW k, k = Append(h, [role |-> role, turn |-> n])
  PROVE  /\ k \in Seq(Message) /\ InOrder(k) /\ Until(k, n)
         /\ Holds(k, role, n)
         /\ \A r : Holds(h, r, n) => Holds(k, r, n)
<1> DEFINE msg == [role |-> role, turn |-> n]
<1>1. msg \in Message /\ msg.role = role /\ msg.turn = n
  BY DEF Message
<1>d. k = Append(h, msg)
  OBVIOUS
<1>k. [role |-> role, turn |-> n] = msg
  OBVIOUS
<1> HIDE DEF msg
<1>2. /\ k \in Seq(Message) /\ DOMAIN k = 1..(Len(h) + 1)
      /\ DOMAIN h = 1..Len(h) /\ Len(h) \in Nat
      /\ \A i \in 1..Len(h) : k[i] = h[i]
      /\ k[Len(h) + 1] = msg
  BY <1>1, <1>d
<1>3. \A i \in 1..(Len(h) + 1) : i \in 1..Len(h) \/ i = Len(h) + 1
  BY <1>2
<1>4. Until(k, n)
  <2>1. n <= n
    OBVIOUS
  <2> QED
    BY <1>1, <1>2, <1>3, <2>1 DEF Until
<1>5. ASSUME NEW i \in DOMAIN k
      PROVE  /\ k[i].role = "tool" =>
                  \E j \in 1..(i - 1) : k[j] = [role |-> "assistant", turn |-> k[i].turn]
             /\ k[i].role = "assistant" =>
                  \E j \in 1..(i - 1) : k[j] = [role |-> "user", turn |-> k[i].turn]
             /\ \A j \in 1..(i - 1) : k[j].turn <= k[i].turn
  <2>1. CASE i \in 1..Len(h)
    <3>1. k[i] = h[i] /\ i \in DOMAIN h
      BY <1>2, <2>1
    <3>2. \A j \in 1..(i - 1) : k[j] = h[j]
      BY <1>2, <2>1
    <3> QED
      BY <3>1, <3>2 DEF InOrder
  <2>2. CASE i = Len(h) + 1
    <3>1. k[i] = msg /\ 1..(i - 1) = DOMAIN h
      BY <1>2, <2>2
    <3>2. \A j \in DOMAIN h : k[j] = h[j] /\ j \in DOMAIN k
      BY <1>2
    <3> QED
      BY <1>1, <3>1, <3>2 DEF Holds, Until
  <2> QED
    BY <1>2, <1>3, <2>1, <2>2
<1>6. InOrder(k)
  BY <1>5 DEF InOrder
<1>7. Len(h) + 1 \in DOMAIN k /\ DOMAIN h \subseteq DOMAIN k /\ \A i \in DOMAIN h : k[i] = h[i]
  BY <1>2
<1>8. Holds(k, role, n)
  BY <1>k, <1>2, <1>7 DEF Holds
<1>9. \A r : Holds(h, r, n) => Holds(k, r, n)
  BY <1>7 DEF Holds
<1> QED
  BY <1>2, <1>4, <1>6, <1>8, <1>9

LEMMA OrderIsInvariant == ResultsFollowTheirCalls <=> InOrder(history)
  BY DEF ResultsFollowTheirCalls, InOrder

\* Nothing is recorded before what it answers.
LEMMA HistoryKept ==
  ASSUME EvalInv, EvalNext
  PROVE  HistoryInv'
<1>0. HistoryInv /\ EvalTypes /\ PlaceInv
  BY DEF EvalInv
<1>t. /\ turn \in Nat /\ answer \in Reply /\ history \in Seq(Message)
      /\ Until(history, turn) /\ InOrder(history)
  BY <1>0, TaskHasTurns, OrderIsInvariant DEF EvalTypes, HistoryInv, Until
<1>s. \A role : Said(role) <=> Holds(history, role, turn)
  BY DEF Said, Holds
<1>e. /\ Until(history', turn') <=> \A i \in DOMAIN history' : history'[i].turn <= turn'
      /\ \A role : Said(role)' <=> Holds(history', role, turn')
  BY DEF Until, Said, Holds
<1>r. "user" \in {"user", "assistant", "tool"} /\ "assistant" \in {"user", "assistant", "tool"}
      /\ "tool" \in {"user", "assistant", "tool"}
  OBVIOUS
<1>d. "user" # "assistant" /\ "user" # "tool" /\ "assistant" # "tool"
  OBVIOUS
<1>o. InOrder(history') => ResultsFollowTheirCalls'
  BY DEF InOrder, ResultsFollowTheirCalls
<1>1. CASE \/ CreateDraft \/ ReadSeed \/ UserActionTurn \/ RunRejects \/ Score
           \/ DeleteCaseDraft \/ ReadAbsent
  <2>1. at' \notin {"streaming", "calling"} /\ UNCHANGED <<history, turn>>
    BY <1>1 DEF CreateDraft, ReadSeed, UserActionTurn, RunRejects, Score, DeleteCaseDraft,
         ReadAbsent
  <2>2. ResultsFollowTheirCalls'
    BY <1>t, <1>o, <2>1
  <2> QED
    BY <1>0, <2>1, <2>2 DEF HistoryInv
<1>2. CASE PlayScript \/ PlayConversation \/ Converse
  <2>1. /\ history' = Append(history, [role |-> "user", turn |-> turn])
        /\ turn' = turn
    BY <1>2 DEF PlayScript, PlayConversation, Converse, InstructionTurn
  <2>2. InOrder(history') /\ Until(history', turn) /\ Holds(history', "user", turn)
    BY <1>t, <1>r, <1>d, <2>1, AppendInOrder
  <2>3. at' \in {"streaming", "calling"} => ~answer'.recorded
    <3>1. CASE PlayScript \/ Converse
      BY <3>1, NoReplyIsReply DEF PlayScript, Converse
    <3>2. CASE PlayConversation
      <4>1. CASE task.conversation = 0
        BY <3>2, <4>1 DEF PlayConversation
      <4>2. CASE task.conversation # 0
        <5>1. answer' = [NoReply EXCEPT !.of = played'] /\ played' \in Nat
          BY <1>0, <3>2, <4>2 DEF PlayConversation, EvalTypes
        <5> QED
          BY <5>1, NoReplyIsReply
      <4> QED
        BY <4>1, <4>2
    <3> QED
      BY <1>2, <3>1, <3>2
  <2> QED
    BY <1>o, <1>e, <2>1, <2>2, <2>3 DEF HistoryInv
<1>3. CASE Dispatch \/ ChatEnds \/ TurnTimesOut
  <2>1. UNCHANGED <<at, turn, answer, history>>
    BY <1>3 DEF Dispatch, ChatEnds, TurnTimesOut
  <2>2. ResultsFollowTheirCalls'
    BY <1>t, <1>o, <2>1
  <2> QED
    BY <1>0, <2>1, <2>2 DEF HistoryInv, Said
<1>4. CASE TakeText \/ TakeToolCall \/ TakeStop \/ TakeError
  <2>1. answer'.recorded = answer.recorded
    <3>1. answer.text + 1 \in Nat /\ Head(queue) \in Event
      BY <1>0, <1>t, <1>4, ReplyFields DEF EvalTypes, TakeText, TakeToolCall, TakeStop, TakeError
    <3>2. \/ answer' = [answer EXCEPT !.text = answer.text + 1]
          \/ answer' = [answer EXCEPT !.calling = Head(queue)]
          \/ answer' = [answer EXCEPT !.stopped = TRUE]
          \/ answer' = [answer EXCEPT !.failed = TRUE]
      BY <1>4 DEF TakeText, TakeToolCall, TakeStop, TakeError
    <3>3. /\ [answer EXCEPT !.text = answer.text + 1].recorded = answer.recorded
          /\ [answer EXCEPT !.calling = Head(queue)].recorded = answer.recorded
          /\ [answer EXCEPT !.stopped = TRUE].recorded = answer.recorded
          /\ [answer EXCEPT !.failed = TRUE].recorded = answer.recorded
      BY <1>t, <3>1, ReplyTakes
    <3> QED
      BY <3>2, <3>3, Zenon
  <2>2. at = "streaming" /\ UNCHANGED <<turn, history>>
    BY <1>4 DEF TakeText, TakeToolCall, TakeStop, TakeError
  <2>3. ResultsFollowTheirCalls'
    BY <1>t, <1>o, <2>2
  <2> QED
    BY <1>0, <2>1, <2>2, <2>3 DEF HistoryInv, Said
<1>5. CASE CallReturns
  <2>1. /\ history' = Append(RecordAssistantMessage, [role |-> "tool", turn |-> turn])
        /\ turn' = turn /\ at = "calling"
    BY <1>5 DEF CallReturns
  <2>2. PICK h : h = RecordAssistantMessage
    OBVIOUS
  <2>3. /\ h \in Seq(Message) /\ InOrder(h) /\ Until(h, turn)
        /\ Holds(h, "user", turn) /\ Holds(h, "assistant", turn)
    <3>0. Holds(history, "user", turn) /\ (answer.recorded => Holds(history, "assistant", turn))
      BY <1>0, <1>s, <2>1 DEF HistoryInv
    <3>1. CASE answer.recorded
      BY <1>t, <2>2, <3>0, <3>1 DEF RecordAssistantMessage
    <3>2. CASE ~answer.recorded
      <4>1. h = Append(history, [role |-> "assistant", turn |-> turn])
        BY <2>2, <3>2 DEF RecordAssistantMessage
      <4> QED
        BY <1>t, <1>r, <1>d, <3>0, <4>1, AppendInOrder
    <3> QED
      BY <3>1, <3>2
  <2>4. history' = Append(h, [role |-> "tool", turn |-> turn])
    BY <2>1, <2>2
  <2>5. /\ InOrder(history') /\ Until(history', turn)
        /\ Holds(history', "user", turn) /\ Holds(history', "assistant", turn)
    BY <1>t, <1>r, <1>d, <2>3, <2>4, AppendInOrder
  <2> QED
    BY <1>e, <1>o, <2>1, <2>5 DEF HistoryInv
<1>6. CASE StreamEnds
  <2>1. /\ history' \in {history, Append(history, [role |-> "assistant", turn |-> turn])}
        /\ turn' = turn /\ at = "streaming" /\ at' = "observing"
    BY <1>6 DEF StreamEnds
  <2>2. InOrder(history') /\ Until(history', turn)
    <3>1. Holds(history, "user", turn)
      BY <1>0, <1>s, <2>1 DEF HistoryInv
    <3> QED
      BY <1>t, <1>r, <1>d, <2>1, <3>1, AppendInOrder
  <2> QED
    BY <1>e, <1>o, <2>1, <2>2 DEF HistoryInv
<1>7. CASE Observe
  <2>1. turn' = turn + 1 /\ history' = history /\ at' = "next"
    BY <1>7 DEF Observe
  <2>2. \A i \in DOMAIN history : history[i].turn <= turn + 1
    BY <1>t, MessageFields DEF Until
  <2> QED
    BY <1>t, <1>o, <2>1, <2>2 DEF HistoryInv
<1> QED
  BY <1>1, <1>2, <1>3, <1>4, <1>5, <1>6, <1>7 DEF EvalNext

LEMMA EvalInvNext == EvalInv /\ [EvalNext]_evalVars => EvalInv'
<1> SUFFICES ASSUME EvalInv, [EvalNext]_evalVars PROVE EvalInv'
  OBVIOUS
<1>1. CASE EvalNext
  BY <1>1, EvalTypesKept, PlaceKept, SessionKept, HistoryKept, PlaysKept, ReadKept DEF EvalInv
<1>2. CASE UNCHANGED evalVars
  <2> USE <1>2 DEF evalVars, InTurn
  <2>1. EvalTypes'
    BY DEF EvalInv, EvalTypes, EvalTypeOK
  <2>2. PlaceInv' /\ SessionInv'
    BY DEF EvalInv, PlaceInv, SessionInv
  <2>3. HistoryInv'
    BY DEF EvalInv, HistoryInv, Said, ResultsFollowTheirCalls
  <2>4. PlaysInv' /\ ReadInv'
    BY DEF EvalInv, PlaysInv, ReadInv, Instructed
  <2> QED
    BY <2>1, <2>2, <2>3, <2>4 DEF EvalInv
<1> QED
  BY <1>1, <1>2

\* A live pass compares what was shown with what was read at the end of the last turn,
\* and nothing writes the draft's layers between that reading and its deletion.
LEMMA LivePassFollows ==
  ASSUME EvalInv
  PROVE  LivePassIsStored
<1> SUFFICES ASSUME at = "done", LiveRunPassed
             PROVE  /\ ~draft.exists
                    /\ local = draft.layers
                    /\ \A i \in DOMAIN turns : turns[i].read.server = turns[i].read.local
  BY DEF LivePassIsStored
<1>0. EvalTypes /\ PlaceInv /\ ReadInv
  BY DEF EvalInv
<1>1. /\ cleanup /\ Len(turns) = Len(task.turns) /\ turn > Len(task.turns)
      /\ \A i \in DOMAIN turns : turns[i].read.server = turns[i].read.local
      /\ local = Last(turns).read.local
      /\ \E i \in DOMAIN toolCalls : toolCalls[i].ok
  BY DEF LiveRunPassed, LiveSemanticScore, Seen
<1>2. turns \in Seq(TurnRecord) /\ local \in Seq(Layers)
  BY <1>0 DEF EvalTypes, EvalTypeOK
<1>3. turns # <<>>
  <2>1. toolCalls # <<>>
    BY <1>1
  <2>2. Len(task.turns) # 0
    BY <1>0, <2>1 DEF PlaceInv
  <2> QED
    BY <1>1, <1>2, <2>2
<1>4. Len(turns) \in DOMAIN turns /\ Last(turns) = turns[Len(turns)]
  BY <1>2, <1>3 DEF Last
<1>5. turns[Len(turns)].read.server \in {draft.layers, None}
  BY <1>0, <1>1, <1>3 DEF ReadInv
<1>6. turns[Len(turns)].read.server = local
  BY <1>1, <1>4
<1>7. local = draft.layers
  BY <1>2, <1>5, <1>6, NoneIsNoReading
<1> QED
  BY <1>0, <1>1, <1>7 DEF PlaceInv

LEMMA EvalInvImplies ==
  EvalInv => /\ EvalTypeOK /\ LivePassIsStored /\ ResultsFollowTheirCalls
             /\ ReplyIsOfInstruction /\ NothingOutlivesTheRun
<1> SUFFICES ASSUME EvalInv
             PROVE  /\ EvalTypeOK /\ LivePassIsStored /\ ResultsFollowTheirCalls
                    /\ ReplyIsOfInstruction /\ NothingOutlivesTheRun
  OBVIOUS
<1>1. EvalTypeOK
  BY DEF EvalInv, EvalTypes
<1>2. ResultsFollowTheirCalls
  BY DEF EvalInv, HistoryInv
<1>3. ReplyIsOfInstruction
  BY DEF EvalInv, PlaysInv, ReplyIsOfInstruction
<1>4. NothingOutlivesTheRun
  BY DEF EvalInv, SessionInv, InTurn, NothingOutlivesTheRun
<1> QED
  BY <1>1, <1>2, <1>3, <1>4, LivePassFollows

\* A live run passes only for what the server stored, a tool's result follows its call's
\* message, a reply is of its instruction, and no session or call is left when the draft
\* is deleted, for every corpus and every interleaving (evals/runner, live-driver, scorer).
THEOREM RunsAreKept ==
  EvalSpec => [](/\ EvalTypeOK /\ LivePassIsStored /\ ResultsFollowTheirCalls
                 /\ ReplyIsOfInstruction /\ NothingOutlivesTheRun)
<1>1. EvalInit => EvalInv
  BY EvalInvInit
<1>2. EvalInv /\ [EvalNext]_evalVars => EvalInv'
  BY EvalInvNext
<1> QED
  BY <1>1, <1>2, EvalInvImplies, PTL DEF EvalSpec

(***************************************************************************)
(* StyleReads: the reads of one authoritative style                        *)
(***************************************************************************)
StyleAnswer == [session : Sessions \cup {None}, fields : SUBSET Fields]

StyleRead ==
  [at : Places, reader : {"author", "audience"}, session : Sessions \cup {None},
   caller : Sessions \cup {None}, request : 1..4, attempt : 0..1,
   answer : StyleAnswer \cup {None}, definition : StyleAnswer \cup {None},
   descriptor : StyleAnswer \cup {None},
   reason : Reasons \cup {None}]

\* What a read holds was answered to the session that asked.
OwnAnswers(read) ==
  /\ read.caller = read.session
  /\ read.reader = "audience" => read.request \in {2, 4}
  /\ read.at = "body" => read.answer \in StyleAnswer /\ read.answer.session = read.session
  /\ read.at = "digest" => read.request = 2
  /\ read.at = "digest" \/ (read.request > 2 /\ read.at # "failed") =>
       read.definition \in StyleAnswer /\ read.definition.session = read.session
  /\ read.at \in {"last digest", "bound"} =>
       /\ read.request = 4
       /\ read.descriptor \in StyleAnswer /\ read.descriptor.session = read.session
       /\ read.definition.fields \subseteq read.descriptor.fields

\* A read is unauthorized when it has tried twice, or had no token to refresh.
Refused(read) ==
  /\ read.reason = None \/ read.at = "failed"
  /\ read.reason = "unauthorized" /\ read.reader = "author" =>
       read.session = None \/ read.attempt = 1

StyleReadInv ==
  /\ current \in Sessions \cup {None} /\ stale \subseteq Sessions
  /\ style \subseteq Fields /\ layer \subseteq Fields
  /\ reads \in [Reads -> StyleRead]
  /\ \A r \in Reads : OwnAnswers(reads[r]) /\ Refused(reads[r])

\* One read moves: the others are as they were.
OneMoves(r, next) ==
  /\ Become(r, next)
  /\ next \in StyleRead /\ OwnAnswers(next) /\ Refused(next)
  /\ stale' \subseteq Sessions
  /\ UNCHANGED <<current, style, layer>>

\* A step of one read that keeps what is said of it keeps the invariant.
LEMMA OneMovesKeeps ==
  ASSUME StyleReadInv, NEW r \in Reads, NEW next, OneMoves(r, next)
  PROVE  StyleReadInv'
  BY DEF StyleReadInv, OneMoves, Become

\* The states a read moves to, where more than one field changes.
Failing(read, why) == [read EXCEPT !.at = "failed", !.reason = why]
Retried(read) == [read EXCEPT !.at = "token", !.attempt = 1]
AsAuthor(s) == [Unread EXCEPT !.at = "token", !.session = s, !.caller = s]
AsAudience(s) == [Unread EXCEPT !.at = "response", !.reader = "audience", !.session = s,
                                !.caller = s, !.request = 2]

\* A read that moved to next keeps what the invariant says of it.
Kept(next) == next \in StyleRead /\ OwnAnswers(next) /\ Refused(next)

LEMMA NoneIsNoString == None # "unauthorized"
  BY NoneIsNoReason DEF Reasons

\* The states a read can move to, one lemma each.
LEMMA FailedKeeps ==
  ASSUME NEW read \in StyleRead, OwnAnswers(read), Refused(read),
         NEW why \in {"session", "transport", "refused", "lost", "fields", "invalid"}
  PROVE  Kept(Failing(read, why)) /\ Failing(read, why).at = "failed"
<1>0. why \in Reasons /\ "failed" \in Places
  BY DEF Reasons, Places
<1>1. Failing(read, why) \in StyleRead
  BY <1>0 DEF StyleRead, Failing
<1>2. OwnAnswers(Failing(read, why))
  BY DEF StyleRead, OwnAnswers, Failing
<1>3. Refused(Failing(read, why)) /\ Failing(read, why).at = "failed"
  BY NoneAssumption DEF StyleRead, Refused, Failing
<1> QED
  BY <1>1, <1>2, <1>3 DEF Kept

LEMMA UnauthorizedKeeps ==
  ASSUME NEW read \in StyleRead, OwnAnswers(read),
         read.reader = "author" => read.session = None \/ read.attempt = 1
  PROVE  Kept(Failing(read, "unauthorized")) /\ Failing(read, "unauthorized").at = "failed"
<1>0. "unauthorized" \in Reasons /\ "failed" \in Places
  BY DEF Reasons, Places
<1>1. Failing(read, "unauthorized") \in StyleRead
  BY <1>0 DEF StyleRead, Failing
<1>2. OwnAnswers(Failing(read, "unauthorized"))
  BY DEF StyleRead, OwnAnswers, Failing
<1>3. Refused(Failing(read, "unauthorized")) /\ Failing(read, "unauthorized").at = "failed"
  BY DEF StyleRead, Refused, Failing
<1> QED
  BY <1>1, <1>2, <1>3 DEF Kept

LEMMA RetriedKeeps ==
  ASSUME NEW read \in StyleRead, OwnAnswers(read), Refused(read), read.at = "response"
  PROVE  Kept(Retried(read))
<1>0. "token" \in Places /\ 1 \in 0..1
  BY DEF Places
<1>1. Retried(read) \in StyleRead
  BY <1>0 DEF StyleRead, Retried
<1>2. OwnAnswers(Retried(read))
  BY DEF StyleRead, OwnAnswers, Retried
<1>3. Refused(Retried(read))
  BY DEF StyleRead, Refused, Retried
<1> QED
  BY <1>1, <1>2, <1>3 DEF Kept

\* A handshake leads to its call, and a stylesheet to the descriptor.
LEMMA NextRequestKeeps ==
  ASSUME NEW read \in StyleRead, OwnAnswers(read), Refused(read),
         \/ read.at = "body" /\ read.request \in {1, 3} /\ read.reader = "author"
         \/ read.at = "digest" /\ read.session = current
  PROVE  Kept(NextRequest(read))
<1> DEFINE next == NextRequest(read)
           place == IF read.reader = "author" THEN "token" ELSE "response"
           number == read.request + (IF read.reader = "author" THEN 1 ELSE 2)
<1>0. read.at = "digest" => read.request = 2 /\ read.caller = current
  BY DEF OwnAnswers
<1>1. next = [read EXCEPT !.caller = read.caller, !.at = place, !.answer = None,
                          !.request = number, !.attempt = 0]
  BY <1>0 DEF NextRequest, StyleRead
<1>2. place \in Places /\ 0 \in 0..1
  BY DEF Places
<1>a. read.request \in 1..4 /\ read.reader \in {"author", "audience"}
  BY DEF StyleRead
<1>b. read.reader = "audience" => read.at = "digest"
  BY <1>a
<1>c. number \in 1..4
  BY <1>0, <1>a, <1>b
<1>3. /\ read.reader = "audience" => place = "response" /\ number = 4
      /\ place \in {"token", "response"}
      /\ number > 2 => read.at = "digest" \/ read.request > 2
  BY <1>0, <1>a, <1>b
<1> HIDE DEF place, number
<1>4. next \in StyleRead
  BY <1>1, <1>2, <1>c DEF StyleRead
<1>5. /\ next.at = place /\ next.request = number /\ next.reader = read.reader
      /\ next.caller = read.caller /\ next.session = read.session
      /\ next.definition = read.definition /\ next.reason = read.reason /\ next.attempt = 0
  BY <1>1 DEF StyleRead
<1>6. OwnAnswers(next)
  BY <1>2, <1>3, <1>5 DEF OwnAnswers
<1>7. read.reason = None
  BY DEF Refused
<1> HIDE DEF next
<1>8. Refused(next)
  BY <1>5, <1>7, NoneIsNoString DEF Refused
<1> QED
  BY <1>4, <1>6, <1>8 DEF Kept, next

\* An answer belongs to the session that asked, and is kept where its request says.
LEMMA AnsweredKeeps ==
  ASSUME NEW read \in StyleRead, OwnAnswers(read), Refused(read), read.at = "response",
         NEW given \in StyleAnswer, given.session = read.session
  PROVE  Kept([read EXCEPT !.at = "body", !.answer = given])
<1> DEFINE next == [read EXCEPT !.at = "body", !.answer = given]
<1>1. next \in StyleRead
  BY DEF StyleRead, Places
<1>2. OwnAnswers(next)
  BY DEF StyleRead, OwnAnswers
<1>3. Refused(next)
  BY DEF StyleRead, Refused
<1> QED
  BY <1>1, <1>2, <1>3 DEF Kept

LEMMA DefinitionKeeps ==
  ASSUME NEW read \in StyleRead, OwnAnswers(read), Refused(read), read.at = "body",
         read.request = 2
  PROVE  Kept([read EXCEPT !.at = "digest", !.definition = read.answer])
<1> DEFINE next == [read EXCEPT !.at = "digest", !.definition = read.answer]
<1>1. next \in StyleRead
  BY DEF StyleRead, Places
<1>2. OwnAnswers(next)
  BY DEF StyleRead, OwnAnswers
<1>3. Refused(next)
  BY DEF StyleRead, Refused
<1> QED
  BY <1>1, <1>2, <1>3 DEF Kept

LEMMA DescriptorKeeps ==
  ASSUME NEW read \in StyleRead, OwnAnswers(read), Refused(read), read.at = "body",
         read.request = 4, Binds(read.definition, read.answer)
  PROVE  Kept([read EXCEPT !.at = "last digest", !.descriptor = read.answer])
<1> DEFINE next == [read EXCEPT !.at = "last digest", !.descriptor = read.answer]
<1>1. next \in StyleRead
  BY DEF StyleRead, Places
<1>2. OwnAnswers(next)
  BY DEF StyleRead, OwnAnswers, Binds
<1>3. Refused(next)
  BY DEF StyleRead, Refused
<1> QED
  BY <1>1, <1>2, <1>3 DEF Kept

LEMMA UnreadKept == Kept(Unread)
<1>1. Unread \in StyleRead
  BY DEF Unread, StyleRead, Places
<1>2. OwnAnswers(Unread) /\ Refused(Unread)
  BY DEF Unread, OwnAnswers, Refused
<1> QED
  BY <1>1, <1>2 DEF Kept

\* A call begins with the session the host has.
LEMMA FreshKeeps ==
  ASSUME NEW s \in Sessions \cup {None},
         NEW next, next = AsAuthor(s) \/ next = AsAudience(s)
  PROVE  Kept(next)
<1>0. /\ "token" \in Places /\ "response" \in Places /\ 2 \in 1..4
      /\ 1 \notin {2, 4} /\ 2 \in {2, 4} /\ ~(2 > 2) /\ ~(1 > 2)
  BY DEF Places
<1>1. Unread \in StyleRead /\ Unread.reason = None /\ Unread.reader = "author"
      /\ Unread.request = 1
  BY UnreadKept DEF Kept, Unread
<1>2. /\ next \in StyleRead /\ next.reason = None /\ next.at \in {"token", "response"}
      /\ next.caller = s /\ next.session = s
      /\ \/ next.reader = "author" /\ next.request = 1
         \/ next.reader = "audience" /\ next.request = 2
  <2>1. CASE next = AsAuthor(s)
    BY <1>0, <1>1, <2>1 DEF StyleRead, AsAuthor
  <2>2. CASE next = AsAudience(s)
    BY <1>0, <1>1, <2>2 DEF StyleRead, AsAudience
  <2> QED
    BY <2>1, <2>2
<1>3. OwnAnswers(next)
  BY <1>0, <1>2 DEF OwnAnswers
<1>4. Refused(next)
  BY <1>2, NoneIsNoString DEF Refused
<1> QED
  BY <1>2, <1>3, <1>4 DEF Kept

LEMMA StyleReadInvInit == StyleReadInit => StyleReadInv
<1> SUFFICES ASSUME StyleReadInit PROVE StyleReadInv
  OBVIOUS
<1> QED
  BY UnreadKept DEF StyleReadInit, StyleReadInv, Kept

\* What a step of a read may make of it, and when.
LEMMA ReadStep ==
  ASSUME StyleReadInv, NEW r \in Reads,
         \/ BindAsAuthor(r) \/ BindAsAudience(r) \/ TokenArrives(r) \/ TokenRefused(r)
         \/ ResponseArrives(r) \/ RequestLost(r) \/ BodyArrives(r) \/ BodyRejected(r)
         \/ DigestArrives(r) \/ LastDigestArrives(r)
  PROVE  \E next : /\ OneMoves(r, next)
                   /\ \/ next.at = "failed" \/ reads[r].at = "idle"
                      \/ current = reads[r].session
<1> DEFINE IsNext(next) == /\ OneMoves(r, next)
                         /\ \/ next.at = "failed" \/ reads[r].at = "idle"
                            \/ current = reads[r].session
<1> SUFFICES \E next : IsNext(next)
  OBVIOUS
<1> DEFINE read == reads[r]
<1>0. /\ read \in StyleRead /\ OwnAnswers(read) /\ Refused(read)
      /\ current \in Sessions \cup {None} /\ stale \subseteq Sessions
      /\ style \subseteq Fields /\ layer \subseteq Fields
      /\ read.caller = read.session
  BY DEF StyleReadInv, OwnAnswers
<1>f. ASSUME NEW why \in {"session", "transport", "refused", "lost", "fields", "invalid"},
             ReadFails(r, why), stale' \subseteq Sessions, UNCHANGED <<current, style, layer>>
      PROVE  \E next : IsNext(next)
  <2>1. Kept(Failing(read, why)) /\ Failing(read, why).at = "failed"
    BY <1>0, FailedKeeps
  <2>2. Become(r, Failing(read, why))
    BY <1>f DEF ReadFails, Failing
  <2>3. OneMoves(r, Failing(read, why))
    BY <1>f, <2>1, <2>2 DEF OneMoves, Kept
  <2> QED
    BY <2>1, <2>3
<1>1. CASE BindAsAuthor(r)
  <2> DEFINE next == AsAuthor(current)
  <2>1. Become(r, next) /\ UNCHANGED <<current, stale, style, layer>> /\ read.at = "idle"
    BY <1>1 DEF BindAsAuthor, AsAuthor
  <2>2. Kept(next)
    BY <1>0, FreshKeeps
  <2>3. OneMoves(r, next)
    BY <1>0, <2>1, <2>2 DEF OneMoves, Kept
  <2> QED
    BY <2>1, <2>3
<1>2. CASE BindAsAudience(r)
  <2>1. CASE current = None
    <3>1. ReadFails(r, "transport") /\ UNCHANGED <<current, stale, style, layer>>
      BY <1>2, <2>1 DEF BindAsAudience
    <3> QED
      BY <3>1, <1>0, <1>f
  <2>2. CASE current # None
    <3> DEFINE next == AsAudience(current)
    <3>1. Become(r, next) /\ UNCHANGED <<current, stale, style, layer>> /\ read.at = "idle"
      BY <1>2, <2>2 DEF BindAsAudience, AsAudience
    <3>2. Kept(next)
      BY <1>0, FreshKeeps
    <3>3. OneMoves(r, next)
      BY <1>0, <3>1, <3>2 DEF OneMoves, Kept
    <3> QED
      BY <3>1, <3>3
  <2> QED
    BY <2>1, <2>2
<1>3. CASE TokenArrives(r)
  <2> DEFINE next == [read EXCEPT !.at = "response"]
  <2>1. /\ read.at = "token" /\ stale' \subseteq Sessions
        /\ UNCHANGED <<current, style, layer>>
        /\ Checked(r, Become(r, next))
    BY <1>3, <1>0 DEF TokenArrives
  <2>2. next \in StyleRead
    BY <1>0 DEF StyleRead, Places
  <2>3. OwnAnswers(next) /\ Refused(next)
    BY <1>0, <2>1 DEF StyleRead, OwnAnswers, Refused
  <2>4. CASE SameSession(r)
    <3>1. Become(r, next) /\ current = read.session
      BY <1>0, <2>1, <2>4 DEF Checked, SameSession
    <3>2. OneMoves(r, next)
      BY <2>1, <2>2, <2>3, <3>1 DEF OneMoves
    <3> QED
      BY <3>1, <3>2
  <2>5. CASE ~SameSession(r)
    <3>1. ReadFails(r, "session")
      BY <2>1, <2>5 DEF Checked
    <3> QED
      BY <3>1, <2>1, <1>f
  <2> QED
    BY <2>4, <2>5
<1>4. CASE TokenRefused(r)
  <2>1. ReadFails(r, "refused") /\ UNCHANGED <<current, stale, style, layer>>
    BY <1>4 DEF TokenRefused
  <2> QED
    BY <2>1, <1>0, <1>f
<1>5. CASE ResponseArrives(r)
  <2>1. stale' \subseteq Sessions /\ UNCHANGED <<current, style, layer>> /\ read.at = "response"
    BY <1>5, <1>0 DEF ResponseArrives
  <2>2. CASE ~SameSession(r)
    <3>1. ReadFails(r, "session")
      BY <1>5, <2>2 DEF ResponseArrives, Checked
    <3> QED
      BY <3>1, <2>1, <1>f
  <2>3. CASE SameSession(r) /\ read.caller \notin stale
    <3> DEFINE next == [read EXCEPT !.at = "body", !.answer = ReadAnswered(r)]
    <3>a. Become(r, next) /\ current = read.session
      BY <1>5, <1>0, <2>3 DEF ResponseArrives, Checked, SameSession
    <3>1. ReadAnswered(r) \in StyleAnswer /\ ReadAnswered(r).session = read.session
      BY <1>0 DEF ReadAnswered, Answer, StyleAnswer, StyleRead
    <3>2. Kept(next)
      BY <1>0, <3>1, <2>1, AnsweredKeeps
    <3>3. OneMoves(r, next)
      BY <2>1, <3>a, <3>2 DEF OneMoves, Kept
    <3> QED
      BY <3>a, <3>3
  <2>4. CASE SameSession(r) /\ read.caller \in stale /\ TriesAgain(r)
    <3>1. Become(r, Retried(read)) /\ current = read.session
      BY <1>5, <1>0, <2>4 DEF ResponseArrives, Checked, SameSession, Retried
    <3>2. Kept(Retried(read))
      BY <1>0, <2>1, RetriedKeeps
    <3>3. OneMoves(r, Retried(read))
      BY <2>1, <3>1, <3>2 DEF OneMoves, Kept
    <3> QED
      BY <3>1, <3>3
  <2>5. CASE SameSession(r) /\ read.caller \in stale /\ ~TriesAgain(r)
    <3> DEFINE next == Failing(read, "unauthorized")
    <3>1. Become(r, next)
      BY <1>5, <1>0, <2>5 DEF ResponseArrives, Checked, ReadFails, Failing
    <3>a. read.reader = "author" => read.session = None \/ read.attempt = 1
      BY <1>0, <2>5 DEF TriesAgain, StyleRead
    <3>2. Kept(next) /\ next.at = "failed"
      BY <1>0, <3>a, UnauthorizedKeeps
    <3>3. OneMoves(r, next)
      BY <2>1, <3>1, <3>2 DEF OneMoves, Kept
    <3> QED
      BY <3>2, <3>3
  <2> QED
    BY <2>2, <2>3, <2>4, <2>5
<1>6. CASE RequestLost(r)
  <2>1. ReadFails(r, "lost") /\ UNCHANGED <<current, stale, style, layer>>
    BY <1>6 DEF RequestLost
  <2> QED
    BY <2>1, <1>0, <1>f
<1>7. CASE BodyArrives(r)
  <2>1. stale' \subseteq Sessions /\ UNCHANGED <<current, style, layer>> /\ read.at = "body"
    BY <1>7, <1>0 DEF BodyArrives
  <2>2. CASE ~SameSession(r)
    <3>1. ReadFails(r, "session")
      BY <1>7, <2>2 DEF BodyArrives, Checked
    <3> QED
      BY <3>1, <2>1, <1>f
  <2>0. read.request \in 1..4 /\ read.reader \in {"author", "audience"}
    BY <1>0 DEF StyleRead
  <2>3. CASE SameSession(r) /\ Requests[read.request] = "initialize"
    <3> DEFINE next == NextRequest(read)
    <3>1. read.request \in {1, 3}
      BY <2>0, <2>3 DEF Requests
    <3>2. read.reader = "author"
      <4>1. read.reader = "audience" => read.request \in {2, 4}
        BY <1>0 DEF OwnAnswers
      <4> QED
        BY <2>0, <3>1, <4>1
    <3>3. Kept(next)
      BY <1>0, <2>1, <3>1, <3>2, NextRequestKeeps
    <3>4. Become(r, next) /\ current = read.session
      BY <1>0, <1>7, <2>3 DEF BodyArrives, Checked, SameSession
    <3>5. OneMoves(r, next)
      BY <2>1, <3>3, <3>4 DEF OneMoves, Kept
    <3> QED
      BY <3>4, <3>5
  <2>4. CASE SameSession(r) /\ Requests[read.request] = "style"
    <3> DEFINE next == [read EXCEPT !.at = "digest", !.definition = read.answer]
    <3>1. read.request = 2
      BY <2>0, <2>4 DEF Requests
    <3>2. Kept(next)
      BY <1>0, <2>1, <3>1, DefinitionKeeps
    <3>3. Become(r, next) /\ current = read.session
      BY <1>0, <1>7, <2>4 DEF BodyArrives, Checked, SameSession
    <3>4. OneMoves(r, next)
      BY <2>1, <3>2, <3>3 DEF OneMoves, Kept
    <3> QED
      BY <3>3, <3>4
  <2>5. CASE SameSession(r) /\ Requests[read.request] = "descriptor"
    <3>1. read.request = 4 /\ read.caller = current /\ current = read.session
      BY <1>0, <2>0, <2>5 DEF Requests, SameSession
    <3>2. CASE Binds(read.definition, read.answer)
      <4> DEFINE next == [read EXCEPT !.at = "last digest", !.descriptor = read.answer]
      <4>1. Kept(next)
        BY <1>0, <2>1, <3>1, <3>2, DescriptorKeeps
      <4>2. Become(r, next)
        BY <1>7, <2>5, <3>2 DEF BodyArrives, Checked
      <4>3. OneMoves(r, next)
        BY <2>1, <4>1, <4>2 DEF OneMoves, Kept
      <4> QED
        BY <3>1, <4>3
    <3>3. CASE ~Binds(read.definition, read.answer)
      <4>1. ReadFails(r, "fields")
        BY <1>7, <2>5, <3>3 DEF BodyArrives, Checked
      <4> QED
        BY <4>1, <2>1, <1>f
    <3> QED
      BY <3>2, <3>3
  <2>6. Requests[read.request] \in {"initialize", "style", "descriptor"}
    BY <2>0 DEF Requests
  <2> QED
    BY <2>2, <2>3, <2>4, <2>5, <2>6
<1>8. CASE BodyRejected(r)
  <2>1. ReadFails(r, "invalid") /\ UNCHANGED <<current, stale, style, layer>>
    BY <1>8 DEF BodyRejected
  <2> QED
    BY <2>1, <1>0, <1>f
<1>9. CASE DigestArrives(r)
  <2>1. stale' \subseteq Sessions /\ UNCHANGED <<current, style, layer>> /\ read.at = "digest"
    BY <1>9, <1>0 DEF DigestArrives
  <2>2. CASE ~SameSession(r)
    <3>1. ReadFails(r, "session")
      BY <1>9, <2>2 DEF DigestArrives, Checked
    <3> QED
      BY <3>1, <2>1, <1>f
  <2>3. CASE SameSession(r)
    <3> DEFINE next == NextRequest(read)
    <3>1. read.session = current
      BY <1>0, <2>1, <2>3 DEF SameSession
    <3>2. Kept(next)
      BY <1>0, <2>1, <3>1, NextRequestKeeps
    <3>3. Become(r, next)
      BY <1>9, <2>3 DEF DigestArrives, Checked
    <3>4. OneMoves(r, next)
      BY <2>1, <3>2, <3>3 DEF OneMoves, Kept
    <3> QED
      BY <3>1, <3>4
  <2> QED
    BY <2>2, <2>3
<1>10. CASE LastDigestArrives(r)
  <2> DEFINE next == [read EXCEPT !.at = "bound"]
  <2>1. stale' \subseteq Sessions /\ UNCHANGED <<current, style, layer>> /\ read.at = "last digest"
    BY <1>10, <1>0 DEF LastDigestArrives
  <2>2. CASE ~SameSession(r)
    <3>1. ReadFails(r, "session")
      BY <1>10, <2>2 DEF LastDigestArrives, Checked
    <3> QED
      BY <3>1, <2>1, <1>f
  <2>3. CASE SameSession(r)
    <3>1. next \in StyleRead
      BY <1>0 DEF StyleRead, Places
    <3>2. OwnAnswers(next) /\ Refused(next)
      BY <1>0, <2>1 DEF StyleRead, OwnAnswers, Refused
    <3>3. Become(r, next) /\ current = read.session
      BY <1>0, <1>10, <2>3 DEF LastDigestArrives, Checked, SameSession
    <3>4. OneMoves(r, next)
      BY <2>1, <3>1, <3>2, <3>3 DEF OneMoves
    <3> QED
      BY <3>3, <3>4
  <2> QED
    BY <2>2, <2>3
<1> QED
  BY <1>1, <1>2, <1>3, <1>4, <1>5, <1>6, <1>7, <1>8, <1>9, <1>10

\* Every step of a read keeps the invariant.
LEMMA StyleReadInvNext == StyleReadInv /\ [StyleReadNext]_styleReadVars => StyleReadInv'
<1> SUFFICES ASSUME StyleReadInv, [StyleReadNext]_styleReadVars PROVE StyleReadInv'
  OBVIOUS
<1>1. ASSUME NEW r \in Reads,
             \/ BindAsAuthor(r) \/ BindAsAudience(r) \/ TokenArrives(r) \/ TokenRefused(r)
             \/ ResponseArrives(r) \/ RequestLost(r) \/ BodyArrives(r) \/ BodyRejected(r)
             \/ DigestArrives(r) \/ LastDigestArrives(r)
      PROVE StyleReadInv'
  BY <1>1, ReadStep, OneMovesKeeps
<1>2. CASE ChangeSession \/ TokenExpires \/ EditOnServer \/ UNCHANGED styleReadVars
  BY <1>2 DEF ChangeSession, TokenExpires, EditOnServer, styleReadVars, StyleReadInv
<1> QED
  BY <1>1, <1>2 DEF StyleReadNext

LEMMA StyleReadInvImplies ==
  StyleReadInv => StyleReadTypeOK /\ BindingIsOneSessions /\ ExpiryIsSurvived
<1> SUFFICES ASSUME StyleReadInv
             PROVE  StyleReadTypeOK /\ BindingIsOneSessions /\ ExpiryIsSurvived
  OBVIOUS
<1>1. StyleReadTypeOK
  BY DEF StyleReadInv, StyleReadTypeOK, StyleRead, Requests
<1>2. BindingIsOneSessions
  <2> SUFFICES ASSUME NEW r \in Reads, reads[r].at = "bound"
               PROVE  /\ reads[r].definition.session = reads[r].session
                      /\ reads[r].descriptor.session = reads[r].session
                      /\ reads[r].definition.fields \subseteq reads[r].descriptor.fields
    BY DEF BindingIsOneSessions
  <2> QED
    <3>1. OwnAnswers(reads[r])
      BY DEF StyleReadInv
    <3> QED
      BY <3>1 DEF OwnAnswers
<1>3. ExpiryIsSurvived
  BY DEF StyleReadInv, ExpiryIsSurvived, Refused
<1> QED
  BY <1>1, <1>2, <1>3

\* A step that ends a session ends its reads.
LEMMA StyleReadEnds ==
  StyleReadInv /\ [StyleReadNext]_styleReadVars =>
    [\A r \in Reads :
       reads'[r] # reads[r] /\ reads'[r].at # "failed" /\ reads[r].at # "idle" =>
         current = reads[r].session]_styleReadVars
<1> SUFFICES ASSUME StyleReadInv, StyleReadNext, NEW q \in Reads, reads'[q] # reads[q],
                    reads'[q].at # "failed", reads[q].at # "idle"
             PROVE  current = reads[q].session
  OBVIOUS
<1>1. PICK r \in Reads :
             \/ BindAsAuthor(r) \/ BindAsAudience(r) \/ TokenArrives(r) \/ TokenRefused(r)
             \/ ResponseArrives(r) \/ RequestLost(r) \/ BodyArrives(r) \/ BodyRejected(r)
             \/ DigestArrives(r) \/ LastDigestArrives(r)
  BY DEF StyleReadNext, ChangeSession, TokenExpires, EditOnServer
<1>2. PICK next : /\ OneMoves(r, next)
                  /\ \/ next.at = "failed" \/ reads[r].at = "idle"
                     \/ current = reads[r].session
  BY <1>1, ReadStep
<1>3. reads' = [reads EXCEPT ![r] = next] /\ reads \in [Reads -> StyleRead]
  BY <1>2 DEF OneMoves, Become, StyleReadInv
<1>4. q = r /\ reads'[q] = next
  BY <1>3
<1> QED
  BY <1>2, <1>4

\* What is bound of an authoritative style is of one session throughout, an expired token
\* is asked for once more, and nothing survives its session (authoritative-style-provider).
THEOREM OneReadingSession ==
  StyleReadSpec => /\ [](StyleReadTypeOK /\ BindingIsOneSessions /\ ExpiryIsSurvived)
                   /\ EndsWithItsSession
  BY StyleReadInvInit, StyleReadInvNext, StyleReadInvImplies, StyleReadEnds, PTL
  DEF StyleReadSpec, EndsWithItsSession

(***************************************************************************)
(* McpSession: the handshakes and the calls                                *)
(***************************************************************************)
Handshake == [at : {"token", "sent", "done"}, header : 1..MaxSessions \cup {None}]

\* Handshakes are numbered; the one under way is the one callers share, and
\* nothing is greeted before it ends.
OneHandshake ==
  /\ \E n \in 0..MaxSessions :
       handshakes \in [1..n -> Handshake]
  /\ initializing # None => initializing \in DOMAIN handshakes
  /\ \A h \in DOMAIN handshakes : handshakes[h].at # "done" => initializing = h /\ ~greeted

McpCall ==
  [at : {"idle", "joined", "token", "sent", "done", "failed"},
   header : 1..MaxSessions \cup {None}, joined : 1..MaxSessions \cup {None}]

CallsHaveHeaders ==
  /\ mcpCalls \in [Calls -> McpCall]
  /\ \A c \in Calls : mcpCalls[c].at \in {"token", "sent"} =>
       greeted /\ mcpCalls[c].header = sessionId

McpInv ==
  /\ sessionId \in 1..MaxSessions \cup {None} /\ greeted \in BOOLEAN
  /\ alive \subseteq 1..MaxSessions
  /\ OneHandshake
  /\ CallsHaveHeaders

LEMMA McpInvInit == McpInit => McpInv
<1> SUFFICES ASSUME McpInit PROVE McpInv
  OBVIOUS
<1>1. OneHandshake
  <2>1. DOMAIN handshakes = 1..0
    BY DEF McpInit
  <2> QED
    BY <2>1, McpAssumption, NoneAssumption DEF McpInit, OneHandshake, Handshake
<1>2. CallsHaveHeaders
  BY DEF McpInit, CallsHaveHeaders, McpCall, NoCall
<1> QED
  BY <1>1, <1>2 DEF McpInit, McpInv

\* Every step of a client or the server keeps the invariant.
LEMMA McpInvNext == McpInv /\ [McpNext]_mcpVars => McpInv'
<1> SUFFICES ASSUME McpInv, [McpNext]_mcpVars PROVE McpInv'
  OBVIOUS
<1> USE McpAssumption, NoneAssumption DEF McpInv
<1>1. ASSUME NEW c \in Calls, CallGreeted(c) PROVE McpInv'
  <2>1. OneHandshake'
    BY <1>1 DEF CallGreeted, OneHandshake, Handshake
  <2>2. CallsHaveHeaders'
    BY <1>1 DEF CallGreeted, CallsHaveHeaders, McpCall, Send
  <2> QED
    BY <1>1, <2>1, <2>2 DEF CallGreeted
<1>2. ASSUME NEW c \in Calls, CallFirst(c) PROVE McpInv'
  <2>1. CASE Joins
    <3>1. OneHandshake'
      BY <1>2, <2>1 DEF CallFirst, OneHandshake, Handshake
    <3>2. CallsHaveHeaders'
      <4>1. initializing \in 1..MaxSessions
        BY <2>1 DEF Joins, OneHandshake, Handshake
      <4>2. /\ mcpCalls' = [mcpCalls EXCEPT ![c] = [@ EXCEPT !.at = "joined",
                                                            !.joined = initializing]]
            /\ UNCHANGED <<sessionId, greeted>>
        BY <1>2, <2>1 DEF CallFirst
      <4> QED
        BY <4>1, <4>2 DEF CallsHaveHeaders, McpCall
    <3> QED
      BY <1>2, <3>1, <3>2 DEF CallFirst
  <2>2. CASE ~Joins
    <3> DEFINE h == Cardinality(DOMAIN handshakes) + 1
    <3>1. PICK n \in 0..MaxSessions :
        handshakes \in [1..n -> Handshake]
      BY DEF OneHandshake, Handshake
    <3>2. h = n + 1
      <4>1. Cardinality(1..n) = n
        BY FS_Interval
      <4> QED
        BY <3>1, <4>1
    <3>3. /\ h <= MaxSessions
          /\ handshakes' = [k \in 1..h |-> IF k = h THEN [at |-> "token", header |-> sessionId]
                                           ELSE handshakes[k]]
          /\ initializing' = h
          /\ mcpCalls' = [mcpCalls EXCEPT ![c] = [@ EXCEPT !.at = "joined", !.joined = h]]
          /\ UNCHANGED <<sessionId, greeted, alive, failures>> /\ ~greeted
      BY <1>2, <2>2 DEF CallFirst
    <3> HIDE DEF h
    <3>4. OneHandshake'
      <4>1. n + 1 \in 0..MaxSessions /\ DOMAIN handshakes' = 1..(n + 1)
        BY <3>2, <3>3, <3>1
      <4>2. ASSUME NEW k \in DOMAIN handshakes', handshakes'[k].at # "done"
            PROVE initializing' = k /\ ~greeted'
        <5>1. CASE k = h
          BY <5>1, <3>3
        <5>2. CASE k # h
          BY <5>2, <4>2, <4>1, <3>1, <3>2, <3>3, <2>2 DEF OneHandshake, Handshake, Joins
        <5> QED
          BY <5>1, <5>2
      <4>3. handshakes' \in [1..(n + 1) -> Handshake]
        BY <3>1, <3>2, <3>3 DEF Handshake
      <4>4. initializing' \in DOMAIN handshakes'
        BY <3>2, <3>3, <4>1
      <4> QED
        BY <4>1, <4>2, <4>3, <4>4 DEF OneHandshake, Handshake
    <3>5. CallsHaveHeaders'
      BY <3>3, <3>2, h \in 1..MaxSessions DEF CallsHaveHeaders, McpCall
    <3> QED
      BY <3>3, <3>4, <3>5
  <2> QED
    BY <2>1, <2>2
<1>3. ASSUME NEW c \in Calls, CallSent(c) \/ CallFails(c) \/ CallAgain(c) PROVE McpInv'
  <2>1. OneHandshake'
    BY <1>3 DEF CallSent, CallFails, CallAgain, OneHandshake, Handshake
  <2>2. CallsHaveHeaders'
    BY <1>3 DEF CallSent, CallFails, CallAgain, CallsHaveHeaders, McpCall, Failed, NoCall
  <2> QED
    BY <1>3, <2>1, <2>2 DEF CallSent, CallFails, CallAgain
<1>4. ASSUME NEW c \in Calls, CallAnswered(c) PROVE McpInv'
  <2>1. OneHandshake'
    BY <1>4 DEF CallAnswered, OneHandshake, Handshake
  <2>2. sessionId' = sessionId
    BY <1>4 DEF CallAnswered, CallsHaveHeaders, McpCall
  <2>3. CallsHaveHeaders'
    BY <1>4, <2>2 DEF CallAnswered, CallsHaveHeaders, McpCall, Failed
  <2> QED
    BY <1>4, <2>1, <2>2, <2>3 DEF CallAnswered
<1>5. ASSUME NEW h \in DOMAIN handshakes, HandshakeSent(h) PROVE McpInv'
  <2>1. OneHandshake'
    BY <1>5 DEF HandshakeSent, OneHandshake, Handshake
  <2>2. CallsHaveHeaders'
    BY <1>5 DEF HandshakeSent, CallsHaveHeaders, McpCall
  <2> QED
    BY <1>5, <2>1, <2>2 DEF HandshakeSent
<1>6. ASSUME NEW h \in DOMAIN handshakes, HandshakeAnswered(h) \/ HandshakeFails(h)
      PROVE McpInv'
  <2>1. h \in 1..MaxSessions /\ ~greeted /\ initializing = h
    BY <1>6 DEF HandshakeAnswered, HandshakeFails, OneHandshake, Handshake
  <2>2. \A c \in Calls : mcpCalls[c].at \notin {"token", "sent"}
    BY <2>1 DEF CallsHaveHeaders
  <2>3. OneHandshake'
    <3>1. PICK n \in 0..MaxSessions :
        handshakes \in [1..n -> Handshake]
      BY DEF OneHandshake, Handshake
    <3>2. handshakes' = [handshakes EXCEPT ![h].at = "done"] /\ initializing' = None
      BY <1>6 DEF HandshakeAnswered, HandshakeFails
    <3>3. \A k \in DOMAIN handshakes' : handshakes'[k].at = "done"
      BY <3>1, <3>2, <2>1 DEF OneHandshake, Handshake
    <3>4. handshakes' \in [1..n -> Handshake]
      BY <3>1, <3>2 DEF Handshake
    <3> QED
      BY <3>2, <3>3, <3>4 DEF OneHandshake, Handshake
  <2>4. CASE HandshakeAnswered(h)
    <3>1. CallsHaveHeaders'
      BY <2>4, <2>2 DEF HandshakeAnswered, CallsHaveHeaders, McpCall, Resume, Send
    <3> QED
      BY <2>4, <2>1, <2>3, <3>1 DEF HandshakeAnswered
  <2>5. CASE HandshakeFails(h)
    <3>1. CallsHaveHeaders'
      BY <2>5, <2>2 DEF HandshakeFails, CallsHaveHeaders, McpCall, Resume, Failed
    <3> QED
      BY <2>5, <2>1, <2>3, <3>1 DEF HandshakeFails
  <2> QED
    BY <1>6, <2>4, <2>5
<1>7. CASE ServerRestarts \/ UNCHANGED mcpVars
  <2>1. OneHandshake'
    BY <1>7 DEF ServerRestarts, mcpVars, OneHandshake, Handshake
  <2>2. CallsHaveHeaders'
    BY <1>7 DEF ServerRestarts, mcpVars, CallsHaveHeaders
  <2> QED
    BY <1>7, <2>1, <2>2 DEF ServerRestarts, mcpVars
<1> QED
  BY <1>1, <1>2, <1>3, <1>4, <1>5, <1>6, <1>7 DEF McpNext

LEMMA McpInvImplies == McpInv => McpTypeOK /\ CallsShareOneSession
<1> SUFFICES ASSUME McpInv PROVE McpTypeOK /\ CallsShareOneSession
  OBVIOUS
<1> USE McpAssumption, NoneAssumption DEF McpInv
<1> DEFINE open == {h \in DOMAIN handshakes : handshakes[h].at # "done"}
<1>1. open \subseteq {initializing}
  BY DEF OneHandshake, Handshake
<1>2. Cardinality(open) <= 1
  <2>1. IsFiniteSet({initializing}) /\ Cardinality({initializing}) = 1
    BY FS_Singleton
  <2>2. Cardinality(open) <= Cardinality({initializing})
    BY <1>1, <2>1, FS_Subset
  <2> QED
    BY <2>1, <2>2
<1> QED
  BY <1>2 DEF McpTypeOK, CallsShareOneSession, OneHandshake, CallsHaveHeaders, McpCall

\* Callers share one handshake, and a call goes out under the session that is known, for
\* any number of callers, handshakes and failures (mcp/client).
THEOREM OneMcpSession == McpSpec => [](McpTypeOK /\ CallsShareOneSession)
  BY McpInvInit, McpInvNext, McpInvImplies, PTL DEF McpSpec

(***************************************************************************)
(* The components in one specification                                     *)
(***************************************************************************)
\* Every component begins in an initial state of its own.
LEMMA EachBegins ==
  ServicesInit => Init /\ FixtureInit /\ JobsInit /\ EvalInit /\ StyleReadInit /\ McpInit
  BY DEF ServicesInit

\* A step of one is a step of that one, and the others stay.
LEMMA EachStepsOrStays ==
  [ServicesNext]_serviceVars =>
    /\ [Next]_vars /\ [FixtureNext]_fixtureVars /\ [JobsNext]_jobVars
    /\ [EvalNext]_evalVars /\ [StyleReadNext]_styleReadVars /\ [McpNext]_mcpVars
<1> SUFFICES ASSUME [ServicesNext]_serviceVars
             PROVE  /\ [Next]_vars /\ [FixtureNext]_fixtureVars /\ [JobsNext]_jobVars
                    /\ [EvalNext]_evalVars /\ [StyleReadNext]_styleReadVars /\ [McpNext]_mcpVars
  OBVIOUS
<1>1. CASE UNCHANGED serviceVars
  BY <1>1 DEF serviceVars
<1>2. CASE ServicesNext
  BY <1>2 DEF ServicesNext, Only
<1> QED
  BY <1>1, <1>2

\* A behaviour of the instance is a behaviour of each component's own specification.
THEOREM EachIsItself ==
  ServicesSpec => /\ Spec /\ FixtureSpec /\ JobsSpec /\ EvalSpec /\ StyleReadSpec /\ McpSpec
  BY EachBegins, EachStepsOrStays, PTL
     DEF ServicesSpec, Spec, FixtureSpec, JobsSpec, EvalSpec, StyleReadSpec, McpSpec

\* What the fixture server holds agrees, and an evaluation's turn is answered as its own,
\* passes for what the server stored and leaves nothing behind, for every instance.
THEOREM HarnessAgreement == ServicesSpec => []HarnessAgrees
<1>1. /\ TypeOK
      /\ FixtureTypeOK /\ VersionsNumbered /\ PointersOwn /\ OneDraftPerCommand /\ OneAwaiting
      /\ JobsTypeOK /\ CatalogHoldsResults
      /\ EvalTypeOK /\ LivePassIsStored /\ ResultsFollowTheirCalls
      /\ ReplyIsOfInstruction /\ NothingOutlivesTheRun
      /\ StyleReadTypeOK /\ McpTypeOK
      => HarnessAgrees
  BY DEF HarnessAgrees, ServicesTypeOK
<1> QED
  BY <1>1, EachIsItself, TypeCorrect, StoreAgrees, ResultsOnce, RunsAreKept, OneReadingSession,
     OneMcpSession, PTL

\* What a client keeps of a session is of one session.
THEOREM OneSession == ServicesSpec => []OneSessionEach
<1>1. BindingIsOneSessions /\ ExpiryIsSurvived /\ CallsShareOneSession => OneSessionEach
  BY DEF OneSessionEach
<1> QED
  BY <1>1, EachIsItself, OneReadingSession, OneMcpSession, PTL

\* What was decided, ended or expired stays so.
THEOREM EndsAreFinal == ServicesSpec => WhatEndedStaysEnded
<1>1. DecisionStands /\ EndStands /\ EndsWithItsSession => WhatEndedStaysEnded
  BY DEF WhatEndedStaysEnded
<1> QED
  BY <1>1, EachIsItself, StoreAgrees, ResultsOnce, OneReadingSession, PTL

\* A principal has one unrecorded run of a package, and a surface shows its own package
\* and receipt (ProcessRuns, in the same instance).
THEOREM RunsAreOwn == ServicesSpec => [](OneUnrecordedRun /\ ShownIsOwn)
  BY EachIsItself, OneRun, OwnShown, PTL
=============================================================================
