-------------------------- MODULE RemoteWorkProofs --------------------------
(***************************************************************************)
(* What the components of MCWorkspaceSurfaces submit to a server: that it  *)
(* is submitted once (Recipes, Publication) and retained until its end is  *)
(* known (LocalRuns, ArtifactImports), each over its own specification and *)
(* for every value of its constants.                                       *)
(***************************************************************************)
EXTENDS MCWorkspaceSurfaces, FiniteSetTheorems, TLAPS

(***************************************************************************)
(* Recipes: one draft per submission, opened over the map it was asked on. *)
(*                                                                         *)
(* A submission's stage says what is known of its draft, no command is     *)
(* carried out twice, and a request of the panel that is still wanted is   *)
(* about the source selected, or offers sources before any is verified.    *)
(***************************************************************************)
Choices == [id : Nat, last : Nat, listed : Explore!Locators, previous : Explore!Locators,
            authority : Nat \union {None}]
ActiveMap == [draft : Nat \union {None}, generation : Nat]

AroundTypes ==
  /\ rcEpoch \in Nat /\ lease \in Nat /\ moves \in 0 .. MaxMoves
  /\ active \in ActiveMap /\ located \in Explore!Locators /\ recipeCatalog \in Explore!Locators
  /\ choices \in Choices /\ open \in BOOLEAN /\ revoked \subseteq Explore!SubmissionIds

\* What the controller knows of submission i, whose entry is e.
EntryKnows(i, e) ==
  /\ e.stage # "none" => e.source \in Sources
  /\ e.stage \in {"list", "read"} => e.resolution # None
  /\ e.allowed /\ e.stage \notin {"none", "idle"} => open
  /\ e.draft # 0 => e.draft \in DOMAIN created /\ created[e.draft] = Explore!CommandId(i)
  /\ e.stage \in {"attach", "observe"} => e.draft # 0 /\ active.draft # e.draft

CreatedOnce ==
  /\ created \in Seq(Explore!SubmissionIds \X {0})
  /\ \A j, k \in DOMAIN created : created[j] = created[k] => j = k

EntriesInv ==
  /\ entries \in [Explore!SubmissionIds -> Explore!Entry]
  /\ \A i \in Explore!SubmissionIds : EntryKnows(i, entries[i])
  /\ CreatedOnce

Found == [panel : Nat, sequence : Nat, kind : {"offer", "list", "read"},
          resolution : [source : Sources \union {None}, epoch : Nat, lease : Nat, was : Nat,
                        choices : Nat]]

\* A request of panel p that is still wanted is about the source selected, or
\* about the sources to offer before anything is verified.
Follows(d, p) ==
  /\ d.panel = p.id => d.sequence <= p.sequence
  /\ d.panel = p.id /\ d.sequence = p.sequence =>
       IF d.kind = "offer" THEN p.metadata = None
       ELSE d.resolution.source = p.selected /\ p.selected \in Sources

OneKind(D, p) ==
  \A d, e \in D :
    /\ d.panel = p.id /\ d.sequence = p.sequence /\ e.panel = p.id /\ e.sequence = p.sequence
    /\ d.kind = "offer"
    => e.kind = "offer"

\* Panel p and the requests D in flight.
PickerKnows(p, D) ==
  /\ p.id \in Explore!SubmissionIds /\ p.id < nextId
  /\ p.metadata # None => p.metadata.source = p.selected
  /\ \A d \in D : Follows(d, p)
  /\ OneKind(D, p)

PickerInv ==
  /\ nextId \in 1 .. MaxSubmissions + 1
  /\ recipePanel \in Explore!Panels \union {None}
  /\ discoveries \subseteq Found
  /\ \A d \in discoveries : d.panel < nextId
  /\ recipePanel # None => PickerKnows(recipePanel, discoveries)

RecipeInv == AroundTypes /\ EntriesInv /\ PickerInv

-----------------------------------------------------------------------------
\* Nothing is entered, found or created at first.
LEMMA RecipeInvInit == Explore!RecipeInit => RecipeInv
<1> SUFFICES ASSUME Explore!RecipeInit PROVE RecipeInv
  OBVIOUS
<1> USE ExploreAssumption
<1>1. Explore!Nothing \in Explore!Locators /\ [s \in Sources |-> 1] \in Explore!Locators
  BY DEF Explore!Nothing, Explore!Locators
<1>2. Explore!NoChoices \in Choices
  BY <1>1 DEF Explore!NoChoices, Choices
<1>3. [draft |-> None, generation |-> 1] \in ActiveMap
  BY DEF ActiveMap
<1>4. AroundTypes
  <2>0. rcEpoch = 0 /\ lease = 0 /\ moves = 0 /\ open = FALSE /\ revoked = {}
    BY DEF Explore!RecipeInit
  <2>1. rcEpoch \in Nat /\ lease \in Nat /\ moves \in 0 .. MaxMoves
    BY <2>0
  <2>2. /\ active \in ActiveMap /\ located \in Explore!Locators
        /\ recipeCatalog \in Explore!Locators /\ choices \in Choices
    BY <1>1, <1>2, <1>3 DEF Explore!RecipeInit
  <2>3. open \in BOOLEAN /\ revoked \subseteq Explore!SubmissionIds
    BY <2>0, Zenon
  <2> QED
    BY <2>1, <2>2, <2>3 DEF AroundTypes
<1>5. Explore!NoEntry \in Explore!Entry
  BY DEF Explore!NoEntry, Explore!Entry
<1>6. created \in Seq(Explore!SubmissionIds \X {0}) /\ DOMAIN created = {}
  BY DEF Explore!RecipeInit
<1>7. EntriesInv
  BY <1>5, <1>6 DEF EntriesInv, EntryKnows, CreatedOnce, Explore!NoEntry, Explore!RecipeInit
<1>8. PickerInv
  BY DEF PickerInv, Explore!RecipeInit
<1> QED
  BY <1>4, <1>7, <1>8 DEF RecipeInv

\* Every listing a choice of sources is turned into is one.
LEMMA ChoicesAre ==
  ASSUME AroundTypes
  PROVE  /\ Explore!Unlisted(choices) \in Choices /\ Explore!Listed(choices) \in Choices
         /\ Explore!Cleared \in Choices /\ Explore!Unlisted(Explore!Cleared) \in Choices
         /\ [choices EXCEPT !.authority = None] \in Choices
         /\ [Explore!Unlisted(choices) EXCEPT !.previous =
               IF choices.id # 0 THEN choices.listed ELSE choices.previous] \in Choices
<1>1. Explore!Nothing \in Explore!Locators
  BY ExploreAssumption DEF Explore!Nothing, Explore!Locators
<1>2. choices \in Choices /\ located \in Explore!Locators /\ rcEpoch \in Nat
  BY DEF AroundTypes
<1>3. ASSUME NEW c \in Choices PROVE Explore!Unlisted(c) \in Choices
  BY <1>1 DEF Explore!Unlisted, Choices
<1>4. Explore!Listed(choices) \in Choices
  <2>1. ASSUME NEW c \in Choices, NEW n \in Nat, NEW l \in Explore!Locators, NEW a \in Nat
        PROVE  [c EXCEPT !.id = n, !.last = n, !.listed = l, !.authority = a] \in Choices
    BY DEF Choices
  <2>2. choices.last + 1 \in Nat
    BY <1>2 DEF Choices
  <2> QED
    BY <1>2, <2>1, <2>2 DEF Explore!Listed, Explore!NewListing
<1>5. Explore!NoChoices \in Choices
  BY <1>1 DEF Explore!NoChoices, Choices
<1>6. Explore!Cleared \in Choices
  BY <1>2, <1>5 DEF Explore!Cleared, Choices
<1>7. ASSUME NEW c \in Choices, NEW l \in Explore!Locators
      PROVE  [c EXCEPT !.previous = l] \in Choices
  BY DEF Choices
<1>8. choices.listed \in Explore!Locators /\ choices.previous \in Explore!Locators
  BY <1>2 DEF Choices
<1>9. [choices EXCEPT !.authority = None] \in Choices
  BY <1>2 DEF Choices
<1> QED
  BY <1>2, <1>3, <1>4, <1>6, <1>7, <1>8, <1>9

\* What the steps may do to the rest.
LEMMA AroundMoves ==
  ASSUME Explore!RecipeNext
  PROVE  /\ moves' = moves \/ Explore!Spend
         /\ rcEpoch' \in {rcEpoch, rcEpoch + 1} /\ lease' \in {lease, lease + 1}
         /\ \/ choices' \in {choices, Explore!Unlisted(choices), Explore!Listed(choices),
                            Explore!Cleared, Explore!Unlisted(Explore!Cleared)}
            \/ Explore!ReplaceCatalog \/ Explore!RenewLease
         /\ recipeCatalog' \in {recipeCatalog, located}
         /\ located' = located \/ \E s \in Sources : Explore!Republish(s)
         /\ open' \in {open, TRUE, FALSE}
         /\ revoked' = revoked \/ Explore!ResetAuthority
         /\ \/ active' = active \/ Explore!SwitchMap \/ Explore!EditMap
            \/ \E i \in Explore!SubmissionIds : Explore!Attached(i)
<1> USE DEF Explore!Lists, Explore!Relists
<1>1. CASE Explore!User
  BY <1>1 DEF Explore!User, Explore!OpenPicker, Explore!ClosePicker, Explore!StartAnother,
              Explore!Create, Explore!Select
<1>2. CASE \E d \in discoveries :
             Explore!Offered(d) \/ Explore!Relisted(d) \/ Explore!Described(d)
  BY <1>2 DEF Explore!Offered, Explore!Relisted, Explore!Described
<1>3. CASE \E i \in Explore!SubmissionIds :
             \/ Explore!Prepared(i) \/ Explore!Capable(i) \/ Explore!Rechecked(i)
             \/ Explore!Built(i) \/ Explore!Created(i) \/ Explore!CreationLost(i)
             \/ Explore!AttachBegins(i) \/ Explore!Attached(i)
  BY <1>3 DEF Explore!Prepared, Explore!Capable, Explore!Rechecked, Explore!Built,
              Explore!Created, Explore!CreationLost, Explore!AttachBegins, Explore!Attached
<1>4. CASE Explore!Around
  BY <1>4 DEF Explore!Around, Explore!SwitchMap, Explore!EditMap, Explore!ReplaceCatalog,
              Explore!RenewLease, Explore!ResetAuthority, Explore!Republish
<1> QED
  BY <1>1, <1>2, <1>3, <1>4 DEF Explore!RecipeNext, Explore!Answers

\* The map, the catalog, the leases and the numbers stay what they are under every step.
LEMMA AroundKeeps == ASSUME RecipeInv, Explore!RecipeNext PROVE AroundTypes'
<1> USE ExploreAssumption
<1>1. AroundTypes
  BY DEF RecipeInv
<1>2. moves' \in 0 .. MaxMoves
  BY <1>1, AroundMoves DEF AroundTypes, Explore!Spend
<1>3. rcEpoch' \in Nat /\ lease' \in Nat
  BY <1>1, AroundMoves DEF AroundTypes
<1>4. choices' \in Choices
  BY <1>1, AroundMoves, ChoicesAre
     DEF AroundTypes, Explore!ReplaceCatalog, Explore!RenewLease
<1>5. recipeCatalog' \in Explore!Locators
  BY <1>1, AroundMoves DEF AroundTypes
<1>6. located' \in Explore!Locators
  BY <1>1, AroundMoves DEF AroundTypes, Explore!Republish, Explore!Locators
<1>7. open' \in BOOLEAN /\ revoked' \subseteq Explore!SubmissionIds
  BY <1>1, AroundMoves DEF AroundTypes, Explore!ResetAuthority
<1>8. active' \in ActiveMap
  <2>1. CASE Explore!SwitchMap \/ Explore!EditMap
    BY <1>1, <2>1 DEF AroundTypes, ActiveMap, Explore!SwitchMap, Explore!EditMap
  <2>2. CASE \E i \in Explore!SubmissionIds : Explore!Attached(i)
    <3>1. PICK i \in Explore!SubmissionIds : Explore!Attached(i)
      BY <2>2
    <3>2. entries[i].draft \in Nat
      BY DEF RecipeInv, EntriesInv, Explore!Entry
    <3> QED
      BY <1>1, <3>1, <3>2 DEF Explore!Attached, AroundTypes, ActiveMap
  <2> QED
    BY <1>1, <2>1, <2>2, AroundMoves DEF AroundTypes
<1> QED
  BY <1>2, <1>3, <1>4, <1>5, <1>6, <1>7, <1>8 DEF AroundTypes

-----------------------------------------------------------------------------
\* The submissions.
LEMMA ResolutionIs ==
  ASSUME AroundTypes, NEW s \in Sources
  PROVE  Explore!Resolution(s) \in Explore!Resolutions /\ Explore!Resolution(s) # None
<1>1. Explore!Remembered(s) \in Nat /\ choices.id \in Nat
  BY ExploreAssumption DEF AroundTypes, Choices, Explore!Locators, Explore!Remembered
<1>2. Explore!Resolution(s) \in Explore!Resolutions
  BY <1>1 DEF AroundTypes, Explore!Resolution, Explore!Resolutions
<1> QED
  BY <1>2, ExploreAssumption

\* A submission may turn into anything its own stage vouches for: no other entry is about it.
LEMMA EntryTurns ==
  ASSUME EntriesInv, NEW i \in Explore!SubmissionIds, NEW e \in Explore!Entry,
         entries' = [entries EXCEPT ![i] = e], EntryKnows(i, e)',
         UNCHANGED <<open, created, active>>
  PROVE  EntriesInv'
<1>1. entries' \in [Explore!SubmissionIds -> Explore!Entry]
  BY DEF EntriesInv
<1>2. ASSUME NEW j \in Explore!SubmissionIds PROVE EntryKnows(j, entries[j])'
  <2>1. CASE j = i
    <3>1. entries'[j] = e
      BY <2>1 DEF EntriesInv
    <3> QED
      BY <2>1, <3>1 DEF EntryKnows
  <2>2. CASE j # i
    <3>1. entries'[j] = entries[j] /\ EntryKnows(j, entries[j])
      BY <2>2 DEF EntriesInv
    <3> QED
      BY <3>1 DEF EntryKnows
  <2> QED
    BY <2>1, <2>2
<1> QED
  BY <1>1, <1>2 DEF EntriesInv, CreatedOnce

\* An entry that goes on, at another stage, with what it knows of its draft.
LEMMA StageTurns ==
  ASSUME EntriesInv, NEW i \in Explore!SubmissionIds, NEW e \in Explore!Entry,
         entries' = [entries EXCEPT ![i] = e], UNCHANGED <<open, created, active>>,
         e.source \in Sources \/ e.source = entries[i].source, entries[i].stage # "none",
         e.stage \in {"list", "read"} => e.resolution # None,
         e.draft = entries[i].draft,
         e.allowed => (e.stage = "idle" \/ open),
         e.stage \in {"attach", "observe"} => e.draft # 0 /\ active.draft # e.draft
  PROVE  EntriesInv'
<1>1. EntryKnows(i, entries[i])
  BY DEF EntriesInv
<1>2. EntryKnows(i, e)'
  BY <1>1 DEF EntryKnows
<1> QED
  BY <1>2, EntryTurns

\* A rejection leaves what is known of a submission true.
LEMMA RejectedKeeps ==
  ASSUME EntriesInv, NEW i \in Explore!SubmissionIds, Explore!Rejected(i),
         entries[i].stage # "none", UNCHANGED <<open, created, active>>
  PROVE  EntriesInv'
<1>1. PICK e : e = [entries[i] EXCEPT !.stage = "idle", !.resolution = None]
  OBVIOUS
<1>2. entries[i] \in Explore!Entry
  BY DEF EntriesInv
<1>3. /\ e \in Explore!Entry /\ e.stage = "idle" /\ e.draft = entries[i].draft
      /\ e.source = entries[i].source
  BY <1>1, <1>2 DEF Explore!Entry, Explore!Stages
<1>4. entries' = [entries EXCEPT ![i] = e]
  BY <1>1 DEF Explore!Rejected, EntriesInv
<1> QED
  BY <1>3, <1>4, StageTurns

\* The picker closes, or another map or principal takes its place: what is under way
\* may not attach any more.
LEMMA DisallowedKeeps ==
  ASSUME EntriesInv, entries' = Explore!Disallowed(entries), UNCHANGED created,
         \A i \in Explore!SubmissionIds :
           entries[i].stage \in {"attach", "observe"} => active'.draft # entries[i].draft
  PROVE  EntriesInv'
<1>1. ASSUME NEW i \in Explore!SubmissionIds
      PROVE  entries'[i] \in Explore!Entry /\ EntryKnows(i, entries[i])'
  <2>1. PICK e : e = entries[i]
    OBVIOUS
  <2>2. e \in Explore!Entry /\ EntryKnows(i, e)
    BY <2>1 DEF EntriesInv
  <2>3. PICK f : f = [e EXCEPT !.allowed = FALSE]
    OBVIOUS
  <2>4. /\ f \in Explore!Entry /\ ~f.allowed /\ f.stage = e.stage /\ f.source = e.source
        /\ f.resolution = e.resolution /\ f.draft = e.draft
    BY <2>2, <2>3 DEF Explore!Entry
  <2>5. entries'[i] = IF e.stage \notin {"none", "idle"} THEN f ELSE e
    BY <2>1, <2>3 DEF Explore!Disallowed
  <2>6. EntryKnows(i, f)' /\ (e.stage \in {"none", "idle"} => EntryKnows(i, e)')
    BY <2>1, <2>2, <2>4 DEF EntryKnows
  <2>7. entries'[i] = f \/ (e.stage \in {"none", "idle"} /\ entries'[i] = e)
    BY <2>5
  <2> QED
    BY <2>2, <2>4, <2>6, <2>7
<1>2. entries' \in [Explore!SubmissionIds -> Explore!Entry]
  BY <1>1 DEF Explore!Disallowed
<1> QED
  BY <1>1, <1>2 DEF EntriesInv, CreatedOnce

\* The picker, the discoveries and what goes on around leave the submissions as they are.
LEMMA EntriesAside ==
  ASSUME RecipeInv,
         \/ Explore!OpenPicker \/ Explore!ClosePicker \/ Explore!StartAnother
         \/ \E s \in Sources : Explore!Select(s)
         \/ \E d \in discoveries :
               Explore!Offered(d) \/ Explore!Relisted(d) \/ Explore!Described(d)
         \/ Explore!Around
  PROVE  EntriesInv'
<1>1. EntriesInv /\ active \in ActiveMap
  BY DEF RecipeInv, AroundTypes
<1>2. CASE UNCHANGED <<entries, created, active>> /\ open' \in {open, TRUE}
  <2>1. open => open'
    BY <1>2
  <2>2. ASSUME NEW i \in Explore!SubmissionIds PROVE EntryKnows(i, entries[i])'
    BY <1>1, <1>2, <2>1 DEF EntriesInv, EntryKnows
  <2> QED
    BY <1>1, <1>2, <2>2 DEF EntriesInv, CreatedOnce
<1>3. CASE Explore!ClosePicker \/ Explore!StartAnother \/ Explore!ResetAuthority
  <2>1. entries' = Explore!Disallowed(entries) /\ UNCHANGED <<created, active>>
    BY <1>3 DEF Explore!ClosePicker, Explore!StartAnother, Explore!ResetAuthority
  <2> QED
    BY <1>1, <2>1, DisallowedKeeps DEF EntriesInv, EntryKnows
<1>4. CASE Explore!SwitchMap
  <2>1. /\ entries' = Explore!Disallowed(entries) /\ UNCHANGED created
        /\ active'.draft = None
    BY <1>4 DEF Explore!SwitchMap
  <2>2. \A i \in Explore!SubmissionIds : entries[i].draft # None
    BY <1>1, ExploreAssumption DEF EntriesInv, Explore!Entry
  <2> QED
    BY <1>1, <2>1, <2>2, DisallowedKeeps
<1>5. CASE Explore!EditMap
  <2>1. active'.draft = active.draft /\ UNCHANGED <<entries, created, open>>
    BY <1>1, <1>5 DEF Explore!EditMap, ActiveMap
  <2> QED
    BY <1>1, <2>1 DEF EntriesInv, EntryKnows, CreatedOnce
<1> QED
  BY <1>2, <1>3, <1>4, <1>5
     DEF Explore!OpenPicker, Explore!Select, Explore!Offered, Explore!Relisted,
         Explore!Described, Explore!Around, Explore!ReplaceCatalog, Explore!RenewLease,
         Explore!Republish

\* The panel's submission is its own.
LEMMA PanelSubmits ==
  ASSUME RecipeInv, recipePanel # None
  PROVE  /\ recipePanel.id \in Explore!SubmissionIds
         /\ recipePanel.metadata # None => recipePanel.metadata.source \in Sources
<1>1. recipePanel \in Explore!Panels /\ recipePanel.id \in Explore!SubmissionIds
  BY DEF RecipeInv, PickerInv, PickerKnows
<1> QED
  BY <1>1 DEF Explore!Panels

\* A new submission takes a command no other has.
LEMMA EntryCreated ==
  ASSUME RecipeInv, Explore!Create
  PROVE  EntriesInv'
<1>1. EntriesInv /\ active \in ActiveMap /\ rcEpoch \in Nat
  BY DEF RecipeInv, AroundTypes
<1>2. PICK i : i = recipePanel.id
  OBVIOUS
<1>3. /\ i \in Explore!SubmissionIds /\ recipePanel.metadata.source \in Sources /\ open
      /\ UNCHANGED <<active, open, created>>
  BY <1>2, PanelSubmits DEF Explore!Create
<1>4. entries[i] \in Explore!Entry /\ EntryKnows(i, entries[i])
  BY <1>1, <1>3 DEF EntriesInv
<1>5. PICK first : first = [Explore!NoEntry EXCEPT !.stage = "prepare",
                              !.source = recipePanel.metadata.source,
                              !.epoch = rcEpoch, !.original = active, !.allowed = TRUE]
  OBVIOUS
<1>6. PICK again : again = [entries[i] EXCEPT !.stage = "prepare", !.allowed = TRUE]
  OBVIOUS
<1>7. /\ first = [stage |-> "prepare", source |-> recipePanel.metadata.source, epoch |-> rcEpoch,
                  original |-> active, allowed |-> TRUE, request |-> FALSE, sent |-> FALSE,
                  draft |-> 0, tries |-> 0, resolution |-> None]
  BY <1>5 DEF Explore!NoEntry
<1>8. first \in Explore!Entry /\ first.stage = "prepare" /\ first.draft = 0
      /\ first.source \in Sources
  BY <1>1, <1>3, <1>7 DEF Explore!Entry, Explore!Stages, ActiveMap
<1>9. again \in Explore!Entry /\ again.stage = "prepare" /\ again.draft = entries[i].draft
      /\ again.source = entries[i].source
  BY <1>4, <1>6 DEF Explore!Entry, Explore!Stages
<1>10. CASE entries[i].stage = "none"
  <2>1. entries' = [entries EXCEPT ![i] = first]
    BY <1>2, <1>5, <1>10 DEF Explore!Create, EntriesInv
  <2>2. EntryKnows(i, first)'
    BY <1>3, <1>8 DEF EntryKnows
  <2> QED
    BY <1>1, <1>3, <1>8, <2>1, <2>2, EntryTurns
<1>11. CASE entries[i].stage # "none"
  <2>1. entries' = [entries EXCEPT ![i] = again]
    BY <1>2, <1>6, <1>11 DEF Explore!Create, EntriesInv
  <2> QED
    BY <1>1, <1>3, <1>9, <1>11, <2>1, StageTurns
<1> QED
  BY <1>10, <1>11

\* Before the request is sent.
LEMMA EntryAsked ==
  ASSUME RecipeInv,
         \E i \in Explore!SubmissionIds :
           \/ Explore!Prepared(i) \/ Explore!Capable(i) \/ Explore!Rechecked(i)
           \/ Explore!Built(i) \/ Explore!AttachBegins(i)
  PROVE  EntriesInv'
<1>1. EntriesInv /\ AroundTypes
  BY DEF RecipeInv
<1>2. PICK i \in Explore!SubmissionIds :
           \/ Explore!Prepared(i) \/ Explore!Capable(i) \/ Explore!Rechecked(i)
           \/ Explore!Built(i) \/ Explore!AttachBegins(i)
  OBVIOUS
<1>3. PICK e : e = entries[i]
  OBVIOUS
<1>4. e \in Explore!Entry /\ EntryKnows(i, e) /\ e.stage \notin {"none", "idle"}
  BY <1>1, <1>2, <1>3
     DEF EntriesInv, Explore!At, Explore!Prepared, Explore!Capable, Explore!Rechecked,
         Explore!Built, Explore!AttachBegins
<1>5. UNCHANGED <<open, created, active>>
  BY <1>2 DEF Explore!Prepared, Explore!Capable, Explore!Rechecked, Explore!Built,
              Explore!AttachBegins
<1>6. CASE Explore!Rejected(i)
  BY <1>1, <1>3, <1>4, <1>5, <1>6, RejectedKeeps
\* The entry becomes f.
<1>7. ASSUME NEW f \in Explore!Entry, entries' = [entries EXCEPT ![i] = f],
             f.source = e.source, f.draft = e.draft, f.allowed = e.allowed,
             f.stage \in {"list", "read"} => f.resolution # None,
             f.stage \in {"attach", "observe"} => e.stage = "attach"
      PROVE  EntriesInv'
  BY <1>1, <1>3, <1>4, <1>5, <1>7, StageTurns DEF EntryKnows
<1>8. CASE Explore!Prepared(i)
  <2>1. PICK f : f = [e EXCEPT !.stage = IF e.stage = "prepare" /\ ~e.request
                                         THEN "capabilities" ELSE "send",
                               !.original = IF e.request THEN e.original ELSE active]
    OBVIOUS
  <2>2. /\ f \in Explore!Entry /\ f.source = e.source /\ f.draft = e.draft
        /\ f.allowed = e.allowed /\ f.stage \in {"capabilities", "send"}
    BY <1>1, <1>4, <2>1 DEF Explore!Entry, Explore!Stages, AroundTypes, ActiveMap
  <2>3. Explore!Rejected(i) \/ entries' = [entries EXCEPT ![i] = f]
    BY <1>1, <1>3, <1>8, <2>1 DEF Explore!Prepared, EntriesInv
  <2> QED
    BY <1>6, <1>7, <2>2, <2>3
<1>9. CASE Explore!Capable(i)
  <2>1. PICK r : r = Explore!Resolution(e.source)
    OBVIOUS
  <2>2. r \in Explore!Resolutions /\ r # None
    BY <1>1, <1>4, <2>1, ResolutionIs DEF EntryKnows
  <2>3. PICK f : f = [e EXCEPT !.stage = IF Explore!IsStale(e.source) THEN "list" ELSE "read",
                               !.resolution = r]
    OBVIOUS
  <2>4. /\ f \in Explore!Entry /\ f.source = e.source /\ f.draft = e.draft
        /\ f.allowed = e.allowed /\ f.stage \in {"list", "read"} /\ f.resolution = r
    BY <1>4, <2>2, <2>3 DEF Explore!Entry, Explore!Stages
  <2>5. Explore!Rejected(i) \/ entries' = [entries EXCEPT ![i] = f]
    BY <1>1, <1>3, <1>9, <2>1, <2>3 DEF Explore!Capable, EntriesInv
  <2> QED
    BY <1>6, <1>7, <2>2, <2>4, <2>5
<1>10. CASE Explore!Rechecked(i)
  <2>1. PICK r : r = [e.resolution EXCEPT !.choices = Explore!NewListing]
    OBVIOUS
  <2>2. r \in Explore!Resolutions /\ r # None
    <3>1. e.stage = "list"
      BY <1>3, <1>10 DEF Explore!Rechecked, Explore!At
    <3>2. e.resolution \in Explore!Resolutions
      BY <1>4, <3>1 DEF EntryKnows, Explore!Entry
    <3>3. Explore!NewListing \in Nat
      BY <1>1 DEF AroundTypes, Choices, Explore!NewListing
    <3>4. r \in Explore!Resolutions
      BY <2>1, <3>2, <3>3 DEF Explore!Resolutions
    <3> QED
      BY <3>4, ExploreAssumption
  <2>3. PICK f : f = [e EXCEPT !.stage = "read", !.resolution = r]
    OBVIOUS
  <2>4. /\ f \in Explore!Entry /\ f.source = e.source /\ f.draft = e.draft
        /\ f.allowed = e.allowed /\ f.stage = "read" /\ f.resolution = r
    BY <1>4, <2>2, <2>3 DEF Explore!Entry, Explore!Stages
  <2>5. Explore!Rejected(i) \/ entries' = [entries EXCEPT ![i] = f]
    <3>1. CASE entries' = [entries EXCEPT ![i].stage = "read",
                                         ![i].resolution.choices = Explore!NewListing]
      BY <1>1, <1>3, <1>4, <2>1, <2>3, <3>1 DEF EntriesInv, Explore!Entry
    <3> QED
      BY <1>10, <3>1 DEF Explore!Rechecked
  <2> QED
    BY <1>6, <1>7, <2>2, <2>4, <2>5
<1>11. CASE Explore!Built(i)
  <2>1. PICK f : f = [e EXCEPT !.stage = "send", !.request = TRUE, !.resolution = None]
    OBVIOUS
  <2>2. /\ f \in Explore!Entry /\ f.source = e.source /\ f.draft = e.draft
        /\ f.allowed = e.allowed /\ f.stage = "send"
    BY <1>4, <2>1 DEF Explore!Entry, Explore!Stages
  <2>3. Explore!Rejected(i) \/ entries' = [entries EXCEPT ![i] = f]
    BY <1>1, <1>3, <1>11, <2>1 DEF Explore!Built, EntriesInv
  <2> QED
    BY <1>6, <1>7, <2>2, <2>3
<1>12. CASE Explore!AttachBegins(i)
  <2>1. PICK f : f = [e EXCEPT !.stage = "observe"]
    OBVIOUS
  <2>2. /\ f \in Explore!Entry /\ f.source = e.source /\ f.draft = e.draft
        /\ f.allowed = e.allowed /\ f.stage = "observe" /\ e.stage = "attach"
    BY <1>3, <1>4, <1>12, <2>1
       DEF Explore!Entry, Explore!Stages, Explore!AttachBegins, Explore!At
  <2>3. Explore!Rejected(i) \/ entries' = [entries EXCEPT ![i] = f]
    BY <1>1, <1>3, <1>12, <2>1 DEF Explore!AttachBegins, Explore!To, EntriesInv
  <2> QED
    BY <1>6, <1>7, <2>2, <2>3
<1> QED
  BY <1>2, <1>8, <1>9, <1>10, <1>11, <1>12

\* The server creates one draft for a command, and keeps those it made (mock-server.mjs).
LEMMA CreationKeeps ==
  ASSUME EntriesInv, NEW i \in Explore!SubmissionIds, Explore!Creation(i)
  PROVE  /\ CreatedOnce' /\ Len(created) <= Len(created')
         /\ DOMAIN created \subseteq DOMAIN created'
         /\ \A k \in DOMAIN created : created'[k] = created[k]
         /\ \E k \in DOMAIN created' : created'[k] = Explore!CommandId(i)
<1>1. created \in Seq(Explore!SubmissionIds \X {0}) /\ CreatedOnce
  BY DEF EntriesInv, CreatedOnce
<1>2. PICK c : c = Explore!CommandId(i)
  OBVIOUS
<1>3. c \in Explore!SubmissionIds \X {0}
  BY <1>2 DEF Explore!CommandId
<1>4. CASE \E k \in DOMAIN created : created[k] = c
  BY <1>1, <1>2, <1>4 DEF Explore!Creation, CreatedOnce
<1>5. CASE ~\E k \in DOMAIN created : created[k] = c
  <2> HIDE DEF Explore!SubmissionIds
  <2>1. created' = Append(created, c)
    BY <1>2, <1>5 DEF Explore!Creation
  <2>2. /\ created' \in Seq(Explore!SubmissionIds \X {0}) /\ Len(created') = Len(created) + 1
        /\ \A k \in DOMAIN created : created'[k] = created[k]
        /\ created'[Len(created) + 1] = c
        /\ DOMAIN created = 1 .. Len(created) /\ DOMAIN created' = 1 .. Len(created) + 1
        /\ Len(created) \in Nat
    BY <1>1, <1>3, <2>1
  <2>3. CreatedOnce'
    <3> SUFFICES ASSUME NEW j \in DOMAIN created', NEW k \in DOMAIN created',
                        created'[j] = created'[k]
                 PROVE  j = k
      BY <2>2 DEF CreatedOnce
    <3>1. j \in DOMAIN created \/ j = Len(created) + 1
      BY <2>2
    <3>2. k \in DOMAIN created \/ k = Len(created) + 1
      BY <2>2
    <3> QED
      BY <1>1, <1>5, <2>2, <3>1, <3>2 DEF CreatedOnce
  <2> QED
    BY <1>2, <2>2, <2>3
<1> QED
  BY <1>4, <1>5

\* What the others know of their drafts stays true while commands are carried out.
LEMMA EntryCarries ==
  ASSUME EntriesInv, NEW i \in Explore!SubmissionIds, NEW e \in Explore!Entry,
         entries' = [entries EXCEPT ![i] = e], EntryKnows(i, e)', UNCHANGED <<open, active>>,
         UNCHANGED created \/ Explore!Creation(i)
  PROVE  EntriesInv'
<1>1. entries' \in [Explore!SubmissionIds -> Explore!Entry]
  BY DEF EntriesInv
<1>2. /\ CreatedOnce' /\ DOMAIN created \subseteq DOMAIN created'
      /\ \A k \in DOMAIN created : created'[k] = created[k]
  BY CreationKeeps DEF EntriesInv, CreatedOnce
<1>3. ASSUME NEW j \in Explore!SubmissionIds PROVE EntryKnows(j, entries[j])'
  <2>1. CASE j = i
    <3>1. entries'[j] = e
      BY <2>1 DEF EntriesInv
    <3> QED
      BY <2>1, <3>1 DEF EntryKnows
  <2>2. CASE j # i
    <3>1. entries'[j] = entries[j] /\ EntryKnows(j, entries[j])
      BY <2>2 DEF EntriesInv
    <3> QED
      BY <1>2, <3>1 DEF EntryKnows
  <2> QED
    BY <2>1, <2>2
<1> QED
  BY <1>1, <1>2, <1>3 DEF EntriesInv

\* The answer, or its loss.
LEMMA EntrySent ==
  ASSUME RecipeInv,
         \E i \in Explore!SubmissionIds : Explore!Created(i) \/ Explore!CreationLost(i)
  PROVE  EntriesInv'
<1>1. EntriesInv /\ AroundTypes
  BY DEF RecipeInv
<1>2. PICK i \in Explore!SubmissionIds : Explore!Created(i) \/ Explore!CreationLost(i)
  OBVIOUS
<1>3. PICK e : e = entries[i]
  OBVIOUS
<1>4. /\ e \in Explore!Entry /\ EntryKnows(i, e) /\ e.stage = "send"
      /\ UNCHANGED <<open, active>> /\ (UNCHANGED created \/ Explore!Creation(i))
  BY <1>1, <1>2, <1>3
     DEF EntriesInv, Explore!At, Explore!Created, Explore!CreationLost
<1>5. /\ DOMAIN created \subseteq DOMAIN created'
      /\ \A k \in DOMAIN created : created'[k] = created[k]
  BY <1>1, <1>4, CreationKeeps
<1>6. CASE Explore!CreationLost(i)
  <2>1. PICK f : f = [e EXCEPT !.stage = "idle", !.sent = TRUE, !.tries = e.tries + 1]
    OBVIOUS
  <2>2. /\ f \in Explore!Entry /\ f.source = e.source /\ f.draft = e.draft /\ f.stage = "idle"
    <3>1. ASSUME NEW n \in Nat, f = [e EXCEPT !.stage = "idle", !.sent = TRUE, !.tries = n]
          PROVE  /\ f \in Explore!Entry /\ f.source = e.source /\ f.draft = e.draft
                 /\ f.stage = "idle"
      BY <1>4, <3>1 DEF Explore!Entry, Explore!Stages
    <3>2. e.tries + 1 \in Nat
      BY <1>4 DEF Explore!Entry
    <3> QED
      BY <2>1, <3>1, <3>2
  <2>3. entries' = [entries EXCEPT ![i] = f]
    BY <1>1, <1>3, <1>6, <2>1 DEF Explore!CreationLost, EntriesInv
  <2>4. EntryKnows(i, f)'
    BY <1>4, <1>5, <2>2 DEF EntryKnows
  <2> QED
    BY <1>1, <1>4, <2>2, <2>3, <2>4, EntryCarries
<1>7. CASE Explore!Created(i)
  <2>1. PICK d : d = IF e.draft # 0 THEN e.draft ELSE Explore!DraftOf(i)
    OBVIOUS
  <2>2. d \in DOMAIN created' /\ created'[d] = Explore!CommandId(i) /\ d \in Nat \ {0}
    <3>1. d \in DOMAIN created' /\ created'[d] = Explore!CommandId(i)
      <4>1. CASE e.draft # 0
        BY <1>4, <1>5, <2>1, <4>1 DEF EntryKnows
      <4>2. CASE e.draft = 0
        <5>1. Explore!Creation(i)
          BY <1>3, <1>7, <4>2 DEF Explore!Created
        <5>2. \E k \in DOMAIN created' : created'[k] = Explore!CommandId(i)
          BY <1>1, <5>1, CreationKeeps
        <5> QED
          BY <2>1, <4>2, <5>2 DEF Explore!DraftOf
      <4> QED
        BY <4>1, <4>2
    <3>2. created' \in Seq(Explore!SubmissionIds \X {0})
      BY <1>1, <1>4, CreationKeeps DEF EntriesInv, CreatedOnce
    <3>3. \A k \in DOMAIN created' : k \in Nat \ {0}
      <4> HIDE DEF Explore!SubmissionIds
      <4> QED
        BY <3>2
    <3> QED
      BY <3>1, <3>3
  <2>3. PICK stage : stage = IF e.epoch = rcEpoch /\ e.allowed /\ active.draft = d THEN "idle"
                             ELSE IF e.epoch = rcEpoch /\ e.allowed /\ active = e.original
                             THEN "attach" ELSE "idle"
    OBVIOUS
  <2>4. PICK g : g = [e EXCEPT !.draft = d, !.sent = TRUE, !.tries = e.tries + 1]
    OBVIOUS
  <2>5. /\ g \in Explore!Entry /\ g.source = e.source /\ g.draft = d /\ g.epoch = e.epoch
        /\ g.allowed = e.allowed /\ g.original = e.original
    <3>1. ASSUME NEW n \in Nat, NEW k \in Nat,
                 g = [e EXCEPT !.draft = k, !.sent = TRUE, !.tries = n]
          PROVE  /\ g \in Explore!Entry /\ g.source = e.source /\ g.draft = k
                 /\ g.epoch = e.epoch /\ g.allowed = e.allowed /\ g.original = e.original
      BY <1>4, <3>1 DEF Explore!Entry
    <3>2. e.tries + 1 \in Nat /\ d \in Nat
      BY <1>4, <2>2 DEF Explore!Entry
    <3> QED
      BY <2>4, <3>1, <3>2
  <2>6. PICK f : f = [g EXCEPT !.stage = stage]
    OBVIOUS
  <2>7. /\ f \in Explore!Entry /\ f.source = e.source /\ f.draft = d /\ f.allowed = e.allowed
        /\ f.stage = stage
    BY <2>3, <2>5, <2>6 DEF Explore!Entry, Explore!Stages
  <2>8. entries' = [entries EXCEPT ![i] = f]
    <3>1. g = [entries[i] EXCEPT !.draft = IF entries[i].draft # 0 THEN entries[i].draft
                                           ELSE Explore!DraftOf(i),
                                 !.sent = TRUE, !.tries = @ + 1]
      BY <1>3, <2>1, <2>4
    <3>2. entries' = IF g.epoch = rcEpoch /\ g.allowed /\ active.draft = d
                     THEN [entries EXCEPT ![i] = [g EXCEPT !.stage = "idle"]]
                     ELSE [entries EXCEPT ![i] =
                             [g EXCEPT !.stage = IF Explore!MayAttach(g) THEN "attach"
                               ELSE "idle"]]
      BY <1>3, <1>7, <2>1, <3>1 DEF Explore!Created
    <3> QED
      BY <2>3, <2>5, <2>6, <3>2 DEF Explore!MayAttach
  <2>9. EntryKnows(i, f)'
    <3>1. stage \in {"idle", "attach"} /\ (stage = "attach" => e.allowed /\ active.draft # d)
      BY <2>3
    <3> QED
      BY <1>4, <2>2, <2>7, <3>1 DEF EntryKnows
  <2> QED
    BY <1>1, <1>4, <2>7, <2>8, <2>9, EntryCarries
<1> QED
  BY <1>2, <1>6, <1>7

\* A submission that attaches its draft attaches the one its command created.
LEMMA EntryAttached ==
  ASSUME RecipeInv, \E i \in Explore!SubmissionIds : Explore!Attached(i)
  PROVE  EntriesInv'
<1>1. EntriesInv
  BY DEF RecipeInv
<1>2. PICK i \in Explore!SubmissionIds : Explore!Attached(i)
  OBVIOUS
<1>3. PICK e : e = entries[i]
  OBVIOUS
<1>4. /\ e \in Explore!Entry /\ EntryKnows(i, e) /\ e.stage = "observe"
      /\ UNCHANGED <<open, created>>
  BY <1>1, <1>2, <1>3 DEF EntriesInv, Explore!At, Explore!Attached
<1>5. CASE Explore!Rejected(i) /\ UNCHANGED active
  BY <1>1, <1>3, <1>4, <1>5, RejectedKeeps
<1>6. CASE active' = [draft |-> e.draft, generation |-> 1] /\ Explore!Fulfilled(i)
  <2>1. PICK f : f = [e EXCEPT !.stage = "idle"]
    OBVIOUS
  <2>2. f \in Explore!Entry /\ f.source = e.source /\ f.draft = e.draft /\ f.stage = "idle"
    BY <1>4, <2>1 DEF Explore!Entry, Explore!Stages
  <2>3. entries' = [entries EXCEPT ![i] = f]
    BY <1>1, <1>3, <1>6, <2>1 DEF Explore!Fulfilled, EntriesInv
  <2>4. EntryKnows(i, f)'
    BY <1>4, <2>2 DEF EntryKnows
  <2>5. ASSUME NEW j \in Explore!SubmissionIds, j # i PROVE EntryKnows(j, entries[j])'
    <3>1. PICK o : o = entries[j]
      OBVIOUS
    <3>2. EntryKnows(j, o) /\ entries'[j] = o
      BY <1>1, <2>3, <2>5, <3>1 DEF EntriesInv
    <3>3. o.draft # 0 => o.draft # e.draft
      <4>1. Explore!CommandId(i) # Explore!CommandId(j)
        BY <2>5 DEF Explore!CommandId
      <4> QED
        BY <1>4, <3>2, <4>1 DEF EntryKnows
    <3> QED
      BY <1>4, <1>6, <3>2, <3>3 DEF EntryKnows
  <2>6. entries' \in [Explore!SubmissionIds -> Explore!Entry] /\ entries'[i] = f
    BY <1>1, <2>2, <2>3 DEF EntriesInv
  <2>7. EntryKnows(i, entries[i])'
    BY <2>4, <2>6 DEF EntryKnows
  <2> QED
    BY <1>1, <1>4, <2>5, <2>6, <2>7 DEF EntriesInv, CreatedOnce
<1> QED
  BY <1>2, <1>3, <1>5, <1>6 DEF Explore!Attached

\* What every submission knows of its draft stays true under every step.
LEMMA EntriesKeep == ASSUME RecipeInv, Explore!RecipeNext PROVE EntriesInv'
  BY EntriesAside, EntryCreated, EntryAsked, EntrySent, EntryAttached
     DEF Explore!RecipeNext, Explore!User, Explore!Answers

-----------------------------------------------------------------------------
\* The picker.
\* The panel is marked, as busy or accepted, and may take the next id.
LEMMA PanelMarks ==
  ASSUME PickerInv, recipePanel # None, NEW p \in Explore!Panels, recipePanel' = p,
         p.sequence = recipePanel.sequence, p.selected = recipePanel.selected,
         p.metadata = recipePanel.metadata, UNCHANGED discoveries,
         \/ p.id = recipePanel.id /\ UNCHANGED nextId
         \/ /\ nextId \in Explore!SubmissionIds
            /\ p.id = nextId /\ nextId' = nextId + 1
  PROVE  PickerInv'
<1>1. PICK q : q = recipePanel
  OBVIOUS
<1>2. /\ q \in Explore!Panels /\ PickerKnows(q, discoveries) /\ nextId \in 1 .. MaxSubmissions + 1
      /\ \A d \in discoveries : d \in Found /\ d.panel < nextId
  BY <1>1 DEF PickerInv
<1>3. /\ nextId' \in 1 .. MaxSubmissions + 1 /\ nextId <= nextId' /\ p.id < nextId'
      /\ p.id \in Explore!SubmissionIds
  BY <1>1, <1>2, ExploreAssumption DEF PickerKnows, Explore!SubmissionIds
<1>4. \A d \in discoveries : d.panel < nextId'
  <2>1. \A d \in discoveries : d.panel \in Nat
    BY <1>2 DEF Found
  <2> QED
    BY <1>2, <1>3, <2>1
<1>5. \A d \in discoveries : d.panel = p.id => p.id = q.id
  <2>1. \A d \in discoveries : d.panel # nextId
    BY <1>2 DEF Found
  <2> QED
    BY <1>1, <2>1
<1>6. PickerKnows(p, discoveries)'
  BY <1>1, <1>2, <1>3, <1>5 DEF PickerKnows, Follows, OneKind
<1> QED
  BY <1>2, <1>3, <1>4, <1>6 DEF PickerInv

\* What goes on around the panel only puts discoveries out of date.
LEMMA PickerAside ==
  ASSUME RecipeInv, \/ Explore!EditMap \/ Explore!ReplaceCatalog \/ Explore!RenewLease
                    \/ \E s \in Sources : Explore!Republish(s)
                    \/ Explore!SwitchMap \/ Explore!ResetAuthority
  PROVE  PickerInv'
<1>1. PickerInv
  BY DEF RecipeInv
<1>2. CASE Explore!SwitchMap \/ Explore!ResetAuthority
  <2>1. recipePanel' = None /\ discoveries' = {} /\ UNCHANGED nextId
    BY <1>2 DEF Explore!SwitchMap, Explore!ResetAuthority
  <2> QED
    BY <1>1, <2>1 DEF PickerInv
<1>3. CASE UNCHANGED <<recipePanel, discoveries, nextId>>
  BY <1>1, <1>3 DEF PickerInv, PickerKnows
<1> QED
  BY <1>2, <1>3 DEF Explore!EditMap, Explore!ReplaceCatalog, Explore!RenewLease, Explore!Republish

\* What the submissions do to the panel.
LEMMA PanelAnswered ==
  ASSUME RecipeInv,
         \/ Explore!Create
         \/ \E i \in Explore!SubmissionIds :
              \/ Explore!Prepared(i) \/ Explore!Capable(i) \/ Explore!Rechecked(i)
              \/ Explore!Built(i) \/ Explore!Created(i) \/ Explore!CreationLost(i)
              \/ Explore!AttachBegins(i) \/ Explore!Attached(i)
  PROVE  PickerInv'
<1>1. PickerInv
  BY DEF RecipeInv
<1>2. PICK q : q = recipePanel
  OBVIOUS
<1>3. PICK busy : busy = [q EXCEPT !.submitted = TRUE, !.busy = TRUE]
  OBVIOUS
<1>4. PICK free : free = [q EXCEPT !.busy = FALSE]
  OBVIOUS
<1>5. PICK done : done = [q EXCEPT !.busy = FALSE, !.accepted = TRUE]
  OBVIOUS
<1>6. PICK next : next = [q EXCEPT !.busy = FALSE, !.submitted = FALSE, !.id = nextId]
  OBVIOUS
<1>7. UNCHANGED discoveries
  BY DEF Explore!Create, Explore!Prepared, Explore!Capable, Explore!Rechecked, Explore!Built,
         Explore!Created, Explore!CreationLost, Explore!AttachBegins, Explore!Attached
<1>8. \/ UNCHANGED <<recipePanel, nextId>>
      \/ q # None /\ recipePanel' \in {busy, free, done} /\ UNCHANGED nextId
      \/ /\ q # None /\ recipePanel' = next /\ nextId \in Explore!SubmissionIds
         /\ nextId' = nextId + 1
  <2> DEFINE Marked == \/ UNCHANGED <<recipePanel, nextId>>
                       \/ /\ q # None /\ recipePanel' \in {busy, free, done}
                          /\ UNCHANGED nextId
                       \/ /\ q # None /\ recipePanel' = next
                          /\ nextId \in Explore!SubmissionIds /\ nextId' = nextId + 1
  <2>1. ASSUME NEW i, Explore!Rejected(i) PROVE Marked
    BY <1>2, <1>4, <1>6, <2>1 DEF Explore!Rejected
  <2>2. ASSUME NEW i, Explore!Fulfilled(i), UNCHANGED nextId PROVE Marked
    BY <1>2, <1>5, <2>2 DEF Explore!Fulfilled
  <2>3. ASSUME Explore!Create PROVE Marked
    BY <1>2, <1>3, <2>3 DEF Explore!Create
  <2>4. ASSUME NEW i, Explore!Created(i) PROVE Marked
    BY <1>2, <1>4, <1>5, <2>4 DEF Explore!Created
  <2>5. ASSUME NEW i, Explore!CreationLost(i) PROVE Marked
    BY <1>2, <1>4, <2>5 DEF Explore!CreationLost
  <2>6. ASSUME NEW i, \/ Explore!Prepared(i) \/ Explore!Capable(i) \/ Explore!Rechecked(i)
                      \/ Explore!Built(i) \/ Explore!AttachBegins(i) \/ Explore!Attached(i)
        PROVE  \/ UNCHANGED <<recipePanel, nextId>> \/ Explore!Rejected(i)
               \/ Explore!Fulfilled(i) /\ UNCHANGED nextId
    BY <2>6 DEF Explore!Prepared, Explore!Capable, Explore!Rechecked, Explore!Built,
                Explore!AttachBegins, Explore!Attached
  <2> HIDE DEF Marked
  <2>7. Marked
    BY <2>1, <2>2, <2>3, <2>4, <2>5, <2>6 DEF Marked
  <2> QED
    BY <2>7 DEF Marked
<1>9. CASE UNCHANGED <<recipePanel, nextId>>
  BY <1>1, <1>7, <1>9 DEF PickerInv, PickerKnows
<1>10. CASE q # None /\ recipePanel' \in {busy, free, done} /\ UNCHANGED nextId
  <2>1. q \in Explore!Panels
    BY <1>1, <1>2, <1>10 DEF PickerInv
  <2>2. \A p \in {busy, free, done} :
          /\ p \in Explore!Panels /\ p.id = q.id /\ p.sequence = q.sequence
          /\ p.selected = q.selected /\ p.metadata = q.metadata
    BY <1>3, <1>4, <1>5, <2>1 DEF Explore!Panels
  <2> QED
    BY <1>1, <1>2, <1>7, <1>10, <2>2, PanelMarks
<1>11. CASE /\ q # None /\ recipePanel' = next /\ nextId \in Explore!SubmissionIds
            /\ nextId' = nextId + 1
  <2>1. q \in Explore!Panels /\ nextId \in Nat
    BY <1>1, <1>2, <1>11 DEF PickerInv
  <2>2. /\ next \in Explore!Panels /\ next.id = nextId /\ next.sequence = q.sequence
        /\ next.selected = q.selected /\ next.metadata = q.metadata
    BY <1>6, <2>1 DEF Explore!Panels
  <2> QED
    BY <1>1, <1>2, <1>7, <1>11, <2>2, PanelMarks
<1> QED
  BY <1>8, <1>9, <1>10, <1>11

\* A discovery captures the panel, its sequence and what it resolved.
LEMMA DiscoveryIs ==
  ASSUME NEW p \in Explore!Panels, NEW kind \in {"offer", "list", "read"}, NEW r,
         NEW d, d = Explore!Discovery(p, kind, r)
  PROVE  d.panel = p.id /\ d.sequence = p.sequence /\ d.kind = kind /\ d.resolution = r
  BY DEF Explore!Discovery

\* What a panel resolves is of the source it names.
LEMMA ResolutionFound ==
  ASSUME AroundTypes
  PROVE  /\ [source |-> None, epoch |-> rcEpoch, lease |-> lease, was |-> 0, choices |-> 0]
              \in [source : Sources \union {None}, epoch : Nat, lease : Nat, was : Nat,
                   choices : Nat]
         /\ \A s \in Sources : /\ Explore!Resolution(s) \in Explore!Resolutions
                                /\ Explore!Resolution(s).source = s
  BY ResolutionIs DEF AroundTypes, Explore!Resolution

\* The panel p makes fresh requests F; what it asked before is not wanted any more.
LEMMA FreshRequests ==
  ASSUME PickerInv, NEW p \in Explore!Panels, recipePanel' = p,
         p.id \in Explore!SubmissionIds, p.id < nextId',
         nextId' = nextId \/ (nextId' = nextId + 1 /\ nextId \in Explore!SubmissionIds),
         p.metadata # None => p.metadata.source = p.selected,
         \A d \in discoveries : d.panel = p.id => d.sequence < p.sequence,
         NEW F, discoveries' \subseteq discoveries \union F,
         \A d \in F : d \in Found /\ d.panel = p.id /\ d.sequence = p.sequence /\ Follows(d, p),
         \A d, e \in F : d.kind = e.kind
  PROVE  PickerInv'
<1>1. /\ nextId \in 1 .. MaxSubmissions + 1 /\ nextId' \in 1 .. MaxSubmissions + 1
      /\ nextId <= nextId'
  BY ExploreAssumption DEF PickerInv, Explore!SubmissionIds
<1>2. \A d \in discoveries : d \in Found /\ d.panel < nextId
  BY DEF PickerInv
<1>3. discoveries' \subseteq Found
  BY <1>2
<1>4. ASSUME NEW d \in discoveries' PROVE d.panel < nextId'
  <2>1. CASE d \in discoveries
    BY <1>1, <1>2, <2>1 DEF Found
  <2>2. CASE d \in F
    BY <2>2
  <2> QED
    BY <2>1, <2>2
<1>5. ASSUME NEW d \in discoveries' PROVE Follows(d, p)
  <2>1. CASE d \in discoveries
    <3>1. d.sequence \in Nat /\ p.sequence \in Nat
      BY <1>2, <2>1 DEF Found, Explore!Panels
    <3> QED
      BY <2>1, <3>1 DEF Follows
  <2> QED
    BY <2>1
<1>6. ASSUME NEW d \in discoveries', d.panel = p.id, d.sequence = p.sequence PROVE d \in F
  <2>1. d.sequence \in Nat
    BY <1>3 DEF Found
  <2> QED
    BY <1>6, <2>1
<1>7. OneKind(discoveries', p)
  BY <1>6 DEF OneKind
<1>8. PickerKnows(p, discoveries)'
  BY <1>5, <1>7 DEF PickerKnows
<1> QED
  BY <1>1, <1>3, <1>4, <1>8 DEF PickerInv

\* Cancelling takes the next sequence, so every answer under way is late.
LEMMA CancelledIs ==
  ASSUME NEW q \in Explore!Panels, NEW p, p = Explore!Cancelled(q)
  PROVE  /\ p \in Explore!Panels /\ p.id = q.id /\ p.sequence = q.sequence + 1
         /\ p.selected = q.selected /\ p.metadata = q.metadata
<1>1. ASSUME NEW n \in Nat, n = q.sequence + 1, p = [q EXCEPT !.sequence = n]
      PROVE  /\ p \in Explore!Panels /\ p.id = q.id /\ p.sequence = q.sequence + 1
             /\ p.selected = q.selected /\ p.metadata = q.metadata
  BY <1>1 DEF Explore!Panels
<1>2. q.sequence + 1 \in Nat /\ p = [q EXCEPT !.sequence = q.sequence + 1]
  BY DEF Explore!Panels, Explore!Cancelled
<1> QED
  BY <1>1, <1>2

\* A panel that opens has verified nothing and submitted nothing.
LEMMA NewPanelIs ==
  ASSUME nextId \in Nat
  PROVE  /\ Explore!NewPanel \in Explore!Panels /\ Explore!NewPanel.id = nextId
         /\ Explore!NewPanel.metadata = None /\ ~Explore!NewPanel.submitted
         /\ Explore!NewPanel.sequence = 0
<1>1. Explore!Nothing \in Explore!Locators
  BY ExploreAssumption DEF Explore!Nothing, Explore!Locators
<1> QED
  BY <1>1 DEF Explore!NewPanel, Explore!Panels

\* An offer under way is for the panel that asked.
LEMMA OfferFound ==
  ASSUME AroundTypes, NEW p \in Explore!Panels, NEW d,
         d = Explore!Discovery(p, "offer", [source |-> None, epoch |-> rcEpoch, lease |-> lease,
                                            was |-> 0, choices |-> 0])
  PROVE  d \in Found /\ d.panel = p.id /\ d.sequence = p.sequence /\ d.kind = "offer"
<1>1. PICK r : r = [source |-> None, epoch |-> rcEpoch, lease |-> lease, was |-> 0, choices |-> 0]
  OBVIOUS
<1>2. r \in [source : Sources \union {None}, epoch : Nat, lease : Nat, was : Nat, choices : Nat]
  BY <1>1, ResolutionFound
<1>3. d = [panel |-> p.id, sequence |-> p.sequence, kind |-> "offer", resolution |-> r]
  BY <1>1 DEF Explore!Discovery
<1>4. p.id \in Nat /\ p.sequence \in Nat
  BY DEF Explore!Panels
<1> QED
  BY <1>2, <1>3, <1>4 DEF Found

\* Opening the picker: a panel no discovery is for.
LEMMA PickerOpens == ASSUME RecipeInv, Explore!OpenPicker PROVE PickerInv'
<1>1. PickerInv /\ AroundTypes /\ nextId \in Nat
  BY DEF RecipeInv, PickerInv
<1>2. PICK q : q = IF recipePanel = None THEN Explore!NewPanel ELSE recipePanel
  OBVIOUS
<1>3. q \in Explore!Panels
  BY <1>1, <1>2, NewPanelIs DEF PickerInv
<1>4. /\ nextId' = IF recipePanel = None THEN nextId + 1 ELSE nextId
      /\ nextId \in Explore!SubmissionIds \/ recipePanel # None
  BY DEF Explore!OpenPicker
<1>5. CASE recipePanel' = q /\ UNCHANGED discoveries /\ recipePanel # None
  BY <1>1, <1>2, <1>4, <1>5 DEF PickerInv, PickerKnows
<1>6. CASE q.metadata = None /\ Explore!Lists(Explore!Cancelled(q))
  <2>1. PICK p : p = Explore!Cancelled(q)
    OBVIOUS
  <2>2. PICK d : d = Explore!Discovery(p, "offer", [source |-> None, epoch |-> rcEpoch,
                                          lease |-> lease, was |-> 0, choices |-> 0])
    OBVIOUS
  <2>3. recipePanel' = p /\ discoveries' \subseteq discoveries \union {d}
    BY <1>6, <2>1, <2>2 DEF Explore!Lists
  <2>4. /\ p \in Explore!Panels /\ p.id = q.id /\ p.sequence = q.sequence + 1
        /\ p.metadata = None /\ q.sequence \in Nat
    BY <1>3, <1>6, <2>1, CancelledIs DEF Explore!Panels
  <2>5. d \in Found /\ d.panel = p.id /\ d.sequence = p.sequence /\ d.kind = "offer"
    BY <1>1, <2>2, <2>4, OfferFound
  <2>6. Follows(d, p)
    BY <2>4, <2>5 DEF Follows, Explore!Panels
  <2>7. \A e \in discoveries : e.panel = p.id => e.sequence < p.sequence
    <3>1. CASE recipePanel = None
      BY <1>1, <1>2, <2>4, <3>1, NewPanelIs DEF PickerInv, Found
    <3>2. CASE recipePanel # None
      BY <1>1, <1>2, <2>4, <3>2 DEF PickerInv, PickerKnows, Follows, Found
    <3> QED
      BY <3>1, <3>2
  <2>8. p.id \in Explore!SubmissionIds /\ p.id < nextId'
    BY <1>1, <1>2, <1>4, <2>4, NewPanelIs DEF PickerInv, PickerKnows
  <2>9. nextId' = nextId \/ (nextId' = nextId + 1 /\ nextId \in Explore!SubmissionIds)
    BY <1>4
  <2>10. \A e \in {d} : e \in Found /\ e.panel = p.id /\ e.sequence = p.sequence /\ Follows(e, p)
    BY <2>5, <2>6
  <2>11. p \in Explore!Panels /\ (p.metadata # None => p.metadata.source = p.selected)
    BY <2>4
  <2>12. PICK F : F = {d}
    OBVIOUS
  <2>13. recipePanel' = p /\ discoveries' \subseteq discoveries \union F
    BY <2>3, <2>12
  <2>14. /\ \A e \in F : e \in Found /\ e.panel = p.id /\ e.sequence = p.sequence /\ Follows(e, p)
         /\ \A e, f \in F : e.kind = f.kind
    BY <2>10, <2>12
  <2> QED
    BY <1>1, <2>7, <2>8, <2>9, <2>11, <2>13, <2>14, FreshRequests
<1>7. (q.metadata = None /\ ~q.submitted) \/ recipePanel # None
  BY <1>1, <1>2, NewPanelIs
<1>8. recipePanel = None => ~\E d \in discoveries : Explore!Wanted(d)
  BY DEF Explore!Wanted
<1> QED
  BY <1>2, <1>5, <1>6, <1>7, <1>8 DEF Explore!OpenPicker

\* Closing it: no panel, so no answer finds its own.
LEMMA PickerCloses == ASSUME RecipeInv, Explore!ClosePicker PROVE PickerInv'
<1>1. PickerInv
  BY DEF RecipeInv
<1>2. UNCHANGED <<discoveries, nextId>>
  BY DEF Explore!ClosePicker
<1>3. CASE recipePanel = None
  BY <1>1, <1>2, <1>3 DEF Explore!ClosePicker, PickerInv
<1>4. CASE recipePanel # None
  <2>1. PICK q : q = recipePanel
    OBVIOUS
  <2>2. PICK p : p = Explore!Cancelled(q)
    OBVIOUS
  <2>3. q \in Explore!Panels /\ PickerKnows(q, discoveries) /\ recipePanel' = p
    BY <1>1, <1>4, <2>1, <2>2 DEF Explore!ClosePicker, PickerInv
  <2>4. /\ p \in Explore!Panels /\ p.id = q.id /\ p.sequence = q.sequence + 1
        /\ p.metadata = q.metadata /\ p.selected = q.selected /\ q.sequence \in Nat
    BY <2>2, <2>3, CancelledIs DEF Explore!Panels
  <2>5. \A e \in discoveries : e.panel = p.id => e.sequence < p.sequence
    BY <1>1, <2>3, <2>4 DEF PickerInv, PickerKnows, Follows, Found
  <2>6. p.id \in Explore!SubmissionIds /\ p.id < nextId'
    BY <1>2, <2>3, <2>4 DEF PickerKnows
  <2>7. p.metadata # None => p.metadata.source = p.selected
    BY <2>3, <2>4 DEF PickerKnows
  <2>8. PICK F : F = {}
    OBVIOUS
  <2>9. discoveries' \subseteq discoveries \union F /\ UNCHANGED nextId
    BY <1>2, <2>8
  <2>10. /\ \A e \in F : e \in Found /\ e.panel = p.id /\ e.sequence = p.sequence /\ Follows(e, p)
         /\ \A e, f \in F : e.kind = f.kind
    BY <2>8
  <2>11. p \in Explore!Panels /\ recipePanel' = p
    BY <2>3, <2>4
  <2> QED
    BY <1>1, <2>5, <2>6, <2>7, <2>9, <2>10, <2>11, FreshRequests
<1> QED
  BY <1>3, <1>4

\* Starting another: the panel is a new one.
LEMMA AnotherStarts == ASSUME RecipeInv, Explore!StartAnother PROVE PickerInv'
<1>1. PickerInv /\ AroundTypes /\ nextId \in Nat
  BY DEF RecipeInv, PickerInv
<1>2. PICK p : p = Explore!Cancelled(Explore!NewPanel)
  OBVIOUS
<1>3. PICK d : d = Explore!Discovery(p, "offer", [source |-> None, epoch |-> rcEpoch,
                                        lease |-> lease, was |-> 0, choices |-> 0])
  OBVIOUS
<1>4. /\ recipePanel' = p /\ discoveries' = {d} /\ nextId' = nextId + 1
      /\ nextId \in Explore!SubmissionIds
  BY <1>2, <1>3 DEF Explore!StartAnother
<1>5. /\ p \in Explore!Panels /\ p.id = nextId /\ p.sequence = 1 /\ p.metadata = None
  BY <1>1, <1>2, CancelledIs, NewPanelIs
<1>6. d \in Found /\ d.panel = p.id /\ d.sequence = p.sequence /\ d.kind = "offer"
  BY <1>1, <1>3, <1>5, OfferFound
<1>7. Follows(d, p)
  BY <1>5, <1>6 DEF Follows
<1>8. \A e \in discoveries : e.panel # p.id
  BY <1>1, <1>5 DEF PickerInv, Found
<1> QED
  BY <1>1, <1>4, <1>5, <1>6, <1>7, <1>8, FreshRequests

\* Selecting a source cancels what was asked of the one before.
LEMMA SourceSelected == ASSUME RecipeInv, NEW s \in Sources, Explore!Select(s) PROVE PickerInv'
<1>1. PickerInv /\ AroundTypes
  BY DEF RecipeInv
<1>2. PICK q : q = recipePanel
  OBVIOUS
<1>3. PICK c : c = Explore!Cancelled(q)
  OBVIOUS
<1>4. PICK p : p = [c EXCEPT !.selected = s, !.metadata = None]
  OBVIOUS
<1>5. PICK kind : kind = IF Explore!IsStale(s) THEN "list" ELSE "read"
  OBVIOUS
<1>6. PICK d : d = Explore!Discovery(p, kind, Explore!Resolution(s))
  OBVIOUS
<1>7. /\ recipePanel' = p /\ discoveries' \subseteq discoveries \union {d} /\ UNCHANGED nextId
      /\ recipePanel # None
  BY <1>2, <1>3, <1>4, <1>5, <1>6 DEF Explore!Select
<1>8. q \in Explore!Panels /\ PickerKnows(q, discoveries) /\ q.sequence \in Nat
  BY <1>1, <1>2, <1>7 DEF PickerInv, Explore!Panels
<1>9. /\ p \in Explore!Panels /\ p.id = q.id /\ p.sequence = q.sequence + 1
      /\ p.metadata = None /\ p.selected = s
  <2>1. c \in Explore!Panels /\ c.id = q.id /\ c.sequence = q.sequence + 1
    BY <1>3, <1>8, CancelledIs
  <2> QED
    BY <1>4, <2>1 DEF Explore!Panels
<1>10. /\ d \in Found /\ d.panel = p.id /\ d.sequence = p.sequence /\ d.kind # "offer"
       /\ d.resolution.source = s
  <2>1. PICK r : r = Explore!Resolution(s)
    OBVIOUS
  <2>2. d = [panel |-> p.id, sequence |-> p.sequence, kind |-> kind, resolution |-> r]
    BY <1>6, <2>1 DEF Explore!Discovery
  <2>3. r \in Explore!Resolutions /\ r.source = s
    BY <1>1, <2>1, ResolutionFound
  <2>4. p.id \in Nat /\ p.sequence \in Nat /\ kind \in {"list", "read"}
    BY <1>5, <1>9 DEF Explore!Panels
  <2> QED
    BY <2>2, <2>3, <2>4 DEF Found, Explore!Resolutions
<1>11. Follows(d, p)
  BY <1>8, <1>9, <1>10 DEF Follows
<1>12. \A e \in discoveries : e.panel = p.id => e.sequence < p.sequence
  BY <1>1, <1>8, <1>9 DEF PickerInv, PickerKnows, Follows, Found
<1>13. p.id \in Explore!SubmissionIds /\ p.id < nextId'
  BY <1>7, <1>8, <1>9 DEF PickerKnows
<1>14. PICK F : F = {d}
  OBVIOUS
<1>15. discoveries' \subseteq discoveries \union F /\ UNCHANGED nextId /\ recipePanel' = p
  BY <1>7, <1>14
<1>16. /\ \A e \in F : e \in Found /\ e.panel = p.id /\ e.sequence = p.sequence /\ Follows(e, p)
       /\ \A e, f \in F : e.kind = f.kind
  BY <1>10, <1>11, <1>14
<1>17. p \in Explore!Panels /\ (p.metadata # None => p.metadata.source = p.selected)
  BY <1>9
<1> QED
  BY <1>1, <1>12, <1>13, <1>15, <1>16, <1>17, FreshRequests

\* An answer for the panel leaves its requests, or ends them.
LEMMA PickerAnswered ==
  ASSUME RecipeInv, NEW d \in discoveries, Explore!Offered(d) \/ Explore!Described(d)
  PROVE  PickerInv'
<1>1. PickerInv /\ AroundTypes
  BY DEF RecipeInv
<1>2. PICK q : q = recipePanel
  OBVIOUS
<1>3. discoveries' = discoveries \ {d} /\ UNCHANGED nextId
  BY DEF Explore!Offered, Explore!Described
\* The panel becomes p.
<1>4. ASSUME q # None, NEW p \in Explore!Panels, recipePanel' = p, p.id = q.id,
             p.sequence = q.sequence, p.metadata # None => p.metadata.source = p.selected,
             \A e \in discoveries \ {d} : Follows(e, p)
      PROVE  PickerInv'
  <2>1. PickerKnows(q, discoveries)
    BY <1>1, <1>2, <1>4 DEF PickerInv
  <2>2. OneKind(discoveries \ {d}, p)
    BY <1>4, <2>1 DEF PickerKnows, OneKind
  <2>3. PickerKnows(p, discoveries)'
    BY <1>3, <1>4, <2>1, <2>2 DEF PickerKnows
  <2> QED
    BY <1>1, <1>3, <1>4, <2>3 DEF PickerInv
<1>5. CASE recipePanel' = recipePanel
  <2>1. CASE q = None
    BY <1>1, <1>2, <1>3, <1>5, <2>1 DEF PickerInv
  <2>2. CASE q # None
    <3>1. q \in Explore!Panels /\ PickerKnows(q, discoveries)
      BY <1>1, <1>2, <2>2 DEF PickerInv
    <3> QED
      BY <1>2, <1>4, <1>5, <2>2, <3>1 DEF PickerKnows
  <2> QED
    BY <2>1, <2>2
<1>6. ASSUME recipePanel' # recipePanel
      PROVE  /\ q # None /\ d.panel = q.id /\ d.sequence = q.sequence /\ q \in Explore!Panels
             /\ PickerKnows(q, discoveries) /\ Follows(d, q)
             /\ \A e \in discoveries : e.panel = q.id /\ e.sequence = q.sequence =>
                  (d.kind = "offer" <=> e.kind = "offer")
  <2>1. Explore!Wanted(d)
    BY <1>6 DEF Explore!Offered, Explore!Described
  <2>2. q # None /\ d.panel = q.id /\ d.sequence = q.sequence
    BY <1>2, <2>1 DEF Explore!Wanted
  <2> QED
    BY <1>1, <1>2, <2>2 DEF PickerInv, PickerKnows, OneKind
<1>7. CASE Explore!Offered(d) /\ recipePanel' # recipePanel
  <2>1. PICK p : p = [q EXCEPT !.offered = located, !.selected = None]
    OBVIOUS
  <2>2. recipePanel' = p /\ d.kind = "offer"
    BY <1>2, <1>7, <2>1 DEF Explore!Offered
  <2>3. located \in Explore!Locators
    BY <1>1 DEF AroundTypes
  <2>4. p \in Explore!Panels /\ p.id = q.id /\ p.sequence = q.sequence /\ p.metadata = q.metadata
    BY <1>6, <1>7, <2>1, <2>3 DEF Explore!Panels
  <2>5. p.metadata = None
    BY <1>6, <1>7, <2>2, <2>4 DEF Follows
  <2>6. ASSUME NEW e \in discoveries PROVE Follows(e, p)
    BY <1>6, <1>7, <2>2, <2>4, <2>5 DEF PickerKnows, Follows
  <2> QED
    BY <1>4, <1>6, <1>7, <2>2, <2>4, <2>5, <2>6
<1>8. CASE Explore!Described(d) /\ recipePanel' # recipePanel
  <2>1. PICK l : l = choices.listed[d.resolution.source]
    OBVIOUS
  <2>2. PICK p : p = [q EXCEPT !.metadata = [source |-> d.resolution.source, locator |-> l]]
    OBVIOUS
  <2>3. recipePanel' = p /\ d.kind = "read"
    BY <1>2, <1>8, <2>1, <2>2 DEF Explore!Described
  <2>4. d.resolution.source = q.selected /\ q.selected \in Sources
    BY <1>6, <1>8, <2>3 DEF Follows
  <2>5. l \in Nat
    BY <1>1, <2>1, <2>4, ExploreAssumption DEF AroundTypes, Choices, Explore!Locators
  <2>6. /\ p \in Explore!Panels /\ p.id = q.id /\ p.sequence = q.sequence
        /\ p.selected = q.selected /\ p.metadata.source = q.selected
    BY <1>6, <1>8, <2>2, <2>4, <2>5 DEF Explore!Panels
  <2>7. ASSUME NEW e \in discoveries PROVE Follows(e, p)
    BY <1>6, <1>8, <2>3, <2>6 DEF PickerKnows, Follows
  <2> QED
    BY <1>4, <1>6, <1>8, <2>3, <2>6, <2>7
<1> QED
  BY <1>5, <1>7, <1>8

\* A listing that arrives in time is taken with the request it belongs to.
LEMMA PickerRelists ==
  ASSUME RecipeInv, NEW d \in discoveries, Explore!Relisted(d)
  PROVE  PickerInv'
<1>1. PickerInv /\ AroundTypes
  BY DEF RecipeInv
<1>2. PICK r : r = [d.resolution EXCEPT !.choices = Explore!NewListing]
  OBVIOUS
<1>3. PICK e : e = [d EXCEPT !.kind = "read", !.resolution = r]
  OBVIOUS
<1>4. /\ e \in Found /\ e.panel = d.panel /\ e.sequence = d.sequence /\ e.kind = "read"
      /\ e.resolution.source = d.resolution.source
  <2>1. d \in Found /\ Explore!NewListing \in Nat
    BY <1>1 DEF PickerInv, AroundTypes, Choices, Explore!NewListing
  <2>2. ASSUME NEW n \in Nat, r = [d.resolution EXCEPT !.choices = n]
        PROVE  /\ r \in [source : Sources \union {None}, epoch : Nat, lease : Nat, was : Nat,
                         choices : Nat]
               /\ r.source = d.resolution.source
    BY <2>1, <2>2 DEF Found
  <2>3. /\ r \in [source : Sources \union {None}, epoch : Nat, lease : Nat, was : Nat,
                   choices : Nat]
        /\ r.source = d.resolution.source
    BY <1>2, <2>1, <2>2
  <2> QED
    BY <1>3, <2>1, <2>3 DEF Found
<1>5. d.kind = "list" /\ discoveries' \subseteq (discoveries \ {d}) \union {e}
      /\ UNCHANGED <<recipePanel, nextId>>
  <2>1. e = [d EXCEPT !.kind = "read", !.resolution.choices = Explore!NewListing]
    BY <1>1, <1>2, <1>3 DEF PickerInv, Found
  <2> QED
    BY <2>1 DEF Explore!Relisted
<1>6. discoveries' \subseteq Found /\ \A f \in discoveries' : f.panel < nextId'
  BY <1>1, <1>4, <1>5 DEF PickerInv
<1>7. ASSUME recipePanel # None PROVE PickerKnows(recipePanel, discoveries)'
  <2>1. PICK q : q = recipePanel
    OBVIOUS
  <2>2. PickerKnows(q, discoveries)
    BY <1>1, <1>7, <2>1 DEF PickerInv
  <2>3. Follows(d, q) => Follows(e, q)
    BY <1>4, <1>5 DEF Follows
  <2>4. ASSUME NEW f \in discoveries' PROVE Follows(f, q)
    BY <1>5, <2>2, <2>3 DEF PickerKnows
  <2>5. OneKind(discoveries', q)
    BY <1>4, <1>5, <2>2 DEF PickerKnows, OneKind
  <2>6. PickerKnows(q, discoveries)'
    BY <1>5, <2>2, <2>4, <2>5 DEF PickerKnows
  <2> QED
    BY <1>5, <2>1, <2>6
<1> QED
  BY <1>1, <1>5, <1>6, <1>7 DEF PickerInv

\* What the panel verified stays about the source it selected, under every step.
LEMMA PickerKeeps == ASSUME RecipeInv, Explore!RecipeNext PROVE PickerInv'
  BY PanelAnswered, PickerAside, PickerOpens, PickerCloses, AnotherStarts, SourceSelected,
     PickerAnswered, PickerRelists
     DEF Explore!RecipeNext, Explore!User, Explore!Answers, Explore!Around

\* Every step keeps the invariant.
LEMMA RecipeInvNext == RecipeInv /\ [Explore!RecipeNext]_(Explore!recipeVars) => RecipeInv'
<1> SUFFICES ASSUME RecipeInv, [Explore!RecipeNext]_(Explore!recipeVars) PROVE RecipeInv'
  OBVIOUS
<1>1. CASE Explore!RecipeNext
  BY <1>1, AroundKeeps, EntriesKeep, PickerKeeps DEF RecipeInv
<1>2. CASE UNCHANGED Explore!recipeVars
  <2>1. UNCHANGED <<rcEpoch, lease, active, located, recipeCatalog, choices, recipePanel, open,
                    discoveries, entries, revoked, created, nextId, moves>>
    BY <1>2 DEF Explore!recipeVars
  <2>2. AroundTypes'
    BY <2>1 DEF RecipeInv, AroundTypes
  <2>3. EntriesInv'
    BY <2>1 DEF RecipeInv, EntriesInv, EntryKnows, CreatedOnce
  <2>4. PickerInv'
    BY <2>1 DEF RecipeInv, PickerInv, PickerKnows
  <2> QED
    BY <2>2, <2>3, <2>4 DEF RecipeInv
<1> QED
  BY <1>1, <1>2

\* The invariant implies what the run checks.
LEMMA RecipeInvImplies ==
  RecipeInv => /\ Explore!RecipeTypeOK /\ Explore!OneDraftPerSubmission
               /\ Explore!MetadataIsOfSelection
<1> SUFFICES ASSUME RecipeInv
             PROVE  /\ Explore!RecipeTypeOK /\ Explore!OneDraftPerSubmission
                    /\ Explore!MetadataIsOfSelection
  OBVIOUS
<1>1. Explore!RecipeTypeOK
  BY DEF RecipeInv, AroundTypes, EntriesInv, PickerInv, Explore!RecipeTypeOK, ActiveMap, Choices
<1>2. Explore!OneDraftPerSubmission
  <2> HIDE DEF Explore!SubmissionIds
  <2>1. created \in Seq(Explore!SubmissionIds \X {0}) /\ CreatedOnce
    BY DEF RecipeInv, EntriesInv, CreatedOnce
  <2>2. \A k \in DOMAIN created : created[k] = <<created[k][1], 0>>
    BY <2>1
  <2> QED
    BY <2>1, <2>2 DEF CreatedOnce, Explore!OneDraftPerSubmission
<1>3. Explore!MetadataIsOfSelection
  BY DEF RecipeInv, PickerInv, PickerKnows, Explore!MetadataIsOfSelection
<1> QED
  BY <1>1, <1>2, <1>3

\* A draft that is attached replaces the map its request was made on.
LEMMA AttachesOverTheOriginal ==
  ASSUME RecipeInv, [Explore!RecipeNext]_(Explore!recipeVars), NEW i \in Explore!SubmissionIds,
         Explore!At(i, "observe"), active'.draft = entries[i].draft, active' # active
  PROVE  active = entries[i].original /\ open /\ rcEpoch = entries[i].epoch
<1>1. EntryKnows(i, entries[i]) /\ entries[i] \in Explore!Entry /\ active \in ActiveMap
  BY DEF RecipeInv, EntriesInv, AroundTypes
<1>2. /\ active.draft # entries[i].draft /\ entries[i].draft # None /\ entries[i].draft # 0
  BY <1>1, ExploreAssumption DEF EntryKnows, Explore!Entry, Explore!At
<1>3. Explore!RecipeNext
  BY DEF Explore!recipeVars
<1>4. ~Explore!SwitchMap /\ ~Explore!EditMap
  BY <1>1, <1>2 DEF Explore!SwitchMap, Explore!EditMap, ActiveMap
<1>5. PICK j \in Explore!SubmissionIds : Explore!Attached(j)
  BY <1>3, <1>4, AroundMoves
<1>6. /\ active' = [draft |-> entries[j].draft, generation |-> 1] /\ Explore!MayAttach(entries[j])
      /\ Explore!At(j, "observe")
  BY <1>5 DEF Explore!Attached
<1>7. i = j
  <2>1. EntryKnows(j, entries[j])
    BY DEF RecipeInv, EntriesInv
  <2>2. entries[j].draft = entries[i].draft
    BY <1>6
  <2>3. Explore!CommandId(i) = Explore!CommandId(j)
    BY <1>1, <1>2, <2>1, <2>2 DEF EntryKnows
  <2> QED
    BY <2>3 DEF Explore!CommandId
<1> QED
  BY <1>1, <1>6, <1>7 DEF Explore!MayAttach, EntryKnows, Explore!At

\* One submission makes one draft, and what is verified is what is selected.
THEOREM RecipesKeepTheirOwn ==
  Explore!RecipeSpec => /\ [](/\ Explore!RecipeTypeOK /\ Explore!OneDraftPerSubmission
                             /\ Explore!MetadataIsOfSelection)
                        /\ Explore!OnlyOverTheOriginalMap
<1>1. Explore!RecipeSpec => []RecipeInv
  BY RecipeInvInit, RecipeInvNext, PTL DEF Explore!RecipeSpec
<1>2. RecipeInv /\ [Explore!RecipeNext]_(Explore!recipeVars) =>
        [\A i \in Explore!SubmissionIds :
           Explore!At(i, "observe") /\ active'.draft = entries[i].draft /\ active' # active
             => /\ active = entries[i].original
                /\ open /\ rcEpoch = entries[i].epoch]_(Explore!recipeVars)
  BY AttachesOverTheOriginal
<1> QED
  BY <1>1, <1>2, RecipeInvImplies, PTL DEF Explore!RecipeSpec, Explore!OnlyOverTheOriginalMap

(***************************************************************************)
(* Publication: one submission per review, and the view that was saved.    *)
(*                                                                         *)
(* The queue runs its calls one at a time in order, a call's step says what*)
(* it knows of the drafts and versions it is about, and every publication  *)
(* and every request at the server is pinned to the input of its review,   *)
(* which a later confirmation may not change.  So its request is           *)
(* found again by its command and version.                                 *)
(***************************************************************************)
PubCall == Publishing!Call
PubStored == Publishing!Stored
PubSubmission == [input : Inputs \union {None}, pending : Calls \union {None}]
PubRequest == [version : 1 .. MaxVersions, input : Inputs, review : Calls]
PubProposal == [version : 1 .. MaxVersions, open : BOOLEAN]

ClientTyped ==
  /\ pubEpoch \in Nat /\ pubTrouble \in 0 .. MaxDisturbances /\ editPending \in BOOLEAN
  /\ binding \in [id : Nat, draft : Nat \union {None}]
  /\ binding.draft \in DOMAIN drafts \union {None}

CallsTyped ==
  /\ queue \in Seq(Calls)
  /\ calls \in [Calls -> PubCall]
  /\ submissions \in [Calls -> PubSubmission]

ServerTyped ==
  /\ drafts \in Seq(PubStored) /\ versions \in Seq(PubStored) /\ Len(versions) <= MaxVersions
  /\ current \in [Items -> 0 .. Len(versions)] /\ published \in [Items -> 0 .. Len(versions)]
  /\ requests \in Seq(PubRequest)
  /\ proposals \in Seq(PubProposal)
  /\ \A k \in DOMAIN proposals : proposals[k].version \in DOMAIN versions

PubTypes == ClientTyped /\ CallsTyped /\ ServerTyped

Running == {"view", "viewed", "version", "draft", "check", "send", "observe"}

\* The queue runs the calls one at a time, in its order.
QueueRuns ==
  /\ \A i, j \in DOMAIN queue : queue[i] = queue[j] => i = j
  /\ \A i \in DOMAIN queue :
       IF i = 1 THEN calls[queue[i]].step \in Running \union {"queued"}
       ELSE calls[queue[i]].step = "queued"
  /\ \A c \in Calls : calls[c].step \in Running => queue # <<>> /\ queue[1] = c

\* The version v is of the draft d and has c's view, if there was a camera to take it from.
Holds(v, c, d, camera) ==
  /\ v \in DOMAIN versions /\ versions[v].item = drafts[d].item
  /\ camera => versions[v].view \in {c, "other"}

CallKnows(c, e) ==
  /\ e.op = "none" => e.step \in {"idle", "failed"}
  /\ e.op \in {"save", "review", "reopen", "attach"} => e.draft \in DOMAIN drafts
  /\ e.step = "observe" => e.op \in {"attach", "reopen"}
  /\ e.op \in {"review", "reopen"} => e.version \in DOMAIN versions
  /\ e.op = "save" /\ e.step = "viewed" /\ e.camera => drafts[e.draft].view \in {c, "other"}
  /\ e.op = "save" /\ e.step = "version" => Holds(e.version, c, e.draft, e.camera)
  /\ e.op = "save" /\ e.step = "done" => Holds(e.result, c, e.draft, e.camera)

CallsKnow == \A c \in Calls : CallKnows(c, calls[c])

\* The review r is done, of version v, and its submission is pinned to input n.
Pinned(r, v, n) ==
  /\ r \in Calls /\ calls[r].op = "review" /\ calls[r].step = "done" /\ calls[r].version = v
  /\ n \in Inputs /\ submissions[r].input = n

PublishesPinned ==
  \A c \in Calls : calls[c].op = "publish" /\ calls[c].step # "joined"
                     => Pinned(calls[c].review, calls[c].version, calls[c].input)

RequestsPinned ==
  \A i \in DOMAIN requests : Pinned(requests[i].review, requests[i].version, requests[i].input)

PubInv ==
  /\ PubTypes /\ QueueRuns /\ CallsKnow /\ PublishesPinned /\ RequestsPinned
  /\ Publishing!OneSubmission

-----------------------------------------------------------------------------
(* Records *)

LEMMA CallFields ==
  ASSUME NEW e \in PubCall
  PROVE  /\ e.op \in Publishing!Operations \union {"none"} /\ e.step \in Publishing!Steps
         /\ e.epoch \in Nat /\ e.binding \in Nat /\ e.draft \in Nat \union {None}
              /\ e.version \in Nat
         /\ e.review \in Calls \union {None} /\ e.input \in Inputs \union {None}
         /\ e.behind \in SUBSET Calls /\ e.result \in Nat /\ e.camera \in BOOLEAN
  BY DEF PubCall, Publishing!Call

\* An idle client call.
LEMMA NoCallIs ==
  /\ Publishing!NoCall \in PubCall /\ Publishing!NoCall.op = "none"
       /\ Publishing!NoCall.step = "idle"
  BY DEF PubCall, Publishing!Call, Publishing!NoCall, Publishing!Operations, Publishing!Steps

\* A call that moves keeps everything else.
LEMMA CallSteps ==
  ASSUME NEW e \in PubCall, NEW s \in Publishing!Steps
  PROVE  /\ [e EXCEPT !.step = s] \in PubCall
         /\ [e EXCEPT !.step = s].step = s /\ [e EXCEPT !.step = s].op = e.op
         /\ [e EXCEPT !.step = s].draft = e.draft /\ [e EXCEPT !.step = s].version = e.version
         /\ [e EXCEPT !.step = s].review = e.review /\ [e EXCEPT !.step = s].input = e.input
         /\ [e EXCEPT !.step = s].result = e.result /\ [e EXCEPT !.step = s].camera = e.camera
  BY DEF PubCall, Publishing!Call

\* A call that failed is about nothing any more.
LEMMA FailedIs ==
  LET e == [Publishing!NoCall EXCEPT !.step = "failed"]
  IN  e \in PubCall /\ e.op = "none" /\ e.step = "failed"
<1>1. "failed" \in Publishing!Steps
  BY DEF Publishing!Steps
<1> QED
  BY <1>1, NoCallIs, CallSteps

DoneCall(e, n) == [e EXCEPT !.step = "done", !.result = n]

\* A call that is done keeps what it was about and has a result.
LEMMA DoneIs ==
  ASSUME NEW e \in PubCall, NEW n \in Nat, NEW f, f = DoneCall(e, n)
  PROVE  /\ f \in PubCall /\ f.step = "done" /\ f.result = n
         /\ f.op = e.op /\ f.draft = e.draft /\ f.version = e.version /\ f.review = e.review
         /\ f.input = e.input /\ f.camera = e.camera
  BY DEF PubCall, Publishing!Call, Publishing!Steps, DoneCall

\* A call starts with the draft bound when it was asked.
LEMMA AskedIs ==
  ASSUME PubTypes, NEW op \in Publishing!Operations, NEW e, e = Publishing!Asked(op)
  PROVE  /\ e \in PubCall /\ e.op = op /\ e.step = "prepare" /\ e.draft = binding.draft
<1>1. PICK behind \in SUBSET Calls : behind = {queue[i] : i \in DOMAIN queue}
  <2>1. \A i \in DOMAIN queue : queue[i] \in Calls
    BY DEF PubTypes, ClientTyped, CallsTyped, ServerTyped
  <2> QED BY <2>1
<1>2. pubEpoch \in Nat /\ binding.id \in Nat /\ binding.draft \in Nat \union {None}
  BY DEF PubTypes, ClientTyped, CallsTyped, ServerTyped
<1>3. PICK id \in Nat, draft \in Nat \union {None} : id = binding.id /\ draft = binding.draft
  BY <1>2
<1>4. e = [op |-> op, step |-> "prepare", epoch |-> pubEpoch, binding |-> id, draft |-> draft,
           version |-> 0, review |-> None, input |-> None, behind |-> behind, result |-> 0,
           camera |-> FALSE]
  BY <1>1, <1>3 DEF Publishing!Asked, Publishing!NoCall
<1>5. e \in PubCall
  BY <1>2, <1>4 DEF PubCall, Publishing!Call, Publishing!Steps
<1> QED
  BY <1>3, <1>4, <1>5

\* What a sequence of stored drafts or versions holds.
LEMMA StoredAre ==
  ASSUME NEW s \in Seq(PubStored)
  PROVE  /\ Len(s) \in Nat /\ DOMAIN s = 1 .. Len(s)
         /\ \A i \in DOMAIN s : s[i] \in PubStored
<1> HIDE DEF PubStored
<1> QED OBVIOUS

\* Replacing a place of a sequence gives a sequence.
LEMMA PlaceSet ==
  ASSUME NEW S, NEW s \in Seq(S), NEW k \in DOMAIN s, NEW r \in S, NEW t, t = [s EXCEPT ![k] = r]
  PROVE  t \in Seq(S)
OBVIOUS

\* A stored record is added behind those that stay.
LEMMA StoredGrow ==
  ASSUME NEW s \in Seq(PubStored), NEW e \in PubStored, NEW t, t = Append(s, e)
  PROVE  /\ t \in Seq(PubStored) /\ Len(t) = Len(s) + 1 /\ DOMAIN t = 1 .. Len(s) + 1
         /\ t[Len(s) + 1] = e /\ \A i \in DOMAIN s : i \in DOMAIN t /\ t[i] = s[i]
<1> HIDE DEF PubStored
<1> QED OBVIOUS

-----------------------------------------------------------------------------
(* The queue *)

\* c becomes e, and its place in the queue follows.
QueueFollows(c, e) ==
  \/ /\ queue' = queue
     /\ calls[c].step \in {"idle", "prepare"} /\ e.step \notin Running
  \/ /\ queue' = Append(queue, c)
     /\ calls[c].step \in {"idle", "prepare"} /\ e.step = "queued"
  \/ /\ queue' = queue /\ queue # <<>> /\ queue[1] = c /\ e.step \in Running
  \/ /\ queue' = Tail(queue) /\ queue # <<>> /\ queue[1] = c /\ e.step \in {"done", "failed"}

\* The queue runs its calls one at a time, in the order in which they were asked.
LEMMA QueueKept ==
  ASSUME PubInv, NEW c \in Calls, NEW e \in PubCall, calls' = [calls EXCEPT ![c] = e],
           QueueFollows(c, e)
  PROVE  QueueRuns' /\ queue' \in Seq(Calls)
<1>0. queue \in Seq(Calls) /\ calls \in [Calls -> PubCall]
  BY DEF PubInv, PubTypes, ClientTyped, CallsTyped, ServerTyped
<1>1. calls'[c] = e /\ \A x \in Calls : x # c => calls'[x] = calls[x]
  BY <1>0
<1>2. /\ \A i, j \in DOMAIN queue : queue[i] = queue[j] => i = j
      /\ \A i \in DOMAIN queue : queue[i] \in Calls /\
           IF i = 1 THEN calls[queue[i]].step \in Running \union {"queued"}
           ELSE calls[queue[i]].step = "queued"
      /\ \A x \in Calls : calls[x].step \in Running => queue # <<>> /\ queue[1] = x
      /\ Len(queue) \in Nat /\ DOMAIN queue = 1 .. Len(queue)
  BY <1>0 DEF PubInv, QueueRuns
<1>3. CASE /\ queue' = queue
           /\ calls[c].step \in {"idle", "prepare"} /\ e.step \notin Running
  <2>1. \A i \in DOMAIN queue : queue[i] # c
    BY <1>2, <1>3 DEF Running
  <2> QED BY <1>0, <1>1, <1>2, <1>3, <2>1 DEF QueueRuns
<1>4. CASE /\ queue' = Append(queue, c)
           /\ calls[c].step \in {"idle", "prepare"} /\ e.step = "queued"
  <2>1. \A i \in DOMAIN queue : queue[i] # c
    BY <1>2, <1>4 DEF Running
  <2>2. /\ queue' \in Seq(Calls) /\ DOMAIN queue' = 1 .. Len(queue) + 1
        /\ queue'[Len(queue) + 1] = c
        /\ \A i \in DOMAIN queue : queue'[i] = queue[i]
    BY <1>0, <1>4
  <2>3. \A i, j \in DOMAIN queue' : queue'[i] = queue'[j] => i = j
    BY <1>2, <2>1, <2>2
  <2>4. \A i \in DOMAIN queue' :
          IF i = 1 THEN calls'[queue'[i]].step \in Running \union {"queued"}
          ELSE calls'[queue'[i]].step = "queued"
    BY <1>1, <1>2, <1>4, <2>1, <2>2
  <2>5. \A x \in Calls : calls'[x].step \in Running => queue' # <<>> /\ queue'[1] = x
    <3>1. e.step \notin Running
      BY <1>4 DEF Running
    <3>2. ASSUME NEW x \in Calls, calls'[x].step \in Running
          PROVE  queue' # <<>> /\ queue'[1] = x
      <4>1. x # c /\ calls[x].step \in Running
        BY <1>1, <3>1, <3>2
      <4>2. queue # <<>> /\ queue[1] = x /\ 1 \in DOMAIN queue
        BY <1>0, <1>2, <4>1
      <4> QED BY <2>2, <4>2
    <3> QED BY <3>2
  <2> QED BY <2>2, <2>3, <2>4, <2>5 DEF QueueRuns
<1>5. CASE queue' = queue /\ queue # <<>> /\ queue[1] = c /\ e.step \in Running
  <2>1. 1 \in DOMAIN queue /\ \A i \in DOMAIN queue : i # 1 => queue[i] # c
    BY <1>0, <1>2, <1>5
  <2>2. \A i \in DOMAIN queue' :
          IF i = 1 THEN calls'[queue'[i]].step \in Running \union {"queued"}
          ELSE calls'[queue'[i]].step = "queued"
    BY <1>1, <1>2, <1>5, <2>1
  <2>3. \A x \in Calls : calls'[x].step \in Running => queue' # <<>> /\ queue'[1] = x
    BY <1>1, <1>2, <1>5
  <2> QED BY <1>0, <1>2, <1>5, <2>2, <2>3 DEF QueueRuns
<1>6. CASE queue' = Tail(queue) /\ queue # <<>> /\ queue[1] = c /\ e.step \in {"done", "failed"}
  <2>1. 1 \in DOMAIN queue /\ \A i \in DOMAIN queue : i # 1 => queue[i] # c
    BY <1>0, <1>2, <1>6
  <2>2. /\ queue' \in Seq(Calls) /\ DOMAIN queue' = 1 .. Len(queue) - 1
        /\ \A i \in 1 .. Len(queue) - 1 : queue'[i] = queue[i + 1]
    BY <1>0, <1>6
  <2>3. \A i \in DOMAIN queue' : i + 1 \in DOMAIN queue /\ i + 1 # 1 /\ queue'[i] = queue[i + 1]
    BY <1>2, <2>2
  <2>4. \A i, j \in DOMAIN queue' : queue'[i] = queue'[j] => i = j
    BY <1>2, <2>2, <2>3
  <2>5. \A i \in DOMAIN queue' : calls'[queue'[i]].step = "queued"
    BY <1>1, <1>2, <2>1, <2>3
  <2>6. \A x \in Calls : calls'[x].step \notin Running
    BY <1>1, <1>2, <1>6 DEF Running
  <2> QED BY <2>2, <2>4, <2>5, <2>6 DEF QueueRuns
<1> QED
  BY <1>3, <1>4, <1>5, <1>6 DEF QueueFollows

-----------------------------------------------------------------------------
(* A call's step *)

StoreGrows ==
  /\ \A d \in DOMAIN drafts : d \in DOMAIN drafts' /\ drafts'[d].item = drafts[d].item
  /\ \A v \in DOMAIN versions : v \in DOMAIN versions' /\ versions'[v] = versions[v]

SubmissionsStay ==
  \A r \in Calls : submissions[r].input # None => submissions'[r].input = submissions[r].input

\* A request is one more, of a pinned submission the requests do not hold.
RequestsFollow ==
  \/ requests' = requests
  \/ \E q : /\ q \in PubRequest /\ requests' = Append(requests, q)
       /\ Pinned(q.review, q.version, q.input)
           /\ \A i \in DOMAIN requests :
                ~(requests[i].input = q.input /\ requests[i].version = q.version)

\* What a sequence of requests holds.
LEMMA RequestsAre ==
  ASSUME NEW s \in Seq(PubRequest)
  PROVE  /\ Len(s) \in Nat /\ DOMAIN s = 1 .. Len(s)
         /\ \A i \in DOMAIN s : s[i] \in PubRequest
<1> HIDE DEF PubRequest
<1> QED OBVIOUS

\* A request is added beside those that stay.
LEMMA RequestsGrow ==
  ASSUME NEW s \in Seq(PubRequest), NEW q \in PubRequest, NEW t, t = Append(s, q)
  PROVE  \E k : /\ k \notin DOMAIN s /\ DOMAIN t = DOMAIN s \union {k} /\ t[k] = q
           /\ t \in Seq(PubRequest)
               /\ \A i \in DOMAIN s : t[i] = s[i]
<1> HIDE DEF PubRequest
<1>1. Len(s) + 1 \notin DOMAIN s /\ DOMAIN t = DOMAIN s \union {Len(s) + 1}
  OBVIOUS
<1> QED BY <1>1

\* What a submission pins stays pinned while one call that is not done moves.
LEMMA PinsStay ==
  ASSUME PubInv, NEW c \in Calls, NEW e \in PubCall, calls' = [calls EXCEPT ![c] = e],
         calls[c].step # "done", SubmissionsStay
  PROVE  \A r, v, n : Pinned(r, v, n) => Pinned(r, v, n)'
<1>1. \A x \in Calls : x # c => calls'[x] = calls[x]
  BY DEF PubInv, PubTypes, ClientTyped, CallsTyped, ServerTyped
<1>2. \A n \in Inputs : n # None
  BY PublishingAssumption
<1> QED BY <1>1, <1>2 DEF Pinned, SubmissionsStay

\* If pins stay and a new request is pinned and the first of its submission, one submission
\* leads to one request.
LEMMA RequestsKept ==
  ASSUME PubInv, \A r, v, n : Pinned(r, v, n) => Pinned(r, v, n)', RequestsFollow
  PROVE  RequestsPinned' /\ Publishing!OneSubmission' /\ requests' \in Seq(PubRequest)
<1>0. requests \in Seq(PubRequest)
  BY DEF PubInv, PubTypes, ClientTyped, CallsTyped, ServerTyped
<1>1. CASE requests' = requests
  BY <1>0, <1>1 DEF PubInv, RequestsPinned, Publishing!OneSubmission
<1>2. CASE requests' # requests
  <2>1. PICK q : /\ q \in PubRequest /\ requests' = Append(requests, q)
             /\ Pinned(q.review, q.version, q.input)
           /\ \A i \in DOMAIN requests :
                ~(requests[i].input = q.input /\ requests[i].version = q.version)
    BY <1>2 DEF RequestsFollow
  <2>2. PICK k : /\ k \notin DOMAIN requests /\ DOMAIN requests' = DOMAIN requests \union {k}
                 /\ requests'[k] = q /\ requests' \in Seq(PubRequest)
                 /\ \A i \in DOMAIN requests : requests'[i] = requests[i]
    BY <1>0, <2>1, RequestsGrow
  <2>3. \A i \in DOMAIN requests :
          Pinned(requests[i].review, requests[i].version, requests[i].input)
    BY DEF PubInv, RequestsPinned
  <2>4. \A i \in DOMAIN requests : requests[i].review # q.review
    BY <2>1, <2>3 DEF Pinned
  <2>5. RequestsPinned'
    <3>1. ASSUME NEW i \in DOMAIN requests', NEW z, z = requests'[i]
          PROVE  Pinned(z.review, z.version, z.input)'
      BY <2>1, <2>2, <2>3, <3>1
    <3> QED BY <3>1 DEF RequestsPinned
  <2>6. Publishing!OneSubmission'
    <3>1. \A i, j \in DOMAIN requests : requests[i].review = requests[j].review => i = j
      BY DEF PubInv, Publishing!OneSubmission
    <3>2. \A i, j \in DOMAIN requests' : requests'[i].review = requests'[j].review => i = j
      BY <2>2, <2>4, <3>1
    <3> QED BY <3>2 DEF Publishing!OneSubmission
  <2> QED BY <2>2, <2>5, <2>6
<1> QED BY <1>1, <1>2

\* The obligation of every step that moves one call: what the call knows next, what the store
\* keeps and what is pinned.
LEMMA CallStepKeeps ==
  ASSUME PubInv, PubTypes', NEW c \in Calls, NEW e \in PubCall, calls' = [calls EXCEPT ![c] = e],
         QueueFollows(c, e), calls[c].step # "done", StoreGrows, SubmissionsStay, RequestsFollow,
         (\A d \in DOMAIN drafts : drafts'[d].view = drafts[d].view) \/ calls[c].step \in Running,
         CallKnows(c, e)',
         e.op = "publish" /\ e.step # "joined" => Pinned(e.review, e.version, e.input)'
  PROVE  PubInv'
<1>1. calls'[c] = e /\ \A x \in Calls : x # c => calls'[x] = calls[x]
  BY DEF PubInv, PubTypes, ClientTyped, CallsTyped, ServerTyped
<1>2. QueueRuns'
  BY QueueKept
<1>3. \A r, v, n : Pinned(r, v, n) => Pinned(r, v, n)'
  BY PinsStay
<1>4. RequestsPinned' /\ Publishing!OneSubmission'
  BY <1>3, RequestsKept
<1>5. PublishesPinned'
  <2>1. ASSUME NEW x \in Calls, NEW z, z = calls'[x], z.op = "publish", z.step # "joined"
        PROVE  Pinned(z.review, z.version, z.input)'
    <3>1. CASE x = c
      BY <1>1, <2>1, <3>1
    <3>2. CASE x # c
      BY <1>1, <1>3, <2>1, <3>2 DEF PubInv, PublishesPinned
    <3> QED BY <3>1, <3>2
  <2> QED BY <2>1 DEF PublishesPinned
<1>6. CallsKnow'
  <2>1. ASSUME NEW x \in Calls, NEW z, z = calls'[x]
        PROVE  CallKnows(x, z)'
    <3>1. CASE x = c
      BY <1>1, <2>1, <3>1
    <3>2. CASE x # c
      <4>1. z = calls[x] /\ CallKnows(x, z)
        BY <1>1, <2>1, <3>2 DEF PubInv, CallsKnow
      <4>2. z.step = "viewed" => \A d \in DOMAIN drafts : drafts'[d].view = drafts[d].view
        <5>1. calls[x].step \in Running => queue[1] = x
          BY DEF PubInv, QueueRuns
        <5>2. calls[c].step \in Running => queue[1] = c
          BY DEF PubInv, QueueRuns
        <5> QED BY <3>2, <4>1, <5>1, <5>2 DEF Running
      <4> QED BY <4>1, <4>2 DEF CallKnows, Holds, StoreGrows
    <3> QED BY <3>1, <3>2
  <2> QED BY <2>1 DEF CallsKnow
<1> QED
  BY <1>2, <1>4, <1>5, <1>6 DEF PubInv

-----------------------------------------------------------------------------
(* The calls' own steps *)

LEMMA EndsIs ==
  ASSUME PubInv, NEW c \in Calls, NEW e \in PubCall, Publishing!EndsWith(c, e),
           e.step \in {"done", "failed"},
         calls[c].step \in {"prepare"} \union Running \/ (queue # <<>> /\ Head(queue) = c)
  PROVE  /\ calls' = [calls EXCEPT ![c] = e] /\ QueueFollows(c, e)
         /\ submissions' \in [Calls -> PubSubmission] /\ SubmissionsStay
<1>0. queue \in Seq(Calls) /\ submissions \in [Calls -> PubSubmission]
  BY DEF PubInv, PubTypes, CallsTyped
<1>1. queue # <<>> => Head(queue) = queue[1] /\ 1 \in DOMAIN queue
  BY <1>0
<1>2. QueueFollows(c, e)
  <2>1. CASE calls[c].step = "prepare"
    <3>1. ~(queue # <<>> /\ Head(queue) = c)
      BY <1>1, <2>1 DEF PubInv, QueueRuns, Running
    <3> QED BY <2>1, <3>1 DEF Publishing!EndsWith, QueueFollows, Running
  <2>2. CASE calls[c].step # "prepare"
    <3>1. queue # <<>> /\ Head(queue) = c
      BY <1>1, <2>2 DEF PubInv, QueueRuns
    <3> QED BY <1>1, <3>1 DEF Publishing!EndsWith, QueueFollows
  <2> QED BY <2>1, <2>2
<1>3. submissions' = [r \in Calls |-> IF submissions[r].pending = c
                                      THEN [submissions[r] EXCEPT !.pending = None]
                                      ELSE submissions[r]]
  BY DEF Publishing!EndsWith
<1>4. ASSUME NEW r \in Calls
      PROVE  submissions'[r] \in PubSubmission /\ submissions'[r].input = submissions[r].input
  <2>1. PICK u \in PubSubmission : u = submissions[r]
    BY <1>0
  <2>2. [u EXCEPT !.pending = None] \in PubSubmission
        /\ [u EXCEPT !.pending = None].input = u.input
    BY DEF PubSubmission
  <2> QED BY <1>3, <2>1, <2>2
<1>5. submissions' \in [Calls -> PubSubmission]
  BY <1>3, <1>4
<1> QED
  BY <1>2, <1>4, <1>5 DEF Publishing!EndsWith, SubmissionsStay

\* A call's step that leaves the server alone.
LEMMA QuietStep ==
  ASSUME PubInv, ClientTyped',
           UNCHANGED <<drafts, versions, current, published, requests, proposals>>,
         NEW c \in Calls, NEW e \in PubCall, calls' = [calls EXCEPT ![c] = e],
         QueueFollows(c, e), calls[c].step # "done",
         submissions' \in [Calls -> PubSubmission], SubmissionsStay, CallKnows(c, e),
         e.op = "publish" /\ e.step # "joined" => Pinned(e.review, e.version, e.input)'
  PROVE  PubInv'
<1>1. PubTypes'
  <2>1. queue' \in Seq(Calls)
    BY QueueKept
  <2>2. calls' \in [Calls -> PubCall]
    BY DEF PubInv, PubTypes, CallsTyped
  <2>3. ServerTyped'
    BY DEF PubInv, PubTypes, ServerTyped
  <2> QED BY <2>1, <2>2, <2>3 DEF PubTypes, CallsTyped
<1>2. StoreGrows /\ RequestsFollow /\ \A d \in DOMAIN drafts : drafts'[d].view = drafts[d].view
  BY DEF StoreGrows, RequestsFollow
<1>3. CallKnows(c, e)'
  BY DEF CallKnows, Holds
<1> QED
  BY <1>1, <1>2, <1>3, CallStepKeeps

\* A call that failed knows nothing and publishes nothing.
LEMMA FailStep ==
  ASSUME PubInv, ClientTyped',
           UNCHANGED <<drafts, versions, current, published, requests, proposals>>,
         NEW c \in Calls, Publishing!Fails(c),
         calls[c].step \in {"prepare"} \union Running \/ (queue # <<>> /\ Head(queue) = c),
         calls[c].step # "done"
  PROVE  PubInv'
<1>1. PICK e : e = [Publishing!NoCall EXCEPT !.step = "failed"]
  OBVIOUS
<1>2. e \in PubCall /\ e.op = "none" /\ e.step = "failed"
  BY <1>1, FailedIs
<1>3. Publishing!EndsWith(c, e)
  BY <1>1 DEF Publishing!Fails
<1>4. /\ calls' = [calls EXCEPT ![c] = e] /\ QueueFollows(c, e)
      /\ submissions' \in [Calls -> PubSubmission] /\ SubmissionsStay
  BY <1>2, <1>3, EndsIs
<1>5. CallKnows(c, e)
  BY <1>2 DEF CallKnows
<1> QED
  BY <1>2, <1>4, <1>5, QuietStep

\* The client's side stays typed when it does not move.
LEMMA SameClient ==
  ASSUME PubInv, UNCHANGED <<pubEpoch, binding, editPending, pubTrouble, drafts>>
  PROVE  ClientTyped'
  BY DEF PubInv, PubTypes, ClientTyped

\* What the invariant says of one call.
LEMMA CallOf ==
  ASSUME PubInv, NEW c \in Calls
  PROVE  /\ calls[c] \in PubCall /\ CallKnows(c, calls[c])
         /\ calls[c].op = "publish" /\ calls[c].step # "joined"
              => Pinned(calls[c].review, calls[c].version, calls[c].input)
         /\ \A e : [calls EXCEPT ![c] = e][c] = e
  BY DEF PubInv, PubTypes, CallsTyped, CallsKnow, PublishesPinned

\* A call that has its turn goes on to a step at which it knows no more.
LEMMA GoesOn ==
  ASSUME PubInv, UNCHANGED <<pubEpoch, binding, editPending, pubTrouble>>,
         UNCHANGED <<drafts, versions, current, published, requests, proposals, submissions,
           queue>>,
         NEW c \in Calls, NEW step, Publishing!To(c, step),
         step \in {"view", "draft", "check", "send", "observe", "version"},
         step = "version" => calls[c].op # "save",
         step = "observe" => calls[c].op \in {"attach", "reopen"},
         queue # <<>> /\ queue[1] = c
  PROVE  PubInv'
<1>1. PICK u \in PubCall : u = calls[c] /\ CallKnows(c, u)
                          /\ (u.op = "publish" /\ u.step # "joined" =>
                               Pinned(u.review, u.version, u.input))
  BY CallOf
<1>2. step \in Publishing!Steps /\ step \in Running /\ step \notin {"viewed", "done", "joined"}
  BY DEF Publishing!Steps, Running
<1>3. PICK e : e = [u EXCEPT !.step = step]
  OBVIOUS
<1>4. /\ e \in PubCall /\ e.step = step /\ e.op = u.op /\ e.draft = u.draft
         /\ e.version = u.version
      /\ e.review = u.review /\ e.input = u.input /\ e.result = u.result
  BY <1>2, <1>3, CallSteps
<1>5. calls' = [calls EXCEPT ![c] = e]
  BY <1>1, <1>3 DEF Publishing!To
<1>6. QueueFollows(c, e)
  BY <1>2, <1>4 DEF QueueFollows
<1>7. submissions' \in [Calls -> PubSubmission] /\ SubmissionsStay
  BY DEF PubInv, PubTypes, CallsTyped, SubmissionsStay
<1>8. u.step \in Running \union {"queued"} /\ u.step \notin {"done", "joined"}
  <2>1. queue \in Seq(Calls)
    BY DEF PubInv, PubTypes, CallsTyped
  <2>2. 1 \in DOMAIN queue
    BY <2>1
  <2> QED BY <1>1, <2>2 DEF PubInv, QueueRuns, Running
<1>9. CallKnows(c, e)
  BY <1>1, <1>2, <1>4, <1>8 DEF CallKnows, Running
<1>10. e.op = "publish" /\ e.step # "joined" => Pinned(e.review, e.version, e.input)'
  BY <1>1, <1>4, <1>5, <1>7, <1>8, PinsStay
<1> QED
  BY <1>1, <1>4, <1>5, <1>6, <1>7, <1>8, <1>9, <1>10, SameClient, QuietStep

\* A call that has its turn succeeds.
LEMMA DoneStep ==
  ASSUME PubInv, ClientTyped',
           UNCHANGED <<drafts, versions, current, published, requests, proposals>>,
         NEW c \in Calls, NEW n \in Nat, Publishing!Succeeds(c, n), calls[c].step \in Running,
         calls[c].op = "save" => Holds(n, c, calls[c].draft, calls[c].camera)
  PROVE  PubInv'
<1>1. PICK u \in PubCall : u = calls[c] /\ CallKnows(c, u)
                          /\ (u.op = "publish" /\ u.step # "joined" =>
                               Pinned(u.review, u.version, u.input))
  BY CallOf
<1>2. PICK e : e = DoneCall(u, n)
  OBVIOUS
<1>3. /\ e \in PubCall /\ e.step = "done" /\ e.result = n
      /\ e.op = u.op /\ e.draft = u.draft /\ e.version = u.version /\ e.review = u.review
      /\ e.input = u.input /\ e.camera = u.camera
  BY <1>2, DoneIs
<1>4. Publishing!EndsWith(c, e)
  BY <1>1, <1>2 DEF Publishing!Succeeds, DoneCall
<1>5. /\ calls' = [calls EXCEPT ![c] = e] /\ QueueFollows(c, e)
      /\ submissions' \in [Calls -> PubSubmission] /\ SubmissionsStay
  BY <1>3, <1>4, EndsIs
<1>6. CallKnows(c, e)
  BY <1>1, <1>3 DEF CallKnows, Running
<1>7. u.step \notin {"done", "joined"}
  BY <1>1 DEF Running
<1>8. e.op = "publish" /\ e.step # "joined" => Pinned(e.review, e.version, e.input)'
  BY <1>1, <1>3, <1>5, <1>7, PinsStay
<1> QED
  BY <1>1, <1>3, <1>5, <1>6, <1>7, <1>8, QuietStep

-----------------------------------------------------------------------------
(* Asking *)

\* A call that begins, before it has a turn in the queue or with the first one.
LEMMA AskStep ==
  ASSUME PubInv, UNCHANGED <<pubEpoch, binding, editPending, pubTrouble>>,
         UNCHANGED <<drafts, versions, current, published, requests, proposals>>,
         NEW c \in Calls, NEW e \in PubCall, calls[c] = Publishing!NoCall,
           calls' = [calls EXCEPT ![c] = e],
         \/ queue' = queue /\ e.step \in {"prepare", "joined"}
         \/ queue' = Append(queue, c) /\ e.step = "queued",
         submissions' \in [Calls -> PubSubmission], SubmissionsStay, CallKnows(c, e),
         e.op = "publish" /\ e.step # "joined" => Pinned(e.review, e.version, e.input)'
  PROVE  PubInv'
<1>1. calls[c].step = "idle"
  BY NoCallIs
<1>2. QueueFollows(c, e)
  BY <1>1 DEF QueueFollows, Running
<1>3. calls[c].step # "done"
  BY <1>1
<1> QED
  BY <1>2, <1>3, SameClient, QuietStep

\* Asking for a save.
LEMMA SaveAsked ==
  ASSUME PubInv, NEW c \in Calls, Publishing!AskSave(c)
  PROVE  PubInv'
<1>1. PICK e : e = Publishing!Asked("save")
  OBVIOUS
<1>2. "save" \in Publishing!Operations /\ PubTypes
  BY DEF Publishing!Operations, PubInv
<1>3. e \in PubCall /\ e.op = "save" /\ e.step = "prepare" /\ e.draft = binding.draft
  BY <1>1, <1>2, AskedIs
<1>4. binding.draft \in DOMAIN drafts
  BY DEF Publishing!AskSave, PubInv, PubTypes, ClientTyped
<1>5. CallKnows(c, e)
  BY <1>3, <1>4 DEF CallKnows
<1>6. submissions' \in [Calls -> PubSubmission] /\ SubmissionsStay
  BY DEF PubInv, PubTypes, CallsTyped, SubmissionsStay, Publishing!AskSave
<1>7. /\ calls[c] = Publishing!NoCall /\ calls' = [calls EXCEPT ![c] = e] /\ queue' = queue
      /\ UNCHANGED <<pubEpoch, binding, editPending, pubTrouble>>
      /\ UNCHANGED <<drafts, versions, current, published, requests, proposals>>
  BY <1>1 DEF Publishing!AskSave, Publishing!clientVars, Publishing!serverVars
<1> QED
  BY <1>3, <1>5, <1>6, <1>7, AskStep

\* Asking for a review or for the reopening of a version.
LEMMA AboutAsked ==
  ASSUME PubInv, NEW c \in Calls, NEW op, NEW v, Publishing!AskAbout(c, op, v)
  PROVE  PubInv'
<1>1. PICK f : f = Publishing!Asked(op)
  OBVIOUS
<1>2. op \in {"review", "reopen"} /\ op \in Publishing!Operations /\ PubTypes
  BY DEF Publishing!Operations, PubInv, Publishing!AskAbout
<1>3. f \in PubCall /\ f.op = op /\ f.step = "prepare" /\ f.draft = binding.draft
  BY <1>1, <1>2, AskedIs
<1>4. binding.draft \in DOMAIN drafts /\ v \in DOMAIN versions /\ v \in Nat
  BY StoredAre DEF Publishing!AskAbout, PubInv, PubTypes, ClientTyped, ServerTyped
<1>5. PICK e : e = [f EXCEPT !.version = v]
  OBVIOUS
<1>6. e \in PubCall /\ e.op = op /\ e.step = "prepare" /\ e.draft = binding.draft /\ e.version = v
  BY <1>3, <1>4, <1>5 DEF PubCall, Publishing!Call
<1>7. CallKnows(c, e)
  BY <1>2, <1>4, <1>6 DEF CallKnows
<1>8. submissions' \in [Calls -> PubSubmission] /\ SubmissionsStay
  BY DEF PubInv, PubTypes, CallsTyped, SubmissionsStay, Publishing!AskAbout
<1>9. /\ calls[c] = Publishing!NoCall /\ calls' = [calls EXCEPT ![c] = e] /\ queue' = queue
      /\ UNCHANGED <<pubEpoch, binding, editPending, pubTrouble>>
      /\ UNCHANGED <<drafts, versions, current, published, requests, proposals>>
  BY <1>1, <1>5 DEF Publishing!AskAbout, Publishing!clientVars, Publishing!serverVars
<1> QED
  BY <1>2, <1>6, <1>7, <1>8, <1>9, AskStep

\* Asking to attach a draft.
LEMMA AttachAsked ==
  ASSUME PubInv, NEW c \in Calls, NEW d, Publishing!AskAttach(c, d)
  PROVE  PubInv'
<1>1. PICK f : f = Publishing!Asked("attach")
  OBVIOUS
<1>2. "attach" \in Publishing!Operations /\ PubTypes
  BY DEF Publishing!Operations, PubInv
<1>3. f \in PubCall /\ f.op = "attach"
  BY <1>1, <1>2, AskedIs
<1>4. d \in DOMAIN drafts /\ d \in Nat
  BY StoredAre DEF Publishing!AskAttach, PubInv, PubTypes, ServerTyped
<1>5. PICK e : e = [f EXCEPT !.step = "queued", !.draft = d]
  OBVIOUS
<1>6. e \in PubCall /\ e.op = "attach" /\ e.step = "queued" /\ e.draft = d
  BY <1>3, <1>4, <1>5 DEF PubCall, Publishing!Call, Publishing!Steps
<1>7. CallKnows(c, e)
  BY <1>4, <1>6 DEF CallKnows
<1>8. submissions' \in [Calls -> PubSubmission] /\ SubmissionsStay
  BY DEF PubInv, PubTypes, CallsTyped, SubmissionsStay, Publishing!AskAttach
<1>9. /\ calls[c] = Publishing!NoCall /\ calls' = [calls EXCEPT ![c] = e]
         /\ queue' = Append(queue, c)
      /\ UNCHANGED <<pubEpoch, binding, editPending, pubTrouble>>
      /\ UNCHANGED <<drafts, versions, current, published, requests, proposals>>
  BY <1>1, <1>5 DEF Publishing!AskAttach, Publishing!clientVars, Publishing!serverVars
<1> QED
  BY <1>6, <1>7, <1>8, <1>9, AskStep

\* Confirming a review: its submission is pinned to the first confirmation, which a second
\* one joins.
LEMMA PublishAsked ==
  ASSUME PubInv, NEW c \in Calls, NEW r \in Calls, NEW input \in Inputs,
           Publishing!AskPublish(c, r, input)
  PROVE  PubInv'
<1>0. /\ calls[c] = Publishing!NoCall
      /\ calls[r].op = "review" /\ calls[r].step = "done"
      /\ submissions[r].input \in {None, input}
      /\ queue' = queue
      /\ UNCHANGED <<pubEpoch, binding, editPending, pubTrouble>>
      /\ UNCHANGED <<drafts, versions, current, published, requests, proposals>>
  BY DEF Publishing!AskPublish, Publishing!clientVars, Publishing!serverVars, Publishing!MayPin
<1>1. CASE submissions[r].pending # None
  <2>1. PICK e : e = [Publishing!NoCall EXCEPT !.op = "publish", !.step = "joined"]
    OBVIOUS
  <2>2. e \in PubCall /\ e.op = "publish" /\ e.step = "joined"
    BY <2>1, NoCallIs DEF PubCall, Publishing!Call, Publishing!Operations, Publishing!Steps
  <2>3. CallKnows(c, e)
    BY <2>2 DEF CallKnows
  <2>4. calls' = [calls EXCEPT ![c] = e] /\ submissions' = submissions
    BY <1>1, <2>1 DEF Publishing!AskPublish
  <2>5. submissions' \in [Calls -> PubSubmission] /\ SubmissionsStay
    BY <2>4 DEF PubInv, PubTypes, CallsTyped, SubmissionsStay
  <2> QED BY <1>0, <2>2, <2>3, <2>4, <2>5, AskStep
<1>2. CASE submissions[r].pending = None
  <2>1. PICK f : f = Publishing!Asked("publish")
    OBVIOUS
  <2>2. "publish" \in Publishing!Operations /\ PubTypes
    BY DEF Publishing!Operations, PubInv
  <2>3. f \in PubCall /\ f.op = "publish" /\ f.step = "prepare"
    BY <2>1, <2>2, AskedIs
  <2>4. PICK v \in Nat : v = calls[r].version
    BY CallOf, CallFields
  <2>5. PICK e : e = [f EXCEPT !.review = r, !.input = input, !.version = v]
    OBVIOUS
  <2>6. /\ e \in PubCall /\ e.op = "publish" /\ e.step = "prepare" /\ e.review = r
           /\ e.input = input
        /\ e.version = v
    BY <2>3, <2>5 DEF PubCall, Publishing!Call
  <2>7. CallKnows(c, e)
    BY <2>6 DEF CallKnows
  <2>8. PICK u : u = [input |-> input, pending |-> c]
    OBVIOUS
  <2>9. u \in PubSubmission /\ u.input = input
    BY <2>8 DEF PubSubmission
  <2>10. calls' = [calls EXCEPT ![c] = e] /\ submissions' = [submissions EXCEPT ![r] = u]
    BY <1>2, <2>1, <2>4, <2>5, <2>8 DEF Publishing!AskPublish
  <2>11. submissions \in [Calls -> PubSubmission] /\ calls \in [Calls -> PubCall]
    BY DEF PubInv, PubTypes, CallsTyped
  <2>12. submissions' \in [Calls -> PubSubmission] /\ SubmissionsStay
         /\ submissions'[r].input = input
    BY <1>0, <2>9, <2>10, <2>11 DEF SubmissionsStay
  <2>13. calls'[r] = calls[r]
    BY <1>0, <2>10, <2>11, NoCallIs
  <2>14. Pinned(r, v, input)'
    BY <1>0, <2>4, <2>12, <2>13 DEF Pinned
  <2> QED BY <1>0, <2>6, <2>7, <2>10, <2>12, <2>14, AskStep
<1> QED BY <1>1, <1>2

-----------------------------------------------------------------------------
(* Waiting and having the turn *)

LEMMA RunningIsHead ==
  ASSUME PubInv, NEW c \in Calls, calls[c].step \in Running
  PROVE  queue # <<>> /\ queue[1] = c
  BY DEF PubInv, QueueRuns

\* The call at the head of a queue that is not empty is its first.
LEMMA HeadIs ==
  ASSUME PubInv, queue # <<>>
  PROVE  Head(queue) = queue[1] /\ 1 \in DOMAIN queue
<1>1. queue \in Seq(Calls)
  BY DEF PubInv, PubTypes, CallsTyped
<1> QED BY <1>1

\* A call that is prepared joins the queue.
LEMMA PreparedKeeps ==
  ASSUME PubInv, NEW c \in Calls, Publishing!Prepared(c)
  PROVE  PubInv'
<1>0. /\ calls[c].step = "prepare"
      /\ UNCHANGED <<pubEpoch, binding, editPending, pubTrouble>>
      /\ UNCHANGED <<drafts, versions, current, published, requests, proposals>>
  BY DEF Publishing!Prepared, Publishing!clientVars, Publishing!serverVars
<1>1. CASE editPending
  <2>1. Publishing!Fails(c)
    BY <1>1 DEF Publishing!Prepared
  <2> QED BY <1>0, <2>1, SameClient, FailStep
<1>2. CASE ~editPending
  <2>1. PICK u \in PubCall : u = calls[c] /\ CallKnows(c, u)
                          /\ (u.op = "publish" /\ u.step # "joined" =>
                               Pinned(u.review, u.version, u.input))
    BY CallOf
  <2>2. PICK none \in SUBSET Calls : none = {}
    OBVIOUS
  <2>3. PICK e : e = [u EXCEPT !.step = "queued", !.behind = none]
    OBVIOUS
  <2>4. /\ e \in PubCall /\ e.step = "queued" /\ e.op = u.op /\ e.draft = u.draft
           /\ e.version = u.version
        /\ e.review = u.review /\ e.input = u.input
    BY <2>3 DEF PubCall, Publishing!Call, Publishing!Steps
  <2>5. calls' = [calls EXCEPT ![c] = e] /\ queue' = Append(queue, c) /\ submissions' = submissions
    BY <1>2, <2>1, <2>2, <2>3 DEF Publishing!Prepared
  <2>6. QueueFollows(c, e)
    BY <1>0, <2>4, <2>5 DEF QueueFollows
  <2>7. submissions' \in [Calls -> PubSubmission] /\ SubmissionsStay
    BY <2>5 DEF PubInv, PubTypes, CallsTyped, SubmissionsStay
  <2>8. CallKnows(c, e)
    BY <1>0, <2>1, <2>4 DEF CallKnows
  <2>9. calls[c].step # "done"
    BY <1>0
  <2>10. e.op = "publish" /\ e.step # "joined" => Pinned(e.review, e.version, e.input)'
    BY <1>0, <2>1, <2>4, <2>5, <2>7, <2>9, PinsStay
  <2> QED BY <1>0, <2>4, <2>5, <2>6, <2>7, <2>8, <2>9, <2>10, SameClient, QuietStep
<1> QED BY <1>1, <1>2

\* The head of the queue begins.
LEMMA BeginKeeps ==
  ASSUME PubInv, NEW c \in Calls, Publishing!Begin(c)
  PROVE  PubInv'
<1>0. /\ queue # <<>> /\ Head(queue) = c /\ calls[c].step = "queued"
      /\ UNCHANGED <<pubEpoch, binding, editPending, pubTrouble>>
      /\ UNCHANGED <<drafts, versions, current, published, requests, proposals>>
      /\ \/ Publishing!To(c, Publishing!FirstStep[calls[c].op]) /\ UNCHANGED <<queue, submissions>>
         \/ Publishing!Fails(c)
  BY DEF Publishing!Begin, Publishing!clientVars, Publishing!serverVars
<1>1. CASE Publishing!Fails(c)
  BY <1>0, <1>1, SameClient, FailStep
<1>2. CASE Publishing!To(c, Publishing!FirstStep[calls[c].op]) /\ UNCHANGED <<queue, submissions>>
  <2>1. PICK step : step = Publishing!FirstStep[calls[c].op]
    OBVIOUS
  <2>2. calls[c].op \in Publishing!Operations
    BY <1>0, CallOf, CallFields DEF CallKnows
  <2>3. /\ step \in {"view", "draft", "check", "observe"}
        /\ step = "observe" => calls[c].op \in {"attach", "reopen"}
    BY <2>1, <2>2 DEF Publishing!FirstStep, Publishing!Operations
  <2>4. queue # <<>> /\ queue[1] = c
    BY <1>0, HeadIs
  <2>5. /\ UNCHANGED <<drafts, versions, current, published, requests, proposals, submissions,
             queue>>
        /\ Publishing!To(c, step)
    BY <1>0, <1>2, <2>1
  <2> QED BY <1>0, <2>3, <2>4, <2>5, GoesOn
<1> QED BY <1>0, <1>1, <1>2

\* Reading the draft and checking it change nothing but the call.
LEMMA ReadKeeps ==
  ASSUME PubInv, NEW c \in Calls, Publishing!DraftRead(c) \/ Publishing!Checked(c)
  PROVE  PubInv'
<1>0. /\ calls[c].step \in Running
      /\ UNCHANGED <<pubEpoch, binding, editPending, pubTrouble>>
      /\ UNCHANGED <<drafts, versions, current, published, requests, proposals>>
      /\ \/ Publishing!To(c, "send") /\ UNCHANGED <<queue, submissions>>
         \/ Publishing!Fails(c)
  BY DEF Publishing!DraftRead, Publishing!Checked, Publishing!clientVars, Publishing!serverVars,
       Running
<1>1. CASE Publishing!Fails(c)
  BY <1>0, <1>1, SameClient, FailStep DEF Running
<1>2. CASE Publishing!To(c, "send") /\ UNCHANGED <<queue, submissions>>
  <2>1. queue # <<>> /\ queue[1] = c
    BY <1>0, RunningIsHead
  <2>2. UNCHANGED <<drafts, versions, current, published, requests, proposals, submissions, queue>>
    BY <1>0, <1>2
  <2> QED BY <1>0, <1>2, <2>1, <2>2, GoesOn
<1> QED BY <1>0, <1>1, <1>2

\* An answer of the server ends its call.
LEMMA ServerAnswerKeeps ==
  ASSUME PubInv, NEW c \in Calls,
         Publishing!Saved(c) \/ Publishing!Reviewed(c) \/ Publishing!Published(c)
  PROVE  PubInv'
<1>0. /\ calls[c].step \in Running
      /\ UNCHANGED <<pubEpoch, binding, editPending, pubTrouble>>
      /\ UNCHANGED <<drafts, versions, current, published, requests, proposals>>
      /\ Publishing!Succeeds(c, calls[c].version) \/ Publishing!Fails(c)
      /\ calls[c].op = "save" => calls[c].step = "version"
  BY DEF Publishing!Saved, Publishing!Reviewed, Publishing!Published, Publishing!clientVars,
         Publishing!serverVars, Running
<1>1. CASE Publishing!Fails(c)
  BY <1>0, <1>1, SameClient, FailStep DEF Running
<1>2. CASE Publishing!Succeeds(c, calls[c].version)
  <2>1. PICK n \in Nat : n = calls[c].version
    BY CallOf, CallFields
  <2>2. calls[c].op = "save" => Holds(n, c, calls[c].draft, calls[c].camera)
    BY <1>0, <2>1, CallOf DEF CallKnows
  <2>3. ClientTyped'
    BY <1>0, SameClient
  <2>4. Publishing!Succeeds(c, n)
    BY <1>2, <2>1
  <2> QED BY <1>0, <2>2, <2>3, <2>4, DoneStep
<1> QED BY <1>0, <1>1, <1>2

\* A call whose draft is read again ends with that draft bound.
LEMMA ObservedKeeps ==
  ASSUME PubInv, NEW c \in Calls, Publishing!Observed(c)
  PROVE  PubInv'
<1>0. /\ calls[c].step = "observe" /\ calls[c].step \in Running
      /\ UNCHANGED <<pubEpoch, editPending, pubTrouble>>
      /\ UNCHANGED <<drafts, versions, current, published, requests, proposals>>
      /\ \/ /\ binding' = [id |-> binding.id + 1, draft |-> calls[c].draft]
            /\ Publishing!Succeeds(c, calls[c].draft)
         \/ Publishing!Fails(c) /\ UNCHANGED binding
  BY DEF Publishing!Observed, Publishing!serverVars, Running
<1>1. CASE Publishing!Fails(c) /\ UNCHANGED binding
  BY <1>0, <1>1, SameClient, FailStep DEF Running
<1>2. CASE /\ binding' = [id |-> binding.id + 1, draft |-> calls[c].draft]
           /\ Publishing!Succeeds(c, calls[c].draft)
  <2>1. calls[c].draft \in DOMAIN drafts /\ calls[c].op # "save"
    BY <1>0, CallOf DEF CallKnows
  <2>2. PICK n \in Nat : n = calls[c].draft /\ n \in DOMAIN drafts
    BY <2>1, StoredAre DEF PubInv, PubTypes, ServerTyped
  <2>3. PICK m \in Nat : m = binding.id + 1
    BY DEF PubInv, PubTypes, ClientTyped
  <2>4. binding' = [id |-> m, draft |-> n]
    BY <1>2, <2>2, <2>3
  <2>5. ClientTyped'
    BY <1>0, <2>2, <2>4 DEF PubInv, PubTypes, ClientTyped
  <2>6. Publishing!Succeeds(c, n)
    BY <1>2, <2>2
  <2> QED BY <1>0, <2>1, <2>5, <2>6, DoneStep
<1> QED BY <1>0, <1>1, <1>2

-----------------------------------------------------------------------------
(* What reaches the server *)

ViewTo(s, d, w) == [s EXCEPT ![d].view = w]

\* Setting a draft's view leaves every other draft, and every item, as it is.
LEMMA ViewSet ==
  ASSUME NEW s \in Seq(PubStored), NEW d \in DOMAIN s, NEW w \in Publishing!Views,
         NEW t, t = ViewTo(s, d, w)
  PROVE  /\ t \in Seq(PubStored) /\ DOMAIN t = DOMAIN s /\ Len(t) = Len(s) /\ t[d].view = w
         /\ \A i \in DOMAIN s : t[i].item = s[i].item /\ (i # d => t[i] = s[i])
<1>1. PICK u \in PubStored : u = s[d]
  BY StoredAre
<1>2. PICK v : v = [u EXCEPT !.view = w]
  OBVIOUS
<1>3. v \in PubStored /\ v.item = u.item /\ v.view = w
  BY <1>2 DEF PubStored, Publishing!Stored
<1>4. t = [s EXCEPT ![d] = v]
  BY <1>1, <1>2 DEF ViewTo
<1>5. t \in Seq(PubStored) /\ DOMAIN t = DOMAIN s /\ Len(t) = Len(s) /\ t[d] = v
      /\ \A i \in DOMAIN s : i # d => t[i] = s[i]
  <2> HIDE DEF PubStored
  <2> QED BY <1>3, <1>4
<1> QED
  BY <1>1, <1>3, <1>5

\* The calls stay typed when one moves.
LEMMA CallsOfStep ==
  ASSUME PubInv, NEW c \in Calls, NEW e \in PubCall, calls' = [calls EXCEPT ![c] = e],
           QueueFollows(c, e),
         submissions' \in [Calls -> PubSubmission]
  PROVE  CallsTyped'
<1>1. queue' \in Seq(Calls)
  BY QueueKept
<1> QED
  BY <1>1 DEF PubInv, PubTypes, CallsTyped

\* c fails, and the view of its draft may have become its own.
LEMMA FailWith ==
  ASSUME PubInv, ClientTyped', ServerTyped', NEW c \in Calls, Publishing!Fails(c),
         calls[c].step \in Running, StoreGrows, RequestsFollow
  PROVE  PubInv'
<1>1. PICK e : e = [Publishing!NoCall EXCEPT !.step = "failed"]
  OBVIOUS
<1>2. e \in PubCall /\ e.op = "none" /\ e.step = "failed"
  BY <1>1, FailedIs
<1>3. Publishing!EndsWith(c, e)
  BY <1>1 DEF Publishing!Fails
<1>4. /\ calls' = [calls EXCEPT ![c] = e] /\ QueueFollows(c, e)
      /\ submissions' \in [Calls -> PubSubmission] /\ SubmissionsStay
  BY <1>2, <1>3, EndsIs
<1>5. CallKnows(c, e)'
  BY <1>2 DEF CallKnows
<1>6. PubTypes'
  BY <1>2, <1>4, CallsOfStep DEF PubTypes
<1>7. calls[c].step # "done"
  BY DEF Running
<1> QED
  BY <1>2, <1>4, <1>5, <1>6, <1>7, CallStepKeeps

\* The server's side stays typed when only the drafts change.
LEMMA SameServer ==
  ASSUME PubInv, UNCHANGED <<versions, current, published, requests, proposals>>,
         drafts' \in Seq(PubStored)
  PROVE  ServerTyped'
  BY DEF PubInv, PubTypes, ServerTyped

\* A call's own view is a view.
LEMMA ViewIsCall == ASSUME NEW c \in Calls PROVE c \in Publishing!Views
  BY DEF Publishing!Views

\* A call about a draft is about one that exists.
LEMMA DraftOf ==
  ASSUME PubInv, NEW c \in Calls, calls[c].op \in {"save", "review", "reopen", "attach"}
  PROVE  /\ calls[c].draft \in DOMAIN drafts /\ drafts \in Seq(PubStored)
         /\ drafts[calls[c].draft] \in PubStored
<1>1. calls[c].draft \in DOMAIN drafts /\ drafts \in Seq(PubStored)
  BY CallOf DEF CallKnows, PubInv, PubTypes, ServerTyped
<1> QED
  BY <1>1, StoredAre

\* Saving the view writes the draft the call is about, which no other running call is about.
LEMMA ViewKeeps ==
  ASSUME PubInv, NEW c \in Calls, Publishing!SaveView(c)
  PROVE  PubInv'
<1>0. /\ calls[c].op = "save" /\ calls[c].step = "view" /\ calls[c].step \in Running
      /\ UNCHANGED <<pubEpoch, binding, editPending, pubTrouble>>
      /\ UNCHANGED <<versions, current, published, requests, proposals>>
      /\ \/ /\ drafts' = [drafts EXCEPT ![calls[c].draft].view = c]
            /\ calls' = [calls EXCEPT ![c].step = "viewed", ![c].camera = TRUE]
            /\ UNCHANGED <<queue, submissions>>
         \/ Publishing!Fails(c) /\ UNCHANGED drafts
  BY DEF Publishing!SaveView, Publishing!clientVars, Running
<1>1. CASE Publishing!Fails(c) /\ UNCHANGED drafts
  BY <1>0, <1>1, SameClient, FailStep
<1>2. CASE /\ drafts' = [drafts EXCEPT ![calls[c].draft].view = c]
           /\ calls' = [calls EXCEPT ![c].step = "viewed", ![c].camera = TRUE]
           /\ UNCHANGED <<queue, submissions>>
  <2>1. PICK d : d = calls[c].draft
    OBVIOUS
  <2>2. d \in DOMAIN drafts /\ drafts \in Seq(PubStored) /\ drafts' = ViewTo(drafts, d, c)
    <3>1. d \in DOMAIN drafts /\ drafts \in Seq(PubStored)
      BY <1>0, <2>1, DraftOf
    <3>2. drafts' = ViewTo(drafts, d, c)
      BY <1>2, <2>1 DEF ViewTo
    <3> QED BY <3>1, <3>2
  <2>3. c \in Publishing!Views
    BY ViewIsCall
  <2>4. /\ drafts' \in Seq(PubStored) /\ DOMAIN drafts' = DOMAIN drafts /\ drafts'[d].view = c
        /\ \A i \in DOMAIN drafts : drafts'[i].item = drafts[i].item
    BY <2>2, <2>3, ViewSet
  <2>5. PICK u \in PubCall : u = calls[c] /\ CallKnows(c, u)
    BY CallOf
  <2>6. PICK e : e = [u EXCEPT !.step = "viewed", !.camera = TRUE]
    OBVIOUS
  <2>7. /\ e \in PubCall /\ e.step = "viewed" /\ e.op = "save" /\ e.draft = d
    <3>1. /\ e \in PubCall /\ e.step = "viewed" /\ e.op = u.op /\ e.draft = u.draft
      BY <2>6 DEF PubCall, Publishing!Call, Publishing!Steps
    <3> QED BY <1>0, <2>1, <2>5, <3>1
  <2>8. calls' = [calls EXCEPT ![c] = e]
    BY <1>2, <2>5, <2>6
  <2>9. QueueFollows(c, e)
    BY <1>0, <1>2, <2>7, RunningIsHead DEF QueueFollows, Running
  <2>10. submissions' \in [Calls -> PubSubmission] /\ SubmissionsStay
    BY <1>2 DEF PubInv, PubTypes, CallsTyped, SubmissionsStay
  <2>11. CallKnows(c, e)'
    BY <2>2, <2>4, <2>7 DEF CallKnows
  <2>12. ClientTyped'
    BY <1>0, <2>4 DEF PubInv, PubTypes, ClientTyped
  <2>13. PubTypes'
    BY <1>0, <2>4, <2>7, <2>8, <2>9, <2>10, <2>12, CallsOfStep, SameServer DEF PubTypes
  <2>14. StoreGrows /\ RequestsFollow
    BY <1>0, <2>4 DEF StoreGrows, RequestsFollow
  <2>15. calls[c].step # "done" /\ ~(e.op = "publish" /\ e.step # "joined")
    BY <1>0, <2>7
  <2> QED BY <1>0, <2>7, <2>8, <2>9, <2>10, <2>11, <2>13, <2>14, <2>15, CallStepKeeps
<1> QED BY <1>0, <1>1, <1>2

\* Without a camera nothing is written, and the call knows nothing of its draft's view.
LEMMA KeepViewKeeps ==
  ASSUME PubInv, NEW c \in Calls, Publishing!KeepView(c)
  PROVE  PubInv'
<1>0. /\ calls[c].op = "save" /\ calls[c].step = "view" /\ calls[c].step \in Running
      /\ UNCHANGED <<pubEpoch, binding, editPending, pubTrouble>>
      /\ UNCHANGED <<drafts, versions, current, published, requests, proposals>>
      /\ UNCHANGED <<queue, submissions>>
      /\ calls' = [calls EXCEPT ![c].step = "viewed", ![c].camera = FALSE]
  BY DEF Publishing!KeepView, Publishing!clientVars, Publishing!serverVars, Running
<1>1. PICK u \in PubCall : u = calls[c] /\ CallKnows(c, u)
  BY CallOf
<1>2. PICK e : e = [u EXCEPT !.step = "viewed", !.camera = FALSE]
  OBVIOUS
<1>3. /\ e \in PubCall /\ e.step = "viewed" /\ e.op = u.op /\ e.draft = u.draft
      /\ e.camera = FALSE
  BY <1>2 DEF PubCall, Publishing!Call, Publishing!Steps
<1>4. calls' = [calls EXCEPT ![c] = e]
  BY <1>0, <1>1, <1>2
<1>5. QueueFollows(c, e)
  BY <1>0, <1>3, RunningIsHead DEF QueueFollows, Running
<1>6. submissions' \in [Calls -> PubSubmission] /\ SubmissionsStay
  BY <1>0 DEF PubInv, PubTypes, CallsTyped, SubmissionsStay
<1>7. CallKnows(c, e)
  BY <1>0, <1>1, <1>3 DEF CallKnows
<1>8. calls[c].step # "done" /\ ~(e.op = "publish" /\ e.step # "joined")
  BY <1>0, <1>1, <1>3
<1> QED
  BY <1>0, <1>3, <1>4, <1>5, <1>6, <1>7, <1>8, SameClient, QuietStep

\* The same when the answer is lost: the call fails, the view is written.
LEMMA ViewLostKeeps ==
  ASSUME PubInv, NEW c \in Calls, Publishing!LoseView(c)
  PROVE  PubInv'
<1>0. /\ calls[c].op = "save" /\ calls[c].step \in Running
      /\ UNCHANGED <<pubEpoch, binding, versions, current, published, requests, proposals>>
      /\ editPending' = TRUE /\ Publishing!Fails(c)
      /\ pubTrouble < MaxDisturbances /\ pubTrouble' = pubTrouble + 1
      /\ drafts' = drafts \/ drafts' = [drafts EXCEPT ![calls[c].draft].view = c]
  BY DEF Publishing!LoseView, Publishing!Spend, Running
<1>1. /\ drafts' \in Seq(PubStored) /\ DOMAIN drafts' = DOMAIN drafts
      /\ \A i \in DOMAIN drafts : drafts'[i].item = drafts[i].item
  <2>1. PICK d : d = calls[c].draft
    OBVIOUS
  <2>2. d \in DOMAIN drafts /\ drafts \in Seq(PubStored) /\ c \in Publishing!Views
    BY <1>0, <2>1, DraftOf, ViewIsCall
  <2>3. CASE drafts' = drafts
    BY <2>2, <2>3
  <2>4. CASE drafts' = ViewTo(drafts, d, c)
    <3>1. c \in Publishing!Views
      BY ViewIsCall
    <3>2. /\ drafts' \in Seq(PubStored) /\ DOMAIN drafts' = DOMAIN drafts
          /\ \A i \in DOMAIN drafts : drafts'[i].item = drafts[i].item
      BY <2>2, <2>4, <3>1, ViewSet
    <3> QED BY <3>2
  <2>5. drafts' = drafts \/ drafts' = ViewTo(drafts, d, c)
    BY <1>0, <2>1 DEF ViewTo
  <2> QED BY <2>3, <2>4, <2>5
<1>2. ClientTyped'
  <2>1. pubTrouble' \in 0 .. MaxDisturbances
    BY <1>0, PublishingAssumption DEF PubInv, PubTypes, ClientTyped
  <2> QED BY <1>0, <1>1, <2>1 DEF PubInv, PubTypes, ClientTyped
<1>3. ServerTyped' /\ StoreGrows /\ RequestsFollow
  BY <1>0, <1>1, SameServer DEF StoreGrows, RequestsFollow
<1> QED
  BY <1>0, <1>2, <1>3, FailWith

\* Saving makes a version of the view the draft holds.
LEMMA SendSaveKeeps ==
  ASSUME PubInv, NEW c \in Calls, Publishing!SendSave(c)
  PROVE  PubInv'
<1>0. /\ calls[c].op = "save" /\ calls[c].step = "viewed" /\ calls[c].step \in Running
      /\ UNCHANGED <<pubEpoch, binding, editPending, pubTrouble>>
      /\ UNCHANGED <<drafts, published, requests, proposals>>
      /\ \/ /\ Publishing!StoreVersion(calls[c].draft) /\ Len(versions) < MaxVersions
            /\ calls' = [calls EXCEPT ![c].step = "version", ![c].version = Len(versions) + 1]
            /\ UNCHANGED <<queue, submissions>>
         \/ Publishing!Fails(c) /\ UNCHANGED <<versions, current>>
  BY DEF Publishing!SendSave, Publishing!clientVars, Running
<1>1. CASE Publishing!Fails(c) /\ UNCHANGED <<versions, current>>
  BY <1>0, <1>1, SameClient, FailStep
<1>2. CASE /\ Publishing!StoreVersion(calls[c].draft) /\ Len(versions) < MaxVersions
           /\ calls' = [calls EXCEPT ![c].step = "version", ![c].version = Len(versions) + 1]
           /\ UNCHANGED <<queue, submissions>>
  <2>1. PICK d : d = calls[c].draft
    OBVIOUS
  <2>2. PICK w \in PubStored : w = drafts[d] /\ d \in DOMAIN drafts
    BY <1>0, <2>1, DraftOf
  <2>3. versions \in Seq(PubStored) /\ Len(versions) \in Nat
        /\ DOMAIN versions = 1 .. Len(versions)
    BY StoredAre DEF PubInv, PubTypes, ServerTyped
  <2>4. PICK n \in Nat : n = Len(versions) + 1
    BY <2>3
  <2>5. versions' = Append(versions, w) /\ current' = [current EXCEPT ![w.item] = n]
    BY <1>2, <2>1, <2>2, <2>4 DEF Publishing!StoreVersion
  <2>6. /\ versions' \in Seq(PubStored) /\ Len(versions') = n /\ DOMAIN versions' = 1 .. n
        /\ versions'[n] = w /\ \A i \in DOMAIN versions : i \in DOMAIN versions'
             /\ versions'[i] = versions[i]
    BY <2>3, <2>4, <2>5, StoredGrow
  <2>7. PICK u \in PubCall : u = calls[c] /\ CallKnows(c, u)
    BY CallOf
  <2>8. PICK e : e = [u EXCEPT !.step = "version", !.version = n]
    OBVIOUS
  <2>9. /\ e \in PubCall /\ e.step = "version" /\ e.op = u.op /\ e.draft = u.draft /\ e.version = n
        /\ e.camera = u.camera
    BY <2>8 DEF PubCall, Publishing!Call, Publishing!Steps
  <2>10. calls' = [calls EXCEPT ![c] = e]
    BY <1>2, <2>4, <2>7, <2>8
  <2>11. QueueFollows(c, e)
    BY <1>0, <1>2, <2>9, RunningIsHead DEF QueueFollows, Running
  <2>12. submissions' \in [Calls -> PubSubmission] /\ SubmissionsStay
    BY <1>2 DEF PubInv, PubTypes, CallsTyped, SubmissionsStay
  <2>13. e.camera => w.view \in {c, "other"}
    BY <1>0, <2>1, <2>2, <2>7, <2>9 DEF CallKnows
  <2>14. n \in DOMAIN versions'
    BY <2>4, <2>6, <2>3
  <2>15. CallKnows(c, e)'
    BY <1>0, <2>1, <2>2, <2>6, <2>7, <2>9, <2>13, <2>14 DEF CallKnows, Holds
  <2>16. ServerTyped'
    <3>1. w.item \in Items
      BY DEF PubStored, Publishing!Stored
    <3>2. n <= MaxVersions
      BY <1>2, <2>3, <2>4, PublishingAssumption
    <3>3. current' \in [Items -> 0 .. n]
      BY <2>3, <2>4, <2>5, <3>1 DEF PubInv, PubTypes, ServerTyped
    <3>4. published' \in [Items -> 0 .. n]
      BY <1>0, <2>3, <2>4 DEF PubInv, PubTypes, ServerTyped
    <3> QED BY <1>0, <2>6, <3>2, <3>3, <3>4 DEF PubInv, PubTypes, ServerTyped
  <2>17. PubTypes'
    BY <1>0, <2>9, <2>10, <2>11, <2>12, <2>16, CallsOfStep, SameClient DEF PubTypes
  <2>18. StoreGrows /\ RequestsFollow
    BY <1>0, <2>6 DEF StoreGrows, RequestsFollow
  <2>19. calls[c].step # "done" /\ ~(e.op = "publish" /\ e.step # "joined")
    BY <1>0, <2>7, <2>9
  <2> QED BY <1>0, <2>9, <2>10, <2>11, <2>12, <2>15, <2>17, <2>18, <2>19, CallStepKeeps
<1> QED BY <1>0, <1>1, <1>2

\* Reopening makes a draft of the view the version has.
LEMMA SendReopenKeeps ==
  ASSUME PubInv, NEW c \in Calls, Publishing!SendReopen(c)
  PROVE  PubInv'
<1>0. /\ calls[c].op = "reopen" /\ calls[c].step = "send" /\ calls[c].step \in Running
      /\ UNCHANGED <<pubEpoch, binding, editPending, pubTrouble>>
      /\ UNCHANGED <<versions, current, published, requests, proposals>>
      /\ \/ /\ drafts' = Append(drafts, versions[calls[c].version])
            /\ calls' = [calls EXCEPT ![c].step = "observe", ![c].draft = Len(drafts) + 1,
                                      ![c].binding = binding.id]
            /\ UNCHANGED <<queue, submissions>>
         \/ Publishing!Fails(c) /\ UNCHANGED drafts
  BY DEF Publishing!SendReopen, Publishing!clientVars, Running
<1>1. CASE Publishing!Fails(c) /\ UNCHANGED drafts
  BY <1>0, <1>1, SameClient, FailStep
<1>2. CASE /\ drafts' = Append(drafts, versions[calls[c].version])
           /\ calls' = [calls EXCEPT ![c].step = "observe", ![c].draft = Len(drafts) + 1,
                                     ![c].binding = binding.id]
           /\ UNCHANGED <<queue, submissions>>
  <2>1. PICK u \in PubCall : u = calls[c] /\ CallKnows(c, u)
    BY CallOf
  <2>2. PICK w \in PubStored : w = versions[u.version]
    BY <1>0, <2>1, StoredAre DEF CallKnows, PubInv, PubTypes, ServerTyped
  <2>3. drafts \in Seq(PubStored) /\ Len(drafts) \in Nat /\ DOMAIN drafts = 1 .. Len(drafts)
    BY StoredAre DEF PubInv, PubTypes, ServerTyped
  <2>4. PICK n \in Nat : n = Len(drafts) + 1
    BY <2>3
  <2>5. drafts' = Append(drafts, w)
    BY <1>2, <2>1, <2>2
  <2>6. /\ drafts' \in Seq(PubStored) /\ DOMAIN drafts' = 1 .. n
        /\ \A i \in DOMAIN drafts : i \in DOMAIN drafts' /\ drafts'[i] = drafts[i]
    BY <2>3, <2>4, <2>5, StoredGrow
  <2>7. PICK b \in Nat : b = binding.id
    BY DEF PubInv, PubTypes, ClientTyped
  <2>8. PICK e : e = [u EXCEPT !.step = "observe", !.draft = n, !.binding = b]
    OBVIOUS
  <2>9. /\ e \in PubCall /\ e.step = "observe" /\ e.op = u.op /\ e.draft = n
           /\ e.version = u.version
    BY <2>8 DEF PubCall, Publishing!Call, Publishing!Steps
  <2>10. calls' = [calls EXCEPT ![c] = e]
    BY <1>2, <2>1, <2>4, <2>7, <2>8
  <2>11. QueueFollows(c, e)
    BY <1>0, <1>2, <2>9, RunningIsHead DEF QueueFollows, Running
  <2>12. submissions' \in [Calls -> PubSubmission] /\ SubmissionsStay
    BY <1>2 DEF PubInv, PubTypes, CallsTyped, SubmissionsStay
  <2>13. n \in DOMAIN drafts'
    BY <2>3, <2>4, <2>6
  <2>14. CallKnows(c, e)'
    BY <1>0, <2>1, <2>9, <2>13 DEF CallKnows
  <2>15. ClientTyped'
    BY <1>0, <2>6 DEF PubInv, PubTypes, ClientTyped
  <2>16. PubTypes'
    BY <1>0, <2>6, <2>9, <2>10, <2>11, <2>12, <2>15, CallsOfStep, SameServer DEF PubTypes
  <2>17. /\ StoreGrows /\ RequestsFollow
         /\ \A d \in DOMAIN drafts : drafts'[d].view = drafts[d].view
    BY <1>0, <2>6 DEF StoreGrows, RequestsFollow
  <2>18. calls[c].step # "done" /\ ~(e.op = "publish" /\ e.step # "joined")
    BY <1>0, <2>1, <2>9
  <2> QED BY <2>9, <2>10, <2>11, <2>12, <2>14, <2>16, <2>17, <2>18, CallStepKeeps
<1> QED BY <1>0, <1>1, <1>2

\* The server carries a publish request out once per command and version.
LEMMA PublishCarriedOut ==
  ASSUME PubInv, NEW c \in Calls, calls[c].op = "publish", calls[c].step = "send",
           Publishing!CarryOut(c),
         UNCHANGED <<drafts, versions, current, proposals>>
  PROVE  ServerTyped' /\ RequestsFollow
<1>1. PICK u \in PubCall : u = calls[c] /\ Pinned(u.review, u.version, u.input)
  BY CallOf
<1>2. PICK r \in Calls : r = u.review /\ u.version = calls[r].version /\ calls[r].op = "review"
  BY <1>1 DEF Pinned
<1>3. u.version \in DOMAIN versions /\ u.input \in Inputs
  BY <1>1, <1>2, CallOf DEF CallKnows, Pinned
<1>4. /\ versions \in Seq(PubStored) /\ Len(versions) \in Nat
         /\ DOMAIN versions = 1 .. Len(versions)
      /\ Len(versions) <= MaxVersions /\ \A i \in DOMAIN versions : versions[i] \in PubStored
      /\ requests \in Seq(PubRequest) /\ published \in [Items -> 0 .. Len(versions)]
  BY StoredAre DEF PubInv, PubTypes, ServerTyped
<1>5. PICK v \in 1 .. MaxVersions : v = u.version /\ v \in 1 .. Len(versions)
  BY <1>3, <1>4, PublishingAssumption
<1>6. PICK q : q = [version |-> v, input |-> u.input, review |-> r]
  OBVIOUS
<1>7. q \in PubRequest /\ q.version = v /\ q.input = u.input /\ q.review = r
  BY <1>3, <1>6 DEF PubRequest
<1>8. IF \E i \in DOMAIN requests : requests[i].input = q.input /\ requests[i].version = v
      THEN UNCHANGED <<requests, published>>
      ELSE requests' = Append(requests, q)
        /\ published' = [published EXCEPT ![versions[v].item] = v]
  BY <1>1, <1>2, <1>5, <1>6 DEF Publishing!CarryOut
<1>9. RequestsFollow
  BY <1>1, <1>2, <1>5, <1>7, <1>8 DEF RequestsFollow
<1>10. published' \in [Items -> 0 .. Len(versions)]
  <2>1. v \in 0 .. Len(versions) /\ versions[v] \in PubStored
    BY <1>4, <1>5
  <2>2. versions[v].item \in Items
    BY <2>1 DEF PubStored, Publishing!Stored
  <2> QED BY <1>4, <1>8, <2>1, <2>2
<1>11. requests' \in Seq(PubRequest)
  <2>1. requests' = requests \/ requests' = Append(requests, q)
    BY <1>8
  <2> HIDE DEF PubRequest
  <2>2. requests \in Seq(PubRequest) /\ q \in PubRequest
    BY <1>4, <1>7
  <2> QED BY <2>1, <2>2
<1> QED
  BY <1>9, <1>10, <1>11 DEF PubInv, PubTypes, ServerTyped

\* The server publishes: the request of this submission if it has one, a new one otherwise.
LEMMA PublishesKeep ==
  ASSUME PubInv, NEW c \in Calls, Publishing!ServerPublishes(c)
  PROVE  PubInv'
<1>0. /\ calls[c].op = "publish" /\ calls[c].step = "send" /\ calls[c].step \in Running
      /\ UNCHANGED <<pubEpoch, binding, editPending, pubTrouble>>
      /\ UNCHANGED <<drafts, versions, current, proposals, queue, submissions>>
      /\ Publishing!CarryOut(c) /\ Publishing!To(c, "version")
  BY DEF Publishing!ServerPublishes, Publishing!clientVars, Running
<1>1. ServerTyped' /\ RequestsFollow
  BY <1>0, PublishCarriedOut
<1>2. PICK u \in PubCall : u = calls[c] /\ CallKnows(c, u) /\ Pinned(u.review, u.version, u.input)
  BY <1>0, CallOf
<1>3. PICK e : e = [u EXCEPT !.step = "version"]
  OBVIOUS
<1>4. /\ e \in PubCall /\ e.step = "version" /\ e.op = "publish" /\ e.version = u.version
      /\ e.review = u.review /\ e.input = u.input
  <2>1. "version" \in Publishing!Steps
    BY DEF Publishing!Steps
  <2> QED BY <1>0, <1>2, <1>3, <2>1, CallSteps
<1>5. calls' = [calls EXCEPT ![c] = e]
  BY <1>0, <1>2, <1>3 DEF Publishing!To
<1>6. QueueFollows(c, e)
  BY <1>0, <1>4, RunningIsHead DEF QueueFollows, Running
<1>7. submissions' \in [Calls -> PubSubmission] /\ SubmissionsStay
  BY <1>0 DEF PubInv, PubTypes, CallsTyped, SubmissionsStay
<1>8. CallKnows(c, e)'
  BY <1>4 DEF CallKnows
<1>9. PubTypes'
  BY <1>0, <1>1, <1>4, <1>5, <1>6, <1>7, CallsOfStep, SameClient DEF PubTypes
<1>10. StoreGrows /\ \A d \in DOMAIN drafts : drafts'[d].view = drafts[d].view
  BY <1>0 DEF StoreGrows
<1>11. calls[c].step # "done"
  BY <1>0
<1>12. Pinned(e.review, e.version, e.input)'
  BY <1>2, <1>4, <1>5, <1>7, <1>11, PinsStay
<1> QED
  BY <1>1, <1>4, <1>5, <1>6, <1>7, <1>8, <1>9, <1>10, <1>11, <1>12, CallStepKeeps

\* The same when the answer is lost: the request is there to be found again.
LEMMA PublishLostKeeps ==
  ASSUME PubInv, NEW c \in Calls, Publishing!LosePublish(c)
  PROVE  PubInv'
<1>0. /\ calls[c].op = "publish" /\ calls[c].step = "send" /\ calls[c].step \in Running
      /\ UNCHANGED <<pubEpoch, binding, editPending, drafts, versions, current, proposals>>
      /\ pubTrouble < MaxDisturbances /\ pubTrouble' = pubTrouble + 1
      /\ Publishing!CarryOut(c) \/ UNCHANGED <<requests, published>>
      /\ Publishing!Fails(c)
  BY DEF Publishing!LosePublish, Publishing!clientVars, Publishing!Spend, Running
<1>1. ServerTyped' /\ RequestsFollow
  <2>1. CASE Publishing!CarryOut(c)
    BY <1>0, <2>1, PublishCarriedOut
  <2>2. CASE UNCHANGED <<requests, published>>
    BY <1>0, <2>2 DEF PubInv, PubTypes, ServerTyped, RequestsFollow
  <2> QED BY <1>0, <2>1, <2>2
<1>2. ClientTyped'
  <2>1. pubTrouble' \in 0 .. MaxDisturbances
    BY <1>0, PublishingAssumption DEF PubInv, PubTypes, ClientTyped
  <2> QED BY <1>0, <2>1 DEF PubInv, PubTypes, ClientTyped
<1>3. StoreGrows
  BY <1>0 DEF StoreGrows
<1> QED
  BY <1>0, <1>1, <1>2, <1>3, FailWith

-----------------------------------------------------------------------------
(* Beside the calls *)

LEMMA BesideKeeps ==
  ASSUME PubInv, PubTypes', UNCHANGED <<queue, calls, submissions, requests>>, StoreGrows,
         \A d \in DOMAIN drafts : drafts'[d].view \in {drafts[d].view, "other"}
  PROVE  PubInv'
<1>1. QueueRuns'
  BY DEF PubInv, QueueRuns
<1>2. PublishesPinned' /\ RequestsPinned' /\ Publishing!OneSubmission'
  BY DEF PubInv, PublishesPinned, RequestsPinned, Publishing!OneSubmission, Pinned
<1>3. CallsKnow'
  <2>1. ASSUME NEW c \in Calls, NEW e, e = calls[c]
        PROVE  CallKnows(c, e)'
    BY <2>1, CallOf DEF CallKnows, Holds, StoreGrows
  <2> QED BY <2>1 DEF CallsKnow
<1> QED
  BY <1>1, <1>2, <1>3 DEF PubInv

\* What the user, other writers and approvers do beside the calls.
LEMMA BesideStepsKeep ==
  ASSUME PubInv, Publishing!Around
  PROVE  PubInv'
<1>0. PubTypes /\ MaxDisturbances \in Nat /\ None \notin Nat
  BY PublishingAssumption DEF PubInv
<1>1. CASE Publishing!ChangePrincipal \/ Publishing!TouchForm
  <2>1. /\ UNCHANGED <<queue, calls, submissions, drafts, versions, current, published, requests,
             proposals>>
        /\ pubTrouble < MaxDisturbances /\ pubTrouble' = pubTrouble + 1
        /\ editPending' = FALSE \/ editPending' = ~editPending
        /\ \/ pubEpoch' = pubEpoch + 1 /\ binding' = [id |-> binding.id + 1, draft |-> None]
           \/ UNCHANGED <<pubEpoch, binding>>
    BY <1>1 DEF Publishing!ChangePrincipal, Publishing!TouchForm, Publishing!serverVars,
         Publishing!Spend
  <2>2. editPending' \in BOOLEAN
    BY <2>1
  <2>3. pubTrouble' \in 0 .. MaxDisturbances /\ pubEpoch' \in Nat
    BY <1>0, <2>1 DEF PubTypes, ClientTyped
  <2>4. binding' \in [id : Nat, draft : Nat \union {None}]
        /\ binding'.draft \in DOMAIN drafts \union {None}
    BY <1>0, <2>1 DEF PubTypes, ClientTyped
  <2>5. ClientTyped'
    BY <2>1, <2>2, <2>3, <2>4 DEF ClientTyped
  <2>6. CallsTyped' /\ ServerTyped'
    BY <1>0, <2>1 DEF PubTypes, CallsTyped, ServerTyped
  <2> QED BY <2>1, <2>5, <2>6, BesideKeeps DEF PubTypes, StoreGrows
<1>2. ASSUME NEW d, Publishing!OtherWriter(d) PROVE PubInv'
  <2>1. /\ UNCHANGED <<pubEpoch, binding, editPending, queue, calls, submissions, versions,
             current, published>>
        /\ UNCHANGED <<requests, proposals>>
        /\ pubTrouble < MaxDisturbances /\ pubTrouble' = pubTrouble + 1
        /\ d \in DOMAIN drafts /\ drafts' = ViewTo(drafts, d, "other")
    BY <1>2 DEF Publishing!OtherWriter, Publishing!clientVars, Publishing!Spend, ViewTo
  <2>2. "other" \in Publishing!Views /\ drafts \in Seq(PubStored)
    BY <1>0 DEF Publishing!Views, PubTypes, ServerTyped
  <2>3. /\ drafts' \in Seq(PubStored) /\ DOMAIN drafts' = DOMAIN drafts
           /\ drafts'[d].view = "other"
        /\ \A i \in DOMAIN drafts : drafts'[i].item = drafts[i].item
             /\ (i # d => drafts'[i] = drafts[i])
    BY <2>1, <2>2, ViewSet
  <2>4. pubTrouble' \in 0 .. MaxDisturbances
    BY <1>0, <2>1 DEF PubTypes, ClientTyped
  <2>5. ClientTyped' /\ CallsTyped' /\ ServerTyped'
    BY <1>0, <2>1, <2>3, <2>4 DEF PubTypes, ClientTyped, CallsTyped, ServerTyped
  <2>6. StoreGrows /\ \A i \in DOMAIN drafts : drafts'[i].view \in {drafts[i].view, "other"}
    BY <2>1, <2>3 DEF StoreGrows
  <2> QED BY <2>1, <2>5, <2>6, BesideKeeps DEF PubTypes
<1>3. ASSUME NEW i \in Items, Publishing!Propose(i) PROVE PubInv'
  <2>1. /\ UNCHANGED <<pubEpoch, binding, editPending, queue, calls, submissions, drafts,
             versions, current>>
        /\ UNCHANGED <<requests, published>>
        /\ pubTrouble < MaxDisturbances /\ pubTrouble' = pubTrouble + 1
        /\ current[i] # 0
        /\ proposals' = Append(proposals, [version |-> current[i], open |-> TRUE])
    BY <1>3 DEF Publishing!Propose, Publishing!clientVars, Publishing!Spend
  <2>2. pubTrouble' \in 0 .. MaxDisturbances
    BY <1>0, <2>1 DEF PubTypes, ClientTyped
  <2>3. DOMAIN versions = 1 .. Len(versions) /\ Len(versions) \in Nat
        /\ Len(versions) <= MaxVersions
    BY <1>0, StoredAre DEF PubTypes, ServerTyped
  <2>4. PICK v \in 1 .. Len(versions) : v = current[i]
    BY <1>0, <2>1, <2>3 DEF PubTypes, ServerTyped
  <2>5. PICK q : q = [version |-> v, open |-> TRUE]
    OBVIOUS
  <2>6. q \in PubProposal /\ q.version = v
    BY <2>3, <2>4, <2>5, PublishingAssumption DEF PubProposal
  <2>7. proposals \in Seq(PubProposal)
        /\ \A k \in DOMAIN proposals : proposals[k].version \in DOMAIN versions
    BY <1>0 DEF PubTypes, ServerTyped
  <2>8. proposals' \in Seq(PubProposal)
        /\ \A k \in DOMAIN proposals' : proposals'[k].version \in DOMAIN versions
    <3>1. proposals' = Append(proposals, q)
      BY <2>1, <2>4, <2>5
    <3> HIDE DEF PubProposal
    <3> QED BY <2>3, <2>4, <2>6, <2>7, <3>1
  <2>9. ClientTyped' /\ CallsTyped' /\ ServerTyped'
    BY <1>0, <2>1, <2>2, <2>8 DEF PubTypes, ClientTyped, CallsTyped, ServerTyped
  <2>10. StoreGrows
    BY <2>1 DEF StoreGrows
  <2> QED BY <2>1, <2>9, <2>10, BesideKeeps DEF PubTypes
<1>4. ASSUME NEW k, NEW approves \in BOOLEAN, Publishing!Decide(k, approves) PROVE PubInv'
  <2>1. /\ UNCHANGED <<pubEpoch, binding, editPending, queue, calls, submissions, drafts,
             versions, current>>
        /\ UNCHANGED <<requests, pubTrouble>>
        /\ k \in DOMAIN proposals
        /\ proposals' = [proposals EXCEPT ![k].open = FALSE]
        /\ \/ published' =
                [published EXCEPT ![versions[proposals[k].version].item] = proposals[k].version]
           \/ published' = published
    BY <1>4 DEF Publishing!Decide, Publishing!clientVars
  <2>2. PICK q \in PubProposal : q = proposals[k] /\ q.version \in DOMAIN versions
    <3> HIDE DEF PubProposal
    <3> QED BY <1>0, <2>1 DEF PubTypes, ServerTyped
  <2>3. PICK r : r = [q EXCEPT !.open = FALSE]
    OBVIOUS
  <2>4. r \in PubProposal /\ r.version = q.version
    BY <2>3 DEF PubProposal
  <2>5. proposals' = [proposals EXCEPT ![k] = r]
    BY <2>1, <2>2, <2>3
  <2>6. proposals' \in Seq(PubProposal)
        /\ \A j \in DOMAIN proposals' : proposals'[j].version \in DOMAIN versions
    <3>1. proposals \in Seq(PubProposal)
          /\ \A j \in DOMAIN proposals : proposals[j].version \in DOMAIN versions
      BY <1>0 DEF PubTypes, ServerTyped
    <3> HIDE DEF PubProposal
    <3>2. proposals' \in Seq(PubProposal)
      BY <2>1, <2>4, <2>5, <3>1, PlaceSet
    <3>3. DOMAIN proposals' = DOMAIN proposals
      BY <2>5
    <3>4. \A j \in DOMAIN proposals : proposals'[j] = IF j = k THEN r ELSE proposals[j]
      BY <2>5
    <3>5. \A j \in DOMAIN proposals' : proposals'[j].version \in DOMAIN versions
      BY <2>2, <2>4, <3>1, <3>3, <3>4
    <3> QED BY <3>2, <3>5
  <2>7. published' \in [Items -> 0 .. Len(versions)]
    <3>1. DOMAIN versions = 1 .. Len(versions) /\ Len(versions) \in Nat
          /\ versions[q.version] \in PubStored
      BY <1>0, <2>2, StoredAre DEF PubTypes, ServerTyped
    <3>2. versions[q.version].item \in Items /\ q.version \in 0 .. Len(versions)
      BY <2>2, <3>1 DEF PubStored, Publishing!Stored
    <3> QED BY <1>0, <2>1, <2>2, <3>2 DEF PubTypes, ServerTyped
  <2>8. ClientTyped' /\ CallsTyped' /\ ServerTyped'
    BY <1>0, <2>1, <2>6, <2>7 DEF PubTypes, ClientTyped, CallsTyped, ServerTyped
  <2>9. StoreGrows
    BY <2>1 DEF StoreGrows
  <2> QED BY <2>1, <2>8, <2>9, BesideKeeps DEF PubTypes
<1> QED
  BY <1>1, <1>2, <1>3, <1>4 DEF Publishing!Around

-----------------------------------------------------------------------------
(* The beginning, and every step *)

LEMMA PubInitInv == Publishing!PublicationInit => PubInv
<1> SUFFICES ASSUME Publishing!PublicationInit PROVE PubInv
  OBVIOUS
<1>0. /\ IsFiniteSet(Items) /\ Items # {} /\ None \notin Nat /\ MaxVersions \in Nat \ {0}
      /\ MaxDisturbances \in Nat
  BY PublishingAssumption
<1>1. PICK n \in Nat : n = Publishing!Cardinality(Items) /\ n # 0
  <2>1. Publishing!Cardinality(Items) = Cardinality(Items)
    BY DEF Publishing!Cardinality, Cardinality
  <2> QED BY <1>0, <2>1, FS_CardinalityType, FS_EmptySet
<1>2. PICK first \in [1 .. n -> Items] :
        /\ drafts = [d \in DOMAIN first |-> [item |-> first[d], view |-> "none"]]
        /\ pubEpoch = 0 /\ binding = [id |-> 1, draft |-> 1] /\ editPending = FALSE
        /\ queue = <<>>
        /\ calls = [c \in Calls |-> Publishing!NoCall]
        /\ submissions = [c \in Calls |-> Publishing!NoSubmission]
        /\ versions = <<[item |-> first[1], view |-> "none"]>>
        /\ current = [i \in Items |-> IF i = first[1] THEN 1 ELSE 0]
        /\ published = [i \in Items |-> 0]
        /\ requests = <<>> /\ proposals = <<>>
        /\ pubTrouble = 0
  BY <1>1 DEF Publishing!PublicationInit
<1>3. DOMAIN first = 1 .. n /\ 1 \in 1 .. n /\ first[1] \in Items
      /\ \A d \in 1 .. n : first[d] \in Items
  BY <1>1
<1>4. \A i \in Items : [item |-> i, view |-> "none"] \in PubStored
  BY DEF PubStored, Publishing!Stored, Publishing!Views
<1>5. drafts \in Seq(PubStored) /\ DOMAIN drafts = 1 .. n
  <2>1. \A d \in 1 .. n : [item |-> first[d], view |-> "none"] \in PubStored
    BY <1>3, <1>4
  <2> HIDE DEF PubStored
  <2>2. drafts \in [1 .. n -> PubStored]
    BY <1>2, <1>3, <2>1
  <2> QED BY <1>1, <2>2
<1>6. versions \in Seq(PubStored) /\ Len(versions) = 1 /\ DOMAIN versions = 1 .. 1
  <2>1. PICK w \in PubStored : w = [item |-> first[1], view |-> "none"]
    BY <1>3, <1>4
  <2>2. versions = <<w>>
    BY <1>2, <2>1
  <2> HIDE DEF PubStored
  <2> QED BY <2>2
<1>7. ClientTyped
  <2>1. binding \in [id : Nat, draft : Nat \union {None}] /\ binding.draft \in DOMAIN drafts
    BY <1>2, <1>3, <1>5
  <2>2. editPending \in BOOLEAN
    BY <1>2
  <2>3. pubEpoch = 0 /\ pubTrouble = 0
    BY <1>2
  <2>4. pubEpoch \in Nat /\ pubTrouble \in 0 .. MaxDisturbances
    BY <1>0, <2>3
  <2> QED BY <2>1, <2>2, <2>4 DEF ClientTyped
<1>8. CallsTyped
  <2>1. queue \in Seq(Calls)
    BY <1>2
  <2>2. calls \in [Calls -> PubCall]
    BY <1>2, NoCallIs
  <2>3. submissions \in [Calls -> PubSubmission]
    BY <1>2 DEF PubSubmission, Publishing!NoSubmission
  <2> QED BY <2>1, <2>2, <2>3 DEF CallsTyped
<1>9. ServerTyped
  <2>1. requests \in Seq(PubRequest) /\ proposals \in Seq(PubProposal) /\ DOMAIN proposals = {}
    BY <1>2
  <2>2. Len(versions) <= MaxVersions
    BY <1>0, <1>6
  <2>3. current \in [Items -> 0 .. 1] /\ published \in [Items -> 0 .. 1]
    BY <1>2
  <2> QED BY <1>5, <1>6, <2>1, <2>2, <2>3 DEF ServerTyped
<1>10. QueueRuns
  BY <1>2, NoCallIs DEF QueueRuns, Running
<1>11. CallsKnow
  <2>1. \A c \in Calls : calls[c].op = "none" /\ calls[c].step = "idle"
    BY <1>2, NoCallIs
  <2> QED BY <2>1 DEF CallsKnow, CallKnows
<1>12. PublishesPinned /\ RequestsPinned /\ Publishing!OneSubmission
  BY <1>2, NoCallIs DEF PublishesPinned, RequestsPinned, Publishing!OneSubmission
<1> QED
  BY <1>7, <1>8, <1>9, <1>10, <1>11, <1>12 DEF PubInv, PubTypes

\* Every way to ask keeps the invariant.
LEMMA PubAsksKeep ==
  ASSUME PubInv, NEW c \in Calls, Publishing!Ask(c)
  PROVE  PubInv'
<1>1. CASE Publishing!AskSave(c)
  BY <1>1, SaveAsked
<1>2. CASE \E op \in {"review", "reopen"}, v \in 1 .. MaxVersions : Publishing!AskAbout(c, op, v)
  BY <1>2, AboutAsked
<1>3. CASE \E r \in Calls, input \in Inputs : Publishing!AskPublish(c, r, input)
  BY <1>3, PublishAsked
<1>4. CASE \E d \in 1 .. MaxDrafts : Publishing!AskAttach(c, d)
  BY <1>4, AttachAsked
<1> QED
  BY <1>1, <1>2, <1>3, <1>4 DEF Publishing!Ask

\* Every step of a call keeps the invariant.
LEMMA PubProceedsKeep ==
  ASSUME PubInv, NEW c \in Calls, Publishing!Proceed(c)
  PROVE  PubInv'
<1>1. CASE Publishing!Prepared(c)
  BY <1>1, PreparedKeeps
<1>2. CASE Publishing!Begin(c)
  BY <1>2, BeginKeeps
<1>3. CASE Publishing!SaveView(c)
  BY <1>3, ViewKeeps
<1>4. CASE Publishing!LoseView(c)
  BY <1>4, ViewLostKeeps
<1>5. CASE Publishing!SendSave(c)
  BY <1>5, SendSaveKeeps
<1>6. CASE Publishing!Saved(c) \/ Publishing!Reviewed(c) \/ Publishing!Published(c)
  BY <1>6, ServerAnswerKeeps
<1>7. CASE Publishing!DraftRead(c) \/ Publishing!Checked(c)
  BY <1>7, ReadKeeps
<1>8. CASE Publishing!SendReopen(c)
  BY <1>8, SendReopenKeeps
<1>9. CASE Publishing!Observed(c)
  BY <1>9, ObservedKeeps
<1>10. CASE Publishing!ServerPublishes(c)
  BY <1>10, PublishesKeep
<1>11. CASE Publishing!LosePublish(c)
  BY <1>11, PublishLostKeeps
<1>12. CASE Publishing!KeepView(c)
  BY <1>12, KeepViewKeeps
<1> QED
  BY <1>1, <1>2, <1>3, <1>4, <1>5, <1>6, <1>7, <1>8, <1>9, <1>10, <1>11, <1>12
     DEF Publishing!Proceed

\* So does a step that changes nothing.
LEMMA PubStays ==
  ASSUME PubInv, UNCHANGED Publishing!pubVars
  PROVE  PubInv'
<1>1. UNCHANGED <<pubEpoch, binding, editPending, queue, calls, submissions, drafts, versions,
        current,
                  published, requests, proposals, pubTrouble>>
  BY DEF Publishing!pubVars
<1>2. PubTypes'
  BY <1>1 DEF PubInv, PubTypes, ClientTyped, CallsTyped, ServerTyped
<1> QED
  BY <1>1, <1>2, BesideKeeps DEF StoreGrows

\* The invariant implies the types.
LEMMA PubTyped == PubInv => Publishing!PublicationTypeOK
<1> SUFFICES ASSUME PubInv PROVE Publishing!PublicationTypeOK
  OBVIOUS
<1>1. ClientTyped /\ CallsTyped /\ ServerTyped
  BY DEF PubInv, PubTypes
<1>2. Len(versions) \in Nat /\ Len(versions) <= MaxVersions /\ MaxVersions \in Nat
  BY <1>1, StoredAre, PublishingAssumption DEF ServerTyped
<1>3. current \in [Items -> 0 .. MaxVersions] /\ published \in [Items -> 0 .. MaxVersions]
  <2>1. \A x \in 0 .. Len(versions) : x \in 0 .. MaxVersions
    BY <1>2
  <2> QED BY <1>1, <2>1 DEF ServerTyped
<1> QED
  BY <1>1, <1>3 DEF ClientTyped, CallsTyped, ServerTyped, Publishing!PublicationTypeOK, PubCall,
       PubStored,
     PubSubmission, PubRequest, PubProposal

\* A save that is done answers with a version of its draft's item that has the view it saved,
\* if it saved one, or another writer's.
LEMMA ViewsAreHeld == PubInv => Publishing!VersionHasView
  BY DEF PubInv, CallsKnow, CallKnows, Holds, Publishing!VersionHasView

\* A confirmed review leads to at most one publish request, and a save answers with a version
\* of its own draft and view, for any number of calls, confirmations, lost answers and other
\* writers (workspace-publication.ts, studio-workspace.ts).
THEOREM ReviewsSubmitOnce ==
  Publishing!PublicationSpec =>
    [](Publishing!PublicationTypeOK /\ Publishing!OneSubmission /\ Publishing!VersionHasView)
<1>1. Publishing!PublicationInit => PubInv
  BY PubInitInv
<1>2. PubInv /\ [Publishing!PublicationNext]_(Publishing!pubVars) => PubInv'
  BY PubAsksKeep, PubProceedsKeep, BesideStepsKeep, PubStays DEF Publishing!PublicationNext
<1>3. PubInv =>
        Publishing!PublicationTypeOK /\ Publishing!OneSubmission /\ Publishing!VersionHasView
  BY PubTyped, ViewsAreHeld DEF PubInv
<1> QED
  BY <1>1, <1>2, <1>3, PTL DEF Publishing!PublicationSpec

(***************************************************************************)
(* LocalRuns: a run that nobody recorded is retained for its source.       *)
(*                                                                         *)
(* The action under way knows the retained command of the text it runs, and*)
(* a command marked accepted is in the history: so a text's retained entry *)
(* is replaced or cleared only when its run, if there was one, is recorded.*)
(***************************************************************************)
LocalAction == [kind : Local!Kinds, stage : Local!Stages, client : Nat,
                of : Local!Project \union {None}, command : 0 .. MaxCommands]

ActionIs(a, kind, stage, n, of, c) ==
  /\ a.kind = kind /\ a.stage = stage /\ a.client = n /\ a.of = of /\ a.command = c

Started(kind, stage, n, of) ==
  [Local!NoAction EXCEPT !.kind = kind, !.stage = stage, !.client = n, !.of = of]

\* An action as it starts.
LEMMA StartedIs ==
  ASSUME NEW kind, NEW stage, NEW n, NEW of
  PROVE  ActionIs(Started(kind, stage, n, of), kind, stage, n, of, 0)
  BY DEF Local!NoAction, ActionIs, Started

\* It is an action.
LEMMA StartedTyped ==
  ASSUME NEW kind \in Local!Kinds, NEW stage \in Local!Stages, NEW n \in Nat,
         NEW of \in Local!Project \union {None}
  PROVE  Started(kind, stage, n, of) \in LocalAction
<1>1. Local!NoAction \in LocalAction
  BY LocalAssumption DEF Local!NoAction, LocalAction, Local!Kinds, Local!Stages
<1>2. ASSUME NEW a \in LocalAction
      PROVE  [a EXCEPT !.kind = kind, !.stage = stage, !.client = n, !.of = of] \in LocalAction
  BY DEF LocalAction
<1> QED
  BY <1>1, <1>2 DEF Started

Moved(a, stage, c) == [a EXCEPT !.stage = stage, !.command = c]
\* An action that moves to a stage with a command.
LEMMA MovedIs ==
  ASSUME NEW a \in LocalAction, NEW stage \in Local!Stages, NEW c \in 0 .. MaxCommands
  PROVE  /\ Moved(a, stage, c) \in LocalAction
         /\ ActionIs(Moved(a, stage, c), a.kind, stage, a.client, a.of, c)
<1>1. Moved(a, stage, c) \in LocalAction
  BY DEF LocalAction, Moved
<1>2. ActionIs(Moved(a, stage, c), a.kind, stage, a.client, a.of, c)
  BY DEF LocalAction, ActionIs, Moved
<1> QED BY <1>1, <1>2

\* An action that moves to a stage.
LEMMA StagedIs ==
  ASSUME NEW a \in LocalAction, NEW stage \in Local!Stages
  PROVE  /\ [a EXCEPT !.stage = stage] \in LocalAction
         /\ ActionIs([a EXCEPT !.stage = stage], a.kind, stage, a.client, a.of, a.command)
  BY DEF LocalAction, ActionIs

Written(a) == [a EXCEPT !.stage = "answer", !.of.revision = @ + 1]

\* An action whose text was written is about the next revision.
LEMMA WrittenIs ==
  ASSUME NEW a \in LocalAction, a.of \in Local!Project, a.of.revision < MaxRevision
  PROVE  /\ Written(a) \in LocalAction
         /\ ActionIs(Written(a), a.kind, "answer", a.client,
              [text |-> a.of.text, revision |-> a.of.revision + 1], a.command)
<1>0. "answer" \in Local!Stages
  BY DEF Local!Stages
<1>1. PICK p : p = [a.of EXCEPT !.revision = @ + 1]
  OBVIOUS
<1>2. p \in Local!Project /\ p = [text |-> a.of.text, revision |-> a.of.revision + 1]
  BY <1>1, LocalAssumption DEF Local!Project
<1>3. Written(a) = [a EXCEPT !.stage = "answer", !.of = p]
  BY <1>1 DEF Written, LocalAction
<1>4. Written(a) \in LocalAction
  BY <1>0, <1>2, <1>3 DEF LocalAction
<1>5. ActionIs(Written(a), a.kind, "answer", a.client, p, a.command)
  BY <1>3 DEF ActionIs, LocalAction
<1> QED BY <1>2, <1>4, <1>5

\* What an action that runs a snapshot knows of the retained command.
ActionKnows(a) ==
  /\ a \in LocalAction
  /\ a.kind \in {"save", "run"} => a.of \in Local!Project
  /\ a.stage \in {"observe", "snapshot", "submit"} => a.kind = "run"
  /\ a.kind = "run" =>
       /\ a.stage = "observe" => Local!IsPending(a.of.text)
       /\ a.stage = "snapshot" => ~Local!IsPending(a.of.text)
       /\ a.stage = "submit" =>
            retained[a.of.text] # None /\ retained[a.of.text].command = a.command

AcceptedIsRecorded ==
  \A t \in Texts : retained[t] # None /\ retained[t].accepted => retained[t].command \in recorded

ShownTypes ==
  /\ disk \in Local!Project
  /\ identity \in Local!Project \union {None} /\ project \in Local!Project \union {None}
  /\ file \in Texts \union {None} /\ content \in Texts
  /\ task = None \/ task \in [client : Nat, text : Texts, reference : Local!Project]
  /\ client \in Nat /\ upsets \in 0 .. MaxUpsets

RunTypes ==
  /\ retained \in [Texts -> Local!Retained \union {None}]
  /\ runs \in Seq([command : 1 .. MaxCommands, text : Texts])
  /\ receipt \in 0 .. MaxCommands /\ commands \in 0 .. MaxCommands
  /\ recorded \subseteq 1 .. MaxCommands

LocalInv ==
  /\ ShownTypes /\ RunTypes
  /\ ActionKnows(action)
  /\ AcceptedIsRecorded
  /\ Local!UnrecordedRunIsRetained

\* No action knows nothing.
LEMMA NoActionKnows == ActionKnows(Local!NoAction)
  BY LocalAssumption
     DEF ActionKnows, Local!NoAction, LocalAction, Local!Kinds, Local!Stages

\* Nothing runs and nothing is retained at first.
LEMMA LocalInvInit == Local!LocalInit => LocalInv
<1> SUFFICES ASSUME Local!LocalInit PROVE LocalInv
  OBVIOUS
<1>1. ShownTypes
  BY LocalAssumption DEF Local!LocalInit, ShownTypes, Local!Project
<1>2. RunTypes
  BY LocalAssumption DEF Local!LocalInit, RunTypes
<1>3. ActionKnows(action)
  BY NoActionKnows DEF Local!LocalInit
<1>4. AcceptedIsRecorded /\ Local!UnrecordedRunIsRetained
  BY DEF Local!LocalInit, AcceptedIsRecorded, Local!UnrecordedRunIsRetained
<1> QED
  BY <1>1, <1>2, <1>3, <1>4 DEF LocalInv

\* A step that leaves storage, runs and history as they are.
Quiet == UNCHANGED <<retained, runs, commands, recorded>>

\* A step that changes neither the runs nor what is retained keeps the invariant if its
\* action knows enough.
LEMMA QuietKeeps ==
  ASSUME LocalInv, Quiet, ShownTypes', ActionKnows(action)', receipt' \in 0 .. MaxCommands
  PROVE  LocalInv'
  BY DEF LocalInv, Quiet, RunTypes, AcceptedIsRecorded, Local!UnrecordedRunIsRetained

\* What an action knows is about storage.
LEMMA StillKnows ==
  ASSUME NEW a, a = action', ActionKnows(a), UNCHANGED retained
  PROVE  ActionKnows(action)'
  BY DEF ActionKnows, Local!IsPending

\* An action that waits knows what it knew.
LEMMA UnchangedAction ==
  ASSUME LocalInv, UNCHANGED <<action, retained>>
  PROVE  ActionKnows(action)'
  BY StillKnows DEF LocalInv

\* So does one that stopped.
LEMMA StoppedAction ==
  ASSUME action' = Local!NoAction, UNCHANGED retained
  PROVE  ActionKnows(action)'
  BY NoActionKnows, StillKnows

\* An action begins.
LEMMA BegunAction ==
  ASSUME LocalInv, UNCHANGED retained,
         NEW kind \in Local!Kinds, NEW stage \in Local!Stages,
         NEW of \in Local!Project \union {None},
         action' = Started(kind, stage, client, of),
         kind \in {"save", "run"} => of \in Local!Project,
         stage \in {"observe", "snapshot", "submit"} => kind = "run",
         kind = "run" => stage = IF Local!IsPending(of.text) THEN "observe" ELSE "snapshot"
  PROVE  ActionKnows(action)'
<1> DEFINE a == Started(kind, stage, client, of)
<1>1. a \in LocalAction /\ ActionIs(a, kind, stage, client, of, 0)
  BY StartedIs, StartedTyped DEF LocalInv, ShownTypes
<1> HIDE DEF a
<1>2. ActionKnows(a)
  BY <1>1 DEF ActionKnows, ActionIs
<1> QED
  BY <1>2, StillKnows DEF a

\* The element and its editor.
LEMMA ElementSteps ==
  ASSUME LocalInv,
         \/ \E t \in Texts : Local!Type(t) \/ Local!EditOutside(t)
         \/ Local!ReplaceClient \/ Local!AskAttach \/ Local!Attached
  PROVE  LocalInv'
<1>1. Quiet /\ UNCHANGED action /\ receipt' \in 0 .. MaxCommands
  BY LocalAssumption DEF LocalInv, RunTypes, Quiet, Local!Type, Local!EditOutside,
       Local!ReplaceClient,
         Local!AskAttach, Local!Attached
<1>2. ShownTypes'
  <2> USE LocalAssumption DEF LocalInv, ShownTypes, Local!Spend
  <2>1. ASSUME NEW t \in Texts, Local!Type(t) PROVE ShownTypes'
    BY <2>1 DEF Local!Type
  <2>2. ASSUME NEW t \in Texts, Local!EditOutside(t) PROVE ShownTypes'
    BY <2>2 DEF Local!EditOutside, Local!Project
  <2>3. CASE Local!ReplaceClient
    BY <2>3 DEF Local!ReplaceClient
  <2>4. CASE Local!AskAttach
    BY <2>4 DEF Local!AskAttach
  <2>5. CASE Local!Attached
    BY <2>5 DEF Local!Attached, Local!Project
  <2> QED
    BY <2>1, <2>2, <2>3, <2>4, <2>5
<1> QED
  BY <1>1, <1>2, UnchangedAction, QuietKeeps DEF Quiet

\* Beginning an action.
LEMMA AskSteps ==
  ASSUME LocalInv,
         Local!AskLoad \/ Local!AskSave \/ Local!AskRun \/ Local!Status
  PROVE  LocalInv'
<1>1. Quiet /\ receipt' \in 0 .. MaxCommands
  BY DEF LocalInv, RunTypes, Quiet, Local!AskLoad, Local!AskSave, Local!AskRun, Local!Status
<1>2. ShownTypes'
  <2>1. Local!Spend /\ UNCHANGED <<disk, identity, project, file, content, task, client>>
    BY DEF Local!Begin, Local!AskLoad, Local!AskSave, Local!AskRun, Local!Status
  <2> QED
    BY <2>1, LocalAssumption DEF LocalInv, ShownTypes, Local!Spend
<1>3. ActionKnows(action)'
  <2> USE DEF LocalInv, ShownTypes, Quiet
  <2>1. CASE Local!AskLoad
    <3>1. action' = Started("load", "bind", client, project)
      BY <2>1 DEF Local!AskLoad, Local!Begin, Started
    <3> QED
      BY <3>1, <1>1, BegunAction DEF Local!Kinds, Local!Stages
  <2>2. CASE Local!Status
    <3>1. action' = Started("status", "answer", client, project)
      BY <2>2 DEF Local!Status, Local!Begin, Started
    <3> QED
      BY <3>1, <1>1, BegunAction DEF Local!Kinds, Local!Stages
  <2>3. CASE Local!AskRun
    <3>0. PICK stage : stage = IF Local!IsPending(identity.text) THEN "observe" ELSE "snapshot"
      OBVIOUS
    <3>1. action' = Started("run", stage, client, project)
      BY <2>3, <3>0 DEF Local!AskRun, Local!Begin, Started
    <3>2. identity # None /\ project = identity
      BY <2>3 DEF Local!AskRun
    <3>3. "run" \in Local!Kinds /\ stage \in Local!Stages
      BY <3>0 DEF Local!Kinds, Local!Stages
    <3> QED
      BY <3>0, <3>1, <3>2, <3>3, <1>1, BegunAction
  <2>4. CASE Local!AskSave
    <3>0. PICK of : of = [text |-> content, revision |-> project.revision]
      OBVIOUS
    <3>1. action' = Started("save", "put", client, of)
      BY <2>4, <3>0 DEF Local!AskSave, Started
    <3>2. of \in Local!Project
      BY <2>4, <3>0 DEF Local!AskSave, Local!Project
    <3>3. "save" \in Local!Kinds /\ "put" \in Local!Stages
      BY DEF Local!Kinds, Local!Stages
    <3> QED
      BY <3>1, <3>2, <3>3, <1>1, BegunAction
  <2> QED
    BY <2>1, <2>2, <2>3, <2>4
<1> QED
  BY <1>1, <1>2, <1>3, QuietKeeps

\* An action goes on to another stage.
LEMMA StagedAction ==
  ASSUME LocalInv, UNCHANGED retained, NEW stage \in Local!Stages,
         action' = [action EXCEPT !.stage = stage],
         stage \notin {"observe", "snapshot", "submit"}
  PROVE  ActionKnows(action)'
<1>1. action \in LocalAction
  BY DEF LocalInv, ActionKnows
<1>2. action' \in LocalAction
      /\ ActionIs(action', action.kind, stage, action.client, action.of, action.command)
  BY <1>1, StagedIs
<1> QED
  BY <1>2 DEF LocalInv, ActionKnows, ActionIs

\* Answers that neither run nor retain anything.
LEMMA AnswerSteps ==
  ASSUME LocalInv,
         Local!Bound \/ Local!Loaded \/ Local!Put \/ Local!Saved \/ Local!StatusRead
           \/ Local!Reload
  PROVE  LocalInv'
<1>1. Quiet /\ receipt' \in 0 .. MaxCommands
  BY LocalAssumption DEF LocalInv, RunTypes, Quiet, Local!Bound, Local!Loaded, Local!Put,
     Local!Saved, Local!StatusRead, Local!Reload
<1>2. CASE Local!Bound
  <2>1. ShownTypes'
    BY <1>2 DEF LocalInv, ShownTypes, Local!Bound
  <2>2. ActionKnows(action)'
    <3>1. action' = [action EXCEPT !.stage = "read"] \/ action' = Local!NoAction
      BY <1>2 DEF Local!Bound
    <3> QED
      BY <3>1, <1>1, StagedAction, StoppedAction DEF Quiet, Local!Stages
  <2> QED
    BY <1>1, <2>1, <2>2, QuietKeeps
<1>3. CASE Local!Loaded \/ Local!Saved \/ Local!StatusRead \/ Local!Reload
  <2>1. action' = Local!NoAction
    BY <1>3 DEF Local!Loaded, Local!Saved, Local!StatusRead, Local!Reload, Local!Stops
  <2>2. ShownTypes'
    <3> USE LocalAssumption DEF LocalInv, ShownTypes
    <3>1. CASE Local!Loaded
      BY <3>1 DEF Local!Loaded, Local!Project
    <3>2. CASE Local!Saved
      <4>1. action.of \in Local!Project /\ action.of.text \in Texts
        BY <3>2 DEF Local!Saved, ActionKnows, Local!Project
      <4> QED
        BY <3>2, <4>1 DEF Local!Saved
    <3>3. CASE Local!StatusRead
      BY <3>3 DEF Local!StatusRead
    <3>4. CASE Local!Reload
      BY <3>4 DEF Local!Reload, Local!Spend
    <3> QED
      BY <1>3, <3>1, <3>2, <3>3, <3>4
  <2> QED
    BY <1>1, <2>1, <2>2, StoppedAction, QuietKeeps DEF Quiet
<1>4. CASE Local!Put
  <2>1. action \in LocalAction /\ action.of \in Local!Project /\ action.kind = "save"
    BY <1>4 DEF LocalInv, ActionKnows, Local!Put
  <2>2. CASE action.of.revision = disk.revision /\ disk.revision < MaxRevision
    <3>1. /\ disk' = [text |-> action.of.text, revision |-> disk.revision + 1]
          /\ action' = Written(action)
          /\ UNCHANGED <<identity, project, file, content, task, client, upsets>>
      BY <1>4, <2>2 DEF Local!Put, Written
    <3>2. disk' \in Local!Project
      BY <2>1, <2>2, <3>1, LocalAssumption DEF LocalInv, ShownTypes, Local!Project
    <3>3. ShownTypes'
      BY <3>1, <3>2 DEF LocalInv, ShownTypes
    <3>4. PICK of : of = [text |-> action.of.text, revision |-> action.of.revision + 1]
      OBVIOUS
    <3>5. action' \in LocalAction /\ of \in Local!Project
          /\ ActionIs(action', action.kind, "answer", action.client, of, action.command)
      BY <2>1, <2>2, <3>1, <3>2, <3>4, WrittenIs
    <3>6. ActionKnows(action)'
      BY <2>1, <3>5 DEF ActionKnows, ActionIs
    <3> QED
      BY <1>1, <3>3, <3>6, QuietKeeps
  <2>3. CASE ~(action.of.revision = disk.revision /\ disk.revision < MaxRevision)
    <3>1. action' = Local!NoAction
          /\ UNCHANGED <<disk, identity, project, file, content, task, client, upsets>>
      BY <1>4, <2>3 DEF Local!Put, Local!Stops
    <3>2. ShownTypes'
      BY <3>1 DEF LocalInv, ShownTypes
    <3> QED
      BY <1>1, <3>1, <3>2, StoppedAction, QuietKeeps DEF Quiet
  <2> QED
    BY <2>2, <2>3
<1> QED
  BY <1>2, <1>3, <1>4

\* A run of the command retained for its source.
CarriedOut ==
  \/ UNCHANGED runs
  \/ runs' = Append(runs, [command |-> action.command, text |-> action.of.text])

\* The bridge carries a command out once, under the number retained for its text.
LEMMA RunsAfter ==
  ASSUME LocalInv, action.kind = "run", action.stage = "submit",
         Local!CarryOut(action.of.text, action.command)
  PROVE  /\ runs' \in Seq([command : 1 .. MaxCommands, text : Texts])
         /\ action.of.text \in Texts /\ action.command \in 1 .. MaxCommands
         /\ retained[action.of.text] # None
         /\ retained[action.of.text].command = action.command
         /\ \A i \in DOMAIN runs' :
              \/ i \in DOMAIN runs /\ runs'[i] = runs[i]
              \/ runs'[i].command = action.command /\ runs'[i].text = action.of.text
<1>1. /\ action.of.text \in Texts /\ action.command \in 1 .. MaxCommands
      /\ retained[action.of.text] # None
      /\ retained[action.of.text].command = action.command
  BY DEF LocalInv, ActionKnows, RunTypes, Local!Project, Local!Retained
<1>2. PICK run : run = [command |-> action.command, text |-> action.of.text]
  OBVIOUS
<1>3. run \in [command : 1 .. MaxCommands, text : Texts]
      /\ run.command = action.command /\ run.text = action.of.text
  BY <1>1, <1>2
<1>4. runs' = runs \/ runs' = Append(runs, run)
  BY <1>2 DEF Local!CarryOut
<1>5. runs \in Seq([command : 1 .. MaxCommands, text : Texts])
  BY DEF LocalInv, RunTypes
<1> DEFINE RunShape == [command : 1 .. MaxCommands, text : Texts]
<1>6. CASE runs' = runs
  BY <1>1, <1>5, <1>6
<1>7. CASE runs' = Append(runs, run)
  <2>1. run \in RunShape /\ runs \in Seq(RunShape)
    BY <1>3, <1>5
  <2> HIDE DEF RunShape
  <2>2. /\ runs' \in Seq(RunShape)
        /\ \A i \in DOMAIN runs' : (i \in DOMAIN runs /\ runs'[i] = runs[i]) \/ runs'[i] = run
    BY <1>7, <2>1
  <2> QED
    BY <1>1, <1>3, <2>2 DEF RunShape
<1> QED
  BY <1>4, <1>6, <1>7

\* What is retained for a run that nobody recorded.
LEMMA RetainedOf ==
  ASSUME LocalInv, NEW i \in DOMAIN runs
  PROVE  /\ runs[i].text \in Texts
         /\ runs[i].command \notin recorded =>
              /\ retained[runs[i].text] # None
              /\ retained[runs[i].text].command = runs[i].command
<1>1. runs[i].text \in Texts
  <2> DEFINE RunShape == [command : 1 .. MaxCommands, text : Texts]
  <2>1. runs \in Seq(RunShape) /\ \A run \in RunShape : run.text \in Texts
    BY DEF LocalInv, RunTypes
  <2> HIDE DEF RunShape
  <2> QED
    BY <2>1
<1> QED
  BY <1>1 DEF LocalInv, Local!UnrecordedRunIsRetained

\* The receipt is kept with the command it is of.
LEMMA RecordedKeeps ==
  ASSUME LocalInv, ShownTypes', action.kind = "run",
         NEW c, c = retained[action.of.text].command, retained[action.of.text] # None,
         Local!Records(action.of.text, c), UNCHANGED commands,
         runs' \in Seq([command : 1 .. MaxCommands, text : Texts]),
         \A i \in DOMAIN runs' :
              \/ i \in DOMAIN runs /\ runs'[i] = runs[i]
              \/ runs'[i].command = c
  PROVE  LocalInv'
<1>1. PICK t : t = action.of.text
  OBVIOUS
<1>2. t \in Texts
  BY <1>1 DEF LocalInv, ActionKnows, Local!Project
<1>3. c \in 1 .. MaxCommands
  BY <1>1, <1>2 DEF LocalInv, RunTypes, Local!Retained
<1>4. PICK kept : kept = [command |-> c, accepted |-> TRUE]
  OBVIOUS
<1>5. kept \in Local!Retained /\ kept.command = c /\ kept # None
  <2>1. kept \in Local!Retained
    BY <1>3, <1>4 DEF Local!Retained
  <2> QED
    BY <1>4, <2>1, LocalAssumption
<1>6. /\ retained' = [retained EXCEPT ![t] = kept]
      /\ recorded' = recorded \union {c}
      /\ receipt' \in {c, receipt} /\ action' = Local!NoAction
  BY <1>1, <1>4 DEF Local!Records, Local!Stops
<1>7. RunTypes'
  <2>1. retained' \in [Texts -> Local!Retained \union {None}]
    BY <1>5, <1>6 DEF LocalInv, RunTypes
  <2>2. /\ recorded' \subseteq 1 .. MaxCommands /\ receipt' \in 0 .. MaxCommands
        /\ commands' \in 0 .. MaxCommands
    <3>1. recorded \subseteq 1 .. MaxCommands /\ receipt \in 0 .. MaxCommands
          /\ commands \in 0 .. MaxCommands
      BY DEF LocalInv, RunTypes
    <3>2. c \in 0 .. MaxCommands
      BY <1>3
    <3> QED
      BY <1>3, <1>6, <3>1, <3>2
  <2> QED
    BY <2>1, <2>2 DEF RunTypes
<1>8. ActionKnows(action)'
  BY <1>6, NoActionKnows DEF ActionKnows, Local!NoAction
<1>9. AcceptedIsRecorded'
  BY <1>2, <1>5, <1>6 DEF LocalInv, RunTypes, AcceptedIsRecorded
<1>10. Local!UnrecordedRunIsRetained'
  <2> SUFFICES ASSUME NEW i \in DOMAIN runs', runs'[i].command \notin recorded'
               PROVE  retained'[runs'[i].text] # None
                      /\ retained'[runs'[i].text].command = runs'[i].command
    BY DEF Local!UnrecordedRunIsRetained
  <2>1. i \in DOMAIN runs /\ runs'[i] = runs[i] /\ runs[i].command \notin recorded
    BY <1>6
  <2>2. /\ retained[runs[i].text] # None /\ runs[i].text \in Texts
        /\ retained[runs[i].text].command = runs[i].command
    BY <2>1, RetainedOf
  <2>3. runs[i].text # t
    BY <1>1, <1>6, <2>1, <2>2
  <2> QED
    BY <1>6, <2>1, <2>2, <2>3 DEF LocalInv, RunTypes
<1> QED
  BY <1>7, <1>8, <1>9, <1>10 DEF LocalInv

\* The steps of a run, from the snapshot to its end.
LEMMA RunSteps ==
  ASSUME LocalInv,
         Local!Observed \/ Local!Snapshot \/ Local!Submitted \/ Local!SubmittedUnknown
           \/ Local!Fail
  PROVE  LocalInv'
<1>1. /\ UNCHANGED <<disk, identity, project, file, content, task, client>>
      /\ upsets' = upsets \/ Local!Spend
  BY DEF Local!Observed, Local!Snapshot, Local!Submitted, Local!SubmittedUnknown, Local!Fail
<1>2. ShownTypes'
  BY <1>1, LocalAssumption DEF LocalInv, ShownTypes, Local!Spend
<1>3. CASE Local!Observed
  <2>1. PICK t : t = action.of.text
    OBVIOUS
  <2>2. /\ action.kind = "run" /\ action.stage = "observe" /\ UNCHANGED <<runs, commands>>
        /\ IF Local!Known(retained[t].command)
           THEN Local!Records(t, retained[t].command)
           ELSE /\ action' = Moved(action, "submit", retained[t].command)
                /\ UNCHANGED <<retained, receipt, recorded>>
    BY <1>3, <2>1 DEF Local!Observed, Moved
  <2>3. retained[t] # None /\ t \in Texts
    BY <2>1, <2>2 DEF LocalInv, ActionKnows, Local!IsPending, Local!Project
  <2>4. CASE Local!Known(retained[t].command)
    <3>1. Local!Records(action.of.text, retained[t].command)
      BY <2>1, <2>2, <2>4
    <3> QED
      BY <1>2, <2>1, <2>2, <2>3, <3>1, RecordedKeeps DEF LocalInv, RunTypes
  <2>5. CASE ~Local!Known(retained[t].command)
    <3>1. action' = Moved(action, "submit", retained[t].command) /\ Quiet /\ UNCHANGED receipt
      BY <2>2, <2>5 DEF Quiet
    <3>2. retained[t].command \in 0 .. MaxCommands /\ action \in LocalAction
      BY <2>3 DEF LocalInv, RunTypes, Local!Retained, ActionKnows
    <3>3. action' \in LocalAction
          /\ ActionIs(action', action.kind, "submit", action.client, action.of,
                      retained[t].command)
      BY <3>1, <3>2, MovedIs DEF Local!Stages
    <3>4. ActionKnows(action)'
      BY <2>1, <2>2, <2>3, <3>1, <3>3 DEF ActionKnows, ActionIs, LocalInv, Quiet
    <3> QED
      BY <1>2, <3>1, <3>4, QuietKeeps DEF LocalInv, RunTypes
  <2> QED
    BY <2>4, <2>5
<1>4. CASE Local!Submitted
  <2>1. /\ action.kind = "run" /\ action.stage = "submit" /\ UNCHANGED commands
        /\ Local!CarryOut(action.of.text, action.command)
        /\ Local!Records(action.of.text, action.command)
    BY <1>4 DEF Local!Submitted
  <2>2. PICK c : c = action.command
    OBVIOUS
  <2> QED
    BY <1>2, <2>1, <2>2, RunsAfter, RecordedKeeps
<1>5. CASE Local!SubmittedUnknown \/ Local!Fail
  <2>1. /\ action' = Local!NoAction /\ UNCHANGED <<retained, commands, recorded>>
        /\ receipt' \in {receipt, action.command}
    BY <1>5 DEF Local!SubmittedUnknown, Local!Fail, Local!Stops
  <2>2. UNCHANGED runs
        \/ (action.stage = "submit" /\ Local!CarryOut(action.of.text, action.command))
    BY <1>5 DEF Local!SubmittedUnknown, Local!Fail
  <2>3. action.stage = "submit" => action.kind = "run"
    BY DEF LocalInv, ActionKnows
  <2>4. RunTypes'
    BY <2>1, <2>2, <2>3, RunsAfter DEF LocalInv, RunTypes, ActionKnows, LocalAction
  <2>5. Local!UnrecordedRunIsRetained'
    BY <2>1, <2>2, <2>3, RunsAfter DEF LocalInv, Local!UnrecordedRunIsRetained
  <2>6. AcceptedIsRecorded'
    BY <2>1 DEF LocalInv, AcceptedIsRecorded
  <2> QED
    BY <1>2, <2>1, <2>4, <2>5, <2>6, StoppedAction DEF LocalInv
<1>6. CASE Local!Snapshot
  <2>1. PICK t : t = action.of.text
    OBVIOUS
  <2>2. /\ action.kind = "run" /\ action.stage = "snapshot"
        /\ UNCHANGED <<runs, receipt, recorded>>
    BY <1>6 DEF Local!Snapshot
  <2>3. t \in Texts /\ ~Local!IsPending(t) /\ action \in LocalAction
        /\ action.of \in Local!Project
    BY <2>1, <2>2 DEF LocalInv, ActionKnows, Local!Project
  <2>4. CASE disk = action.of /\ commands < MaxCommands
    <3>1. PICK c : c = commands + 1
      OBVIOUS
    <3>2. PICK kept : kept = [command |-> c, accepted |-> FALSE]
      OBVIOUS
    <3>3. /\ commands' = c /\ retained' = [retained EXCEPT ![t] = kept]
          /\ action' = Moved(action, "submit", c)
      BY <1>6, <2>1, <2>4, <3>1, <3>2 DEF Local!Snapshot, Moved
    <3>4. c \in 1 .. MaxCommands /\ c \in 0 .. MaxCommands
      BY <2>4, <3>1, LocalAssumption DEF LocalInv, RunTypes
    <3>5. kept \in Local!Retained /\ kept.command = c /\ ~kept.accepted /\ kept # None
      <4>1. kept \in Local!Retained
        BY <3>2, <3>4 DEF Local!Retained
      <4> QED
        BY <3>2, <4>1, LocalAssumption
    <3>6. RunTypes'
      BY <2>2, <3>3, <3>4, <3>5 DEF LocalInv, RunTypes
    <3>7. action' \in LocalAction
          /\ ActionIs(action', action.kind, "submit", action.client, action.of, c)
      BY <2>3, <3>3, <3>4, MovedIs DEF Local!Stages
    <3>8. ActionKnows(action)'
      BY <2>1, <2>2, <2>3, <3>3, <3>5, <3>7 DEF ActionKnows, ActionIs, LocalInv, RunTypes
    <3>9. AcceptedIsRecorded'
      BY <2>2, <2>3, <3>3, <3>5 DEF LocalInv, RunTypes, AcceptedIsRecorded
    <3>10. Local!UnrecordedRunIsRetained'
      <4> SUFFICES ASSUME NEW i \in DOMAIN runs, runs[i].command \notin recorded
                   PROVE  retained'[runs[i].text] # None
                          /\ retained'[runs[i].text].command = runs[i].command
        BY <2>2 DEF Local!UnrecordedRunIsRetained
      <4>1. /\ retained[runs[i].text] # None /\ runs[i].text \in Texts
            /\ retained[runs[i].text].command = runs[i].command
        BY RetainedOf
      <4>2. runs[i].text # t
        BY <2>3, <4>1 DEF LocalInv, AcceptedIsRecorded, Local!IsPending
      <4> QED
        BY <3>3, <4>1, <4>2 DEF LocalInv, RunTypes
    <3> QED
      BY <1>2, <3>6, <3>8, <3>9, <3>10 DEF LocalInv
  <2>5. CASE ~(disk = action.of /\ commands < MaxCommands)
    <3>1. action' = Local!NoAction /\ Quiet /\ UNCHANGED receipt
      BY <1>6, <2>2, <2>5 DEF Local!Snapshot, Local!Stops, Quiet
    <3> QED
      BY <1>2, <3>1, StoppedAction, QuietKeeps DEF Quiet, LocalInv, RunTypes
  <2> QED
    BY <2>4, <2>5
<1> QED
  BY <1>3, <1>4, <1>5, <1>6

\* Every step keeps the invariant.
LEMMA LocalInvNext == LocalInv /\ [Local!LocalNext]_(Local!localVars) => LocalInv'
<1> SUFFICES ASSUME LocalInv, [Local!LocalNext]_(Local!localVars) PROVE LocalInv'
  OBVIOUS
<1>1. CASE UNCHANGED Local!localVars
  <2>1. Quiet /\ UNCHANGED <<action, receipt>> /\ ShownTypes'
    BY <1>1 DEF Local!localVars, LocalInv, ShownTypes, Quiet
  <2> QED
    BY <2>1, UnchangedAction, QuietKeeps DEF Quiet, LocalInv, RunTypes
<1>2. CASE Local!LocalNext
  BY <1>2, ElementSteps, AskSteps, AnswerSteps, RunSteps DEF Local!LocalNext
<1> QED
  BY <1>1, <1>2

\* The invariant implies what the run checks.
LEMMA LocalInvImplies ==
  LocalInv => Local!LocalTypeOK /\ Local!UnrecordedRunIsRetained
  BY DEF LocalInv, Local!LocalTypeOK, ShownTypes, RunTypes, ActionKnows, LocalAction

\* A task that ends replaces no unsaved text of the same client.
LEMMA AttachSteps ==
  LocalInv /\ [Local!LocalNext]_(Local!localVars) =>
    (task # None /\ task' = None /\ content' # content => ~Local!Dirty \/ client' # client)
<1> SUFFICES ASSUME LocalInv, Local!LocalNext, task # None, task' = None, content' # content
             PROVE  ~Local!Dirty \/ client' # client
  BY DEF Local!localVars
<1>1. Local!Attached \/ Local!Reload
  BY DEF Local!LocalNext, Local!AskLoad, Local!Bound, Local!Loaded, Local!AskSave, Local!Put,
     Local!Saved, Local!AskRun, Local!Observed, Local!Snapshot, Local!Submitted,
     Local!SubmittedUnknown, Local!Status, Local!StatusRead, Local!Fail, Local!AskAttach,
     Local!ReplaceClient, Local!Type, Local!EditOutside
<1>2. CASE Local!Attached
  BY <1>2 DEF Local!Attached, Local!Untouched
<1>3. CASE Local!Reload
  BY <1>3 DEF Local!Reload, LocalInv, ShownTypes
<1> QED
  BY <1>1, <1>2, <1>3

\* A run the bridge carried out is recorded or retained for its source, whatever texts and
\* however many commands, reloads and lost answers there are, and attaching takes no unsaved
\* text away (custom-process-workspace.ts, studio-custom-processes-element.ts).
THEOREM RunsAreRetained ==
  Local!LocalSpec => /\ [](Local!LocalTypeOK /\ Local!UnrecordedRunIsRetained)
                     /\ Local!AttachKeepsText
  BY LocalInvInit, LocalInvNext, LocalInvImplies, AttachSteps, PTL
     DEF Local!LocalSpec, Local!AttachKeepsText

(***************************************************************************)
(* ArtifactImports: an open upload is retained in some workspace.          *)
(*                                                                         *)
(* What a request captured of its workspace stays true of the upload it is *)
(* about, whoever moves it; uploads under way are different ones; and an   *)
(* upload that is about to be sent is the one its slot retains.            *)
(***************************************************************************)
TabRequest == [stage : Imports!Stages, authority : Imports!Authority \union {None},
               source : Artifacts \union {None}]
TabPage == [scope : Scopes, shown : Imports!Statuses, request : TabRequest]

\* Where the request has an upload of its own.
Uploading == {"upload", "started", "finished"}

\* What a request knows of the upload it is about.
RequestKnows(q) ==
  /\ q \in TabRequest
  /\ q.stage # "idle" => q.authority # None /\ q.source # None
  /\ q.stage \in {"reconcile", "status", "cancel"} =>
       q.authority.raw # None /\ q.authority.raw.job
  /\ q.stage = "download" /\ q.authority.raw # None =>
       q.authority.raw.job /\ uploads[q.authority.raw.upload] \in Imports!Terminal
  /\ q.stage \in Uploading => q.authority.raw # None /\ ~q.authority.raw.job
  /\ q.stage # "idle" /\ q.authority.raw # None =>
       /\ q.authority.raw.upload <= reserved
       /\ q.authority.raw.job \/ q.stage = "started" => uploads[q.authority.raw.upload] # "absent"
  /\ q.stage = "upload" =>
       /\ uploads[q.authority.raw.upload] = "absent"
       /\ slot[q.authority.scope] = q.authority.raw
  /\ q.stage = "finished" => uploads[q.authority.raw.upload] \in Imports!Terminal

ImportTypes ==
  /\ slot \in [Scopes -> Imports!Reference \union {None}]
  /\ uploads \in [1 .. MaxUploads -> Imports!Outcomes]
  /\ reserved \in 0 .. MaxUploads
  /\ page \in [Tabs -> TabPage]
  /\ trouble \in 0 .. MaxTrouble

OwnUploads ==
  \A t, u \in Tabs :
    page[t].request.stage \in Uploading /\ page[u].request.stage \in Uploading
      /\ page[t].request.authority.raw.upload = page[u].request.authority.raw.upload => t = u

\* A retained reference was reserved, and the server took the upload of one with a job.
KnownReference(r) == r.upload <= reserved /\ (r.job => uploads[r.upload] # "absent")

ImportInv ==
  /\ ImportTypes
  /\ \A t \in Tabs : RequestKnows(page[t].request)
  /\ OwnUploads
  /\ \A c \in Scopes : slot[c] # None => KnownReference(slot[c])
  /\ \A u \in 1 .. MaxUploads : u > reserved => uploads[u] = "absent"
  /\ Imports!OpenUploadIsRetained

\* No upload is reserved at first.
LEMMA ImportInvInit == Imports!ImportInit => ImportInv
<1> SUFFICES ASSUME Imports!ImportInit PROVE ImportInv
  OBVIOUS
<1>1. Imports!Idle \in TabRequest /\ Imports!Idle.stage = "idle"
  BY DEF Imports!Idle, TabRequest, Imports!Stages
<1>2. "none" \in Imports!Statuses /\ "absent" \in Imports!Outcomes
  BY DEF Imports!Statuses, Imports!Outcomes
<1>3. PICK c \in Scopes :
        page = [t \in Tabs |-> [scope |-> c, request |-> Imports!Idle, shown |-> "none"]]
  BY DEF Imports!ImportInit
<1>4. page \in [Tabs -> TabPage] /\ \A t \in Tabs : page[t].request = Imports!Idle
  BY <1>1, <1>2, <1>3 DEF TabPage
<1>5. ImportTypes
  BY <1>2, <1>4, ImportsAssumption DEF Imports!ImportInit, ImportTypes
<1>6. RequestKnows(Imports!Idle)
  BY <1>1 DEF RequestKnows, Uploading
<1>7. OwnUploads
  BY <1>1, <1>4 DEF OwnUploads, Uploading
<1> QED
  BY <1>4, <1>5, <1>6, <1>7
     DEF ImportInv, Imports!ImportInit, Imports!OpenUploadIsRetained

\* The tab's request becomes q, the other tabs' stay.
Turns(t, q) ==
  /\ page' \in [Tabs -> TabPage]
  /\ page'[t].request = q
  /\ \A u \in Tabs : u # t => page'[u].request = page[u].request

\* A page that takes another request, or shows another status, turns.
LEMMA PageTurns ==
  ASSUME page \in [Tabs -> TabPage], NEW t \in Tabs, NEW q \in TabRequest,
         NEW status \in Imports!Statuses
  PROVE  /\ page' = [page EXCEPT ![t].request = q] => Turns(t, q)
         /\ page' = [page EXCEPT ![t].request = q, ![t].shown = status] => Turns(t, q)
<1>1. CASE page' = [page EXCEPT ![t].request = q]
  BY <1>1 DEF Turns, TabPage
<1>2. CASE page' = [page EXCEPT ![t].request = q, ![t].shown = status]
  <2>1. PICK p : p = [page[t] EXCEPT !.request = q, !.shown = status]
    OBVIOUS
  <2>2. p \in TabPage /\ p.request = q
    BY <2>1 DEF TabPage
  <2>3. page' = [page EXCEPT ![t] = p]
    BY <1>2, <2>1
  <2> QED
    BY <2>2, <2>3 DEF Turns
<1> QED
  BY <1>1, <1>2

\* An idle request is about no upload.
LEMMA IdleRequest ==
  Imports!Idle \in TabRequest /\ Imports!Idle.stage = "idle" /\ RequestKnows(Imports!Idle)
  BY DEF Imports!Idle, TabRequest, Imports!Stages, RequestKnows, Uploading

\* A request that throws or shows its end leaves its page idle.
LEMMA Ends ==
  ASSUME page \in [Tabs -> TabPage], NEW t \in Tabs, NEW status \in Imports!Statuses,
         Imports!Throws(t) \/ Imports!Shows(t, status)
  PROVE  Turns(t, Imports!Idle)
  BY PageTurns, IdleRequest DEF Imports!Throws, Imports!Shows

\* A request that moves to a stage keeps the authority and the source it captured.
LEMMA Staged ==
  ASSUME page \in [Tabs -> TabPage], NEW t \in Tabs, NEW stage \in Imports!Stages,
         Imports!To(t, stage)
  PROVE  \E q \in TabRequest :
            /\ Turns(t, q)
            /\ q.stage = stage /\ q.authority = page[t].request.authority
            /\ q.source = page[t].request.source
<1>1. PICK q : q = [page[t].request EXCEPT !.stage = stage]
  OBVIOUS
<1>2. page[t].request \in TabRequest
  BY DEF TabPage
<1>3. /\ q \in TabRequest
      /\ q.stage = stage /\ q.authority = page[t].request.authority
      /\ q.source = page[t].request.source
  BY <1>1, <1>2 DEF TabRequest
<1>4. page' = [page EXCEPT ![t].request = q]
  BY <1>1 DEF Imports!To
<1>5. Turns(t, q)
  BY <1>3, <1>4, PageTurns DEF Imports!Statuses
<1> QED
  BY <1>3, <1>5

\* A request that goes on with its own upload, or with none.
LEMMA OwnKept ==
  ASSUME OwnUploads, NEW t \in Tabs, NEW q, Turns(t, q),
         q.stage \in Uploading =>
           /\ page[t].request.stage \in Uploading
           /\ q.authority = page[t].request.authority
  PROVE  OwnUploads'
<1>1. \A u \in Tabs : page'[u].request.stage \in Uploading =>
        /\ page[u].request.stage \in Uploading
        /\ page'[u].request.authority = page[u].request.authority
  BY DEF Turns
<1> QED
  BY <1>1 DEF OwnUploads

\* Only a request changes.
LEMMA TurnKeeps ==
  ASSUME ImportInv, NEW t \in Tabs, NEW q, Turns(t, q), RequestKnows(q),
         UNCHANGED <<slot, uploads, reserved>>, trouble' \in 0 .. MaxTrouble,
         q.stage \in Uploading =>
           /\ page[t].request.stage \in Uploading
           /\ q.authority = page[t].request.authority
  PROVE  ImportInv'
<1>1. ImportTypes'
  BY DEF ImportInv, ImportTypes, Turns
<1>2. \A u \in Tabs : RequestKnows(page'[u].request)
  BY DEF ImportInv, Turns
<1>3. ASSUME NEW u \in Tabs PROVE RequestKnows(page[u].request)'
  BY <1>2 DEF RequestKnows
<1>4. OwnUploads'
  BY OwnKept DEF ImportInv
<1> QED
  BY <1>1, <1>3, <1>4 DEF ImportInv, Imports!OpenUploadIsRetained, KnownReference

\* Where the server's account of upload n changes, it was not final, and a request
\* that has not sent it is another's.
LEMMA KnowsOn ==
  ASSUME ImportInv, NEW n \in 1 .. MaxUploads, NEW outcome \in Imports!Outcomes,
         uploads' = [uploads EXCEPT ![n] = outcome],
         uploads[n] \notin Imports!Terminal, outcome # "absent", UNCHANGED <<slot, reserved>>,
         NEW q, RequestKnows(q), q.stage = "upload" => q.authority.raw.upload # n
  PROVE  RequestKnows(q)'
<1>1. uploads \in [1 .. MaxUploads -> Imports!Outcomes] /\ reserved \in Nat
  BY ImportsAssumption DEF ImportInv, ImportTypes
<1>2. q.stage # "idle" /\ q.authority.raw # None => q.authority.raw.upload \in 1 .. MaxUploads
  BY DEF RequestKnows, TabRequest, Imports!Authority, Imports!Reference
<1>3. \A u \in 1 .. MaxUploads : u # n => uploads'[u] = uploads[u]
  BY <1>1
<1> QED
  BY <1>2, <1>3 DEF RequestKnows, Uploading

\* An account of an upload may change: an open one stays retained.
LEMMA AccountKeeps ==
  ASSUME ImportInv, NEW n \in 1 .. MaxUploads, NEW outcome \in Imports!Outcomes,
         uploads' = [uploads EXCEPT ![n] = outcome], n <= reserved, outcome # "absent",
         UNCHANGED <<slot, reserved>>, trouble' \in 0 .. MaxTrouble,
         page' \in [Tabs -> TabPage], \A u \in Tabs : RequestKnows(page[u].request)',
         outcome = "queued" => \E c \in Scopes : slot[c] # None /\ slot[c].upload = n,
         OwnUploads'
  PROVE  ImportInv'
<1>1. ImportTypes'
  BY DEF ImportInv, ImportTypes
<1>2. \A u \in 1 .. MaxUploads : u > reserved => uploads'[u] = "absent"
  BY ImportsAssumption DEF ImportInv, ImportTypes
<1>3. Imports!OpenUploadIsRetained'
  BY ImportsAssumption DEF ImportInv, ImportTypes, Imports!OpenUploadIsRetained
<1>4. ASSUME NEW c \in Scopes, slot'[c] # None PROVE KnownReference(slot[c])'
  <2>1. slot[c] \in Imports!Reference /\ KnownReference(slot[c])
    BY <1>4 DEF ImportInv, ImportTypes
  <2> QED
    BY <2>1 DEF KnownReference, ImportInv, ImportTypes, Imports!Reference
<1> QED
  BY <1>1, <1>2, <1>3, <1>4 DEF ImportInv

\* Where one scope's reference changes, no queued upload is forgotten.
LEMMA SlotKeeps ==
  ASSUME ImportInv, NEW c \in Scopes, NEW r \in Imports!Reference \union {None},
         slot' = [slot EXCEPT ![c] = r], UNCHANGED uploads,
         reserved' \in 0 .. MaxUploads, reserved <= reserved',
         r # None => r.upload <= reserved' /\ (r.job => uploads[r.upload] # "absent"),
         slot[c] # None /\ uploads[slot[c].upload] = "queued" =>
           r # None /\ r.upload = slot[c].upload,
         \A v \in 1 .. MaxUploads : v > reserved => uploads[v] # "queued",
         UNCHANGED trouble, NEW t \in Tabs, NEW q, Turns(t, q), RequestKnows(q)',
         \A u \in Tabs : u # t /\ page[u].request.stage = "upload" =>
           page[u].request.authority.scope # c,
         OwnUploads'
  PROVE  ImportInv'
<1>0. slot \in [Scopes -> Imports!Reference \union {None}] /\ reserved \in Nat /\ reserved' \in Nat
  BY ImportsAssumption DEF ImportInv, ImportTypes
<1>1. ImportTypes'
  BY DEF ImportInv, ImportTypes, Turns
<1>2. ASSUME NEW u \in Tabs PROVE RequestKnows(page[u].request)'
  <2>1. CASE u = t
    BY <2>1 DEF Turns
  <2>2. CASE u # t
    <3>1. PICK p : p = page[u].request
      OBVIOUS
    <3>2. page'[u].request = p /\ RequestKnows(p)
      BY <2>2, <3>1 DEF Turns, ImportInv
    <3>3. p.stage # "idle" /\ p.authority.raw # None => p.authority.raw.upload \in Nat
      BY <3>2 DEF RequestKnows, TabRequest, Imports!Authority, Imports!Reference
    <3>4. p.stage = "upload" => slot'[p.authority.scope] = slot[p.authority.scope]
      <4>1. p.stage = "upload" => p.authority.scope \in Scopes
        BY <3>2 DEF RequestKnows, TabRequest, Imports!Authority
      <4> QED
        BY <1>0, <2>2, <3>1, <4>1
    <3>5. RequestKnows(p)'
      BY <1>0, <3>2, <3>3, <3>4 DEF RequestKnows
    <3> QED
      BY <3>2, <3>5
  <2> QED
    BY <2>1, <2>2
<1>3. ASSUME NEW d \in Scopes, slot'[d] # None PROVE KnownReference(slot[d])'
  <2>1. CASE d = c
    BY <1>0, <1>3, <2>1 DEF KnownReference
  <2>2. CASE d # c
    <3>1. slot'[d] = slot[d] /\ slot[d] \in Imports!Reference /\ KnownReference(slot[d])
      BY <1>0, <1>3, <2>2 DEF ImportInv
    <3>2. slot[d].upload \in Nat
      BY <3>1 DEF Imports!Reference
    <3> QED
      BY <1>0, <3>1, <3>2 DEF KnownReference
  <2> QED
    BY <2>1, <2>2
<1>4. \A u \in 1 .. MaxUploads : u > reserved' => uploads'[u] = "absent"
  BY <1>0 DEF ImportInv
<1>5. Imports!OpenUploadIsRetained'
  <2> SUFFICES ASSUME NEW u \in 1 .. reserved', uploads[u] = "queued"
               PROVE  \E d \in Scopes : slot'[d] # None /\ slot'[d].upload = u
    BY DEF Imports!OpenUploadIsRetained
  <2>1. u \in 1 .. MaxUploads /\ u \in 1 .. reserved
    BY <1>0, ImportsAssumption DEF ImportInv
  <2>2. PICK d \in Scopes : slot[d] # None /\ slot[d].upload = u
    BY <2>1 DEF ImportInv, Imports!OpenUploadIsRetained
  <2> QED
    BY <1>0, <2>2
<1> QED
  BY <1>1, <1>2, <1>3, <1>4, <1>5 DEF ImportInv

\* What a tab reads before it asks: its workspace and the reference retained there.
LEMMA Captured ==
  ASSUME ImportInv, NEW t \in Tabs, NEW a, a = Imports!Capture(t)
  PROVE  /\ a \in Imports!Authority /\ a # None
         /\ a.raw # None => a.raw \in Imports!Reference /\ KnownReference(a.raw)
<1>1. page[t].scope \in Scopes
  BY DEF ImportInv, ImportTypes, TabPage
<1>2. a \in Imports!Authority
  BY <1>1 DEF ImportInv, ImportTypes, Imports!Authority, Imports!Capture
<1>3. a.raw # None => a.raw \in Imports!Reference /\ KnownReference(a.raw)
  BY <1>1 DEF ImportInv, ImportTypes, Imports!Capture
<1> QED
  BY <1>2, <1>3, ImportsAssumption

\* A request of a captured authority, sent by nobody yet.
LEMMA AskedKnows ==
  ASSUME ImportInv, NEW a \in Imports!Authority, a # None,
         a.raw # None => a.raw \in Imports!Reference /\ KnownReference(a.raw),
         NEW stage \in Imports!Stages \ (Uploading \union {"idle"}), NEW s \in Artifacts,
         NEW q, q = [stage |-> stage, authority |-> a, source |-> s],
         stage = "download" => a.raw = None,
         stage # "download" => a.raw # None /\ a.raw.job
  PROVE  q \in TabRequest /\ RequestKnows(q)
<1>1. q \in TabRequest
  BY DEF TabRequest
<1> QED
  BY <1>1, ImportsAssumption DEF RequestKnows, KnownReference, Uploading

\* Starting or resuming an import.
LEMMA AskImport ==
  ASSUME ImportInv,
         \/ \E t \in Tabs, s \in Artifacts : Imports!Import(t, s)
         \/ \E t \in Tabs, kind \in {"status", "cancel"} : Imports!Resume(t, kind)
  PROVE  ImportInv'
<1> USE DEF Imports!Try
<1>1. page \in [Tabs -> TabPage]
  BY DEF ImportInv, ImportTypes
<1>0. /\ {"status", "cancel", "download", "reconcile"} \subseteq
           Imports!Stages \ (Uploading \union {"idle"})
      /\ "unknown" \in Imports!Statuses
  BY DEF Imports!Stages, Uploading, Imports!Statuses
<1>2. ASSUME NEW t \in Tabs, NEW s \in Artifacts, Imports!Import(t, s) PROVE ImportInv'
  <2>1. PICK a : a = Imports!Capture(t)
    OBVIOUS
  <2>2. PICK down : down = [stage |-> "download", authority |-> a, source |-> s]
    OBVIOUS
  <2>3. PICK ask : ask = [stage |-> "reconcile", authority |-> a, source |-> s]
    OBVIOUS
  <2>4. [down EXCEPT !.stage = "reconcile"] = ask
    BY <2>2, <2>3
  <2>5. /\ UNCHANGED <<slot, uploads, reserved>> /\ trouble' \in 0 .. MaxTrouble
        /\ \/ a.raw = None /\ page' = [page EXCEPT ![t].request = down]
           \/ Imports!Shows(t, "unknown")
           \/ a.raw # None /\ a.raw.job /\ page' = [page EXCEPT ![t].request = ask]
    BY <1>2, <2>1, <2>2, <2>4, ImportsAssumption DEF Imports!Import, ImportInv, ImportTypes
  <2>6. a.raw = None => RequestKnows(down) /\ down \in TabRequest
    BY <1>0, <2>1, <2>2, Captured, AskedKnows
  <2>7. a.raw # None /\ a.raw.job => RequestKnows(ask) /\ ask \in TabRequest
    BY <1>0, <2>1, <2>3, Captured, AskedKnows
  <2>8. down.stage \notin Uploading /\ ask.stage \notin Uploading
        /\ Imports!Idle.stage \notin Uploading
    BY <2>2, <2>3 DEF Uploading, Imports!Idle
  <2>9. \/ Turns(t, down) /\ RequestKnows(down)
        \/ Turns(t, Imports!Idle)
        \/ Turns(t, ask) /\ RequestKnows(ask)
    BY <1>0, <1>1, <2>5, <2>6, <2>7, Ends, PageTurns
  <2> QED
    BY <2>5, <2>8, <2>9, TurnKeeps, IdleRequest
<1>3. ASSUME NEW t \in Tabs, NEW kind \in {"status", "cancel"}, Imports!Resume(t, kind)
      PROVE  ImportInv'
  <2>1. PICK a : a = Imports!Capture(t)
    OBVIOUS
  <2>2. PICK ask : ask = [stage |-> kind, authority |-> a, source |-> a.raw.source]
    OBVIOUS
  <2>5. /\ UNCHANGED <<slot, uploads, reserved>> /\ trouble' \in 0 .. MaxTrouble
        /\ \/ UNCHANGED page
           \/ Imports!Shows(t, "unknown")
           \/ a.raw # None /\ a.raw.job /\ page' = [page EXCEPT ![t].request = ask]
    BY <1>3, <2>1, <2>2, ImportsAssumption DEF Imports!Resume, ImportInv, ImportTypes
  <2>6. a.raw # None => a.raw.source \in Artifacts
    BY <2>1, Captured DEF Imports!Reference
  <2>7. a.raw # None /\ a.raw.job => RequestKnows(ask) /\ ask \in TabRequest
    BY <1>0, <2>1, <2>2, <2>6, Captured, AskedKnows DEF Uploading
  <2>8. ask.stage \notin Uploading /\ Imports!Idle.stage \notin Uploading
    BY <2>2 DEF Uploading, Imports!Idle
  <2>9. \/ UNCHANGED page
        \/ Turns(t, Imports!Idle)
        \/ Turns(t, ask) /\ RequestKnows(ask)
    BY <1>0, <1>1, <2>5, <2>7, Ends, PageTurns
  <2>10. CASE UNCHANGED page
    <3>1. RequestKnows(page[t].request) /\ Turns(t, page[t].request)
      BY <1>1, <2>10 DEF ImportInv, Turns
    <3> QED
      BY <2>5, <3>1, TurnKeeps
  <2> QED
    BY <2>5, <2>8, <2>9, <2>10, TurnKeeps, IdleRequest
<1> QED
  BY <1>2, <1>3

\* A request that ends, or goes on without an upload of its own.
LEMMA EndKeeps ==
  ASSUME ImportInv, NEW t \in Tabs, Turns(t, Imports!Idle),
         UNCHANGED <<slot, uploads, reserved>>, trouble' \in 0 .. MaxTrouble
  PROVE  ImportInv'
  BY IdleRequest, TurnKeeps DEF Uploading

\* The statuses a page may show.
LEMMA StatusesAre ==
  /\ {"unknown", "pending"} \subseteq Imports!Statuses
  /\ Imports!Terminal \subseteq Imports!Statuses
  /\ Imports!Terminal \subseteq Imports!Outcomes
  BY DEF Imports!Statuses, Imports!Terminal, Imports!Outcomes

\* Answers a request waits for, and their failures.
LEMMA Answered ==
  ASSUME ImportInv,
         \E t \in Tabs : \/ Imports!Reconciled(t) \/ Imports!Uncertain(t)
                         \/ Imports!StatusRead(t) \/ Imports!Fail(t)
  PROVE  ImportInv'
<1> USE ImportsAssumption
<1>1. page \in [Tabs -> TabPage] /\ uploads \in [1 .. MaxUploads -> Imports!Outcomes]
      /\ trouble \in 0 .. MaxTrouble
  BY DEF ImportInv, ImportTypes
<1>2. ASSUME NEW t \in Tabs, Imports!Reconciled(t) PROVE ImportInv'
  <2>1. PICK q : q = page[t].request
    OBVIOUS
  <2>2. PICK seen : seen = Imports!Observed(q.authority.raw)
    OBVIOUS
  <2>3. /\ q.stage = "reconcile" /\ UNCHANGED <<slot, uploads, reserved, trouble>>
        /\ \/ Imports!Throws(t)
           \/ seen \in {"pending", "completed"} /\ Imports!Shows(t, seen)
           \/ seen \in Imports!Terminal /\ Imports!To(t, "download")
    BY <1>2, <2>1, <2>2 DEF Imports!Reconciled
  <2>4. CASE Imports!Throws(t) \/ (seen \in {"pending", "completed"} /\ Imports!Shows(t, seen))
    BY <1>1, <2>3, <2>4, Ends, EndKeeps DEF Imports!Statuses
  <2>5. CASE seen \in Imports!Terminal /\ Imports!To(t, "download")
    <3>1. PICK r \in TabRequest :
            /\ Turns(t, r) /\ r.stage = "download"
            /\ r.authority = q.authority /\ r.source = q.source
      BY <1>1, <2>1, <2>5, Staged DEF Imports!Stages
    <3>2. RequestKnows(q)
      BY <2>1 DEF ImportInv
    <3>3. uploads[q.authority.raw.upload] \in Imports!Terminal
      BY <2>2, <2>5 DEF Imports!Observed, Imports!Terminal
    <3>4. RequestKnows(r)
      BY <2>3, <3>1, <3>2, <3>3 DEF RequestKnows, Uploading
    <3> QED
      BY <1>1, <2>3, <3>1, <3>4, TurnKeeps DEF Uploading
  <2> QED
    BY <2>3, <2>4, <2>5
<1>3. ASSUME NEW t \in Tabs, Imports!Uncertain(t) \/ Imports!Fail(t) \/ Imports!StatusRead(t)
      PROVE  ImportInv'
  <2>1. /\ UNCHANGED <<slot, uploads, reserved>> /\ trouble' \in 0 .. MaxTrouble
        /\ \/ Imports!Throws(t) \/ Imports!Shows(t, "unknown")
           \/ /\ page[t].request.stage = "status"
              /\ Imports!Shows(t, Imports!Observed(page[t].request.authority.raw))
    BY <1>1, <1>3 DEF Imports!Uncertain, Imports!Fail, Imports!StatusRead, Imports!Try
  <2>2. page[t].request.stage = "status" =>
          /\ page[t].request.authority.raw.upload \in 1 .. MaxUploads
          /\ uploads[page[t].request.authority.raw.upload] # "absent"
    BY DEF ImportInv, RequestKnows, TabRequest, Imports!Authority, Imports!Reference
  <2>3. CASE Imports!Throws(t) \/ Imports!Shows(t, "unknown")
    BY <1>1, <2>1, <2>3, Ends, EndKeeps DEF Imports!Statuses
  <2>4. CASE /\ page[t].request.stage = "status"
             /\ Imports!Shows(t, Imports!Observed(page[t].request.authority.raw))
    <3>1. PICK seen : seen = Imports!Observed(page[t].request.authority.raw)
      OBVIOUS
    <3>2. page' = [page EXCEPT ![t].request = Imports!Idle, ![t].shown = seen]
      BY <2>4, <3>1 DEF Imports!Shows
    <3>3. Turns(t, Imports!Idle)
      <4>1. CASE seen \in Imports!Statuses
        BY <1>1, <3>2, <4>1, PageTurns, IdleRequest
      <4>2. seen \in Imports!Statuses
        BY <1>1, <2>2, <2>4, <3>1 DEF Imports!Observed, Imports!Statuses, Imports!Outcomes
      <4> QED
        BY <4>1, <4>2
    <3> QED
      BY <2>1, <3>3, EndKeeps
  <2> QED
    BY <2>1, <2>3, <2>4
<1> QED
  BY <1>2, <1>3

\* The upload a request is about is one that was reserved.
LEMMA RequestOf ==
  ASSUME ImportInv, NEW t \in Tabs, NEW q, q = page[t].request, q.stage # "idle",
         q.authority.raw # None
  PROVE  /\ q.authority \in Imports!Authority /\ q.authority.scope \in Scopes
         /\ q.authority.raw \in Imports!Reference
         /\ q.authority.raw.upload \in 1 .. MaxUploads /\ q.authority.raw.upload <= reserved
         /\ RequestKnows(q) /\ q \in TabRequest
<1>1. RequestKnows(q)
  BY DEF ImportInv
<1>2. q.authority \in Imports!Authority /\ q.authority.raw.upload <= reserved /\ q \in TabRequest
  BY <1>1 DEF RequestKnows, TabRequest
<1> QED
  BY <1>1, <1>2 DEF Imports!Authority, Imports!Reference

\* The server takes an upload, or a page is reloaded.
LEMMA Delivered ==
  ASSUME ImportInv,
         \/ \E t \in Tabs, outcome \in Imports!Outcomes : Imports!TakeUpload(t, outcome)
         \/ \E t \in Tabs : Imports!Reload(t)
  PROVE  ImportInv'
<1>1. page \in [Tabs -> TabPage] /\ uploads \in [1 .. MaxUploads -> Imports!Outcomes]
      /\ trouble \in 0 .. MaxTrouble
  BY DEF ImportInv, ImportTypes
\* The upload of a tab that has not been answered arrives, and its request becomes r.
<1>2. ASSUME NEW t \in Tabs, page[t].request.stage = "upload",
             NEW outcome \in {"queued", "completed", "failed"},
             uploads' = [uploads EXCEPT ![page[t].request.authority.raw.upload] = outcome],
             UNCHANGED <<slot, reserved>>, trouble' \in 0 .. MaxTrouble,
             NEW r \in TabRequest, Turns(t, r),
             \/ r = Imports!Idle
             \/ /\ r.stage = IF outcome = "queued" THEN "started" ELSE "finished"
                /\ r.authority = page[t].request.authority /\ r.source = page[t].request.source
      PROVE  ImportInv'
  <2>1. PICK q : q = page[t].request
    OBVIOUS
  <2>2. PICK n : n = q.authority.raw.upload
    OBVIOUS
  <2>3. /\ q.authority \in Imports!Authority /\ q.authority.scope \in Scopes
        /\ q.authority.raw # None /\ ~q.authority.raw.job
        /\ n \in 1 .. MaxUploads /\ n <= reserved /\ uploads[n] = "absent"
        /\ slot[q.authority.scope] = q.authority.raw
        /\ q.authority # None /\ q.source # None
    <3>1. q.authority.raw # None /\ RequestKnows(q)
      BY <1>2, <2>1 DEF ImportInv, RequestKnows, Uploading
    <3> QED
      BY <1>2, <2>1, <2>2, <3>1, RequestOf DEF RequestKnows, Uploading
  <2>4. outcome \in Imports!Outcomes /\ "absent" \notin Imports!Terminal /\ outcome # "absent"
        /\ (outcome = "queued" \/ outcome \in Imports!Terminal)
    BY DEF Imports!Outcomes, Imports!Terminal
  <2>5. uploads' = [uploads EXCEPT ![n] = outcome]
    BY <1>2, <2>1, <2>2
  <2>6. ASSUME NEW u \in Tabs PROVE RequestKnows(page[u].request)'
    <3>1. CASE u # t
      <4>1. PICK p : p = page[u].request
        OBVIOUS
      <4>2. page'[u].request = p /\ RequestKnows(p)
        BY <1>2, <3>1, <4>1 DEF Turns, ImportInv
      <4>3. p.stage = "upload" => p.authority.raw.upload # n
        BY <1>2, <2>1, <2>2, <3>1, <4>1 DEF ImportInv, OwnUploads, Uploading
      <4>4. RequestKnows(p)'
        <5>1. uploads[n] \notin Imports!Terminal /\ UNCHANGED <<slot, reserved>>
          BY <1>2, <2>3, <2>4
        <5>2. n \in 1 .. MaxUploads /\ outcome \in Imports!Outcomes /\ outcome # "absent"
          BY <2>3, <2>4
        <5> QED
          BY <2>5, <4>2, <4>3, <5>1, <5>2, KnowsOn
      <4> QED
        BY <4>2, <4>4
    <3>2. CASE u = t /\ r = Imports!Idle
      <4>1. page'[u].request = Imports!Idle
        BY <1>2, <3>2 DEF Turns
      <4> QED
        BY <4>1, IdleRequest DEF RequestKnows, Uploading
    <3>3. CASE u = t /\ r # Imports!Idle
      <4>1. page'[u].request = r
        BY <1>2, <3>3 DEF Turns
      <4>2. r.stage \in {"started", "finished"} /\ r.authority = q.authority
            /\ r.source = q.source /\ (r.stage = "finished" => outcome # "queued")
        BY <1>2, <2>1, <3>3
      <4>3. uploads'[n] = outcome
        BY <1>1, <2>3, <2>5
      <4>4. RequestKnows(r)'
        BY <1>2, <2>2, <2>3, <2>4, <4>2, <4>3 DEF RequestKnows, Uploading
      <4> QED
        BY <4>1, <4>4
    <3> QED
      BY <3>1, <3>2, <3>3
  <2>7. OwnUploads'
    BY <1>2, OwnKept, IdleRequest DEF ImportInv, Uploading
  <2>8. page' \in [Tabs -> TabPage]
    BY <1>2 DEF Turns
  <2> QED
    BY <1>2, <2>2, <2>3, <2>4, <2>5, <2>6, <2>7, <2>8, AccountKeeps
<1>3. ASSUME NEW t \in Tabs, NEW outcome \in Imports!Outcomes, Imports!TakeUpload(t, outcome)
      PROVE  ImportInv'
  <2>1. PICK stage : stage = IF outcome = "queued" THEN "started" ELSE "finished"
    OBVIOUS
  <2>2. /\ page[t].request.stage = "upload" /\ outcome \in {"queued", "completed", "failed"}
        /\ uploads' = [uploads EXCEPT ![page[t].request.authority.raw.upload] = outcome]
        /\ UNCHANGED <<slot, reserved, trouble>> /\ Imports!To(t, stage)
    BY <1>3, <2>1 DEF Imports!TakeUpload
  <2>3. PICK r \in TabRequest :
            /\ Turns(t, r) /\ r.stage = stage
            /\ r.authority = page[t].request.authority /\ r.source = page[t].request.source
    BY <1>1, <2>1, <2>2, Staged DEF Imports!Stages
  <2> QED
    BY <1>1, <1>2, <2>1, <2>2, <2>3
<1>4. ASSUME NEW t \in Tabs, Imports!Reload(t) PROVE ImportInv'
  <2>1. /\ page' = [page EXCEPT ![t].request = Imports!Idle, ![t].shown = "none"]
        /\ UNCHANGED <<slot, reserved>>
        /\ \/ /\ page[t].request.stage = "upload"
              /\ uploads' = [uploads EXCEPT ![page[t].request.authority.raw.upload] = "queued"]
           \/ UNCHANGED uploads
    BY <1>4 DEF Imports!Reload
  <2>4. trouble' \in 0 .. MaxTrouble
    <3>1. Imports!Try
      BY <1>4 DEF Imports!Reload
    <3> QED
      BY <1>1, <3>1, ImportsAssumption DEF Imports!Try
  <2>2. Turns(t, Imports!Idle)
    BY <1>1, <2>1, PageTurns, IdleRequest DEF Imports!Statuses
  <2>3. CASE UNCHANGED uploads
    BY <2>1, <2>2, <2>3, <2>4, EndKeeps
  <2> QED
    BY <1>2, <2>1, <2>2, <2>3, <2>4, IdleRequest
<1> QED
  BY <1>3, <1>4

\* A queued upload ends, and one request may become r with it.
LEMMA JobEnds ==
  ASSUME ImportInv, NEW n \in 1 .. MaxUploads, n <= reserved, uploads[n] = "queued",
         NEW outcome \in Imports!Terminal, uploads' = [uploads EXCEPT ![n] = outcome],
         UNCHANGED <<slot, reserved>>, trouble' \in 0 .. MaxTrouble,
         NEW r, RequestKnows(r), r.stage \notin Uploading, page' \in [Tabs -> TabPage],
         \A u \in Tabs : page'[u].request = page[u].request \/ page'[u].request = r
  PROVE  ImportInv'
<1>1. outcome \in Imports!Outcomes /\ outcome # "absent" /\ outcome # "queued"
      /\ uploads[n] \notin Imports!Terminal
  BY DEF Imports!Terminal, Imports!Outcomes
<1>2. ASSUME NEW p, RequestKnows(p) PROVE RequestKnows(p)'
  <2>1. p.stage = "upload" => p.authority.raw.upload # n
    BY <1>2 DEF RequestKnows
  <2> QED
    BY <1>1, <1>2, <2>1, KnowsOn
<1>3. ASSUME NEW u \in Tabs PROVE RequestKnows(page[u].request)'
  <2>1. PICK p : p = page'[u].request
    OBVIOUS
  <2>2. RequestKnows(p)
    BY <2>1 DEF ImportInv
  <2> QED
    BY <1>2, <2>1, <2>2
<1>4. OwnUploads'
  BY DEF ImportInv, OwnUploads
<1> QED
  BY <1>1, <1>3, <1>4, AccountKeeps

\* A cancellation, the end of a job and a switch of the workspace's scope.
LEMMA Tracked ==
  ASSUME ImportInv,
         \/ \E t \in Tabs : Imports!CancelJob(t)
         \/ \E u \in 1 .. reserved, outcome \in Imports!Outcomes : Imports!FinishJob(u, outcome)
         \/ \E t \in Tabs, c \in Scopes : Imports!SwitchScope(t, c)
  PROVE  ImportInv'
<1>1. page \in [Tabs -> TabPage] /\ uploads \in [1 .. MaxUploads -> Imports!Outcomes]
      /\ trouble \in 0 .. MaxTrouble /\ reserved \in Nat
  BY ImportsAssumption DEF ImportInv, ImportTypes
<1>3. ASSUME NEW t \in Tabs, Imports!CancelJob(t) PROVE ImportInv'
  <2>1. PICK q : q = page[t].request
    OBVIOUS
  <2>2. PICK n : n = q.authority.raw.upload
    OBVIOUS
  <2>3. /\ q.stage = "cancel" /\ UNCHANGED <<slot, reserved, trouble>>
        /\ \/ uploads[n] = "queued" /\ uploads' = [uploads EXCEPT ![n] = "cancelled"]
           \/ UNCHANGED uploads
        /\ Imports!To(t, "status") \/ Imports!Throws(t)
    BY <1>3, <2>1, <2>2 DEF Imports!CancelJob
  <2>4. /\ RequestKnows(q) /\ q.authority.raw # None
        /\ n \in 1 .. MaxUploads /\ n <= reserved
    <3>1. RequestKnows(q) /\ q.authority.raw # None
      BY <2>1, <2>3 DEF ImportInv, RequestKnows
    <3> QED
      BY <2>1, <2>2, <2>3, <3>1, RequestOf
  <2>5. PICK r : Turns(t, r) /\ RequestKnows(r) /\ r.stage \notin Uploading
    <3>1. CASE Imports!Throws(t)
      BY <1>1, <3>1, Ends, IdleRequest DEF Uploading, Imports!Statuses
    <3>2. CASE Imports!To(t, "status")
      <4>1. PICK r \in TabRequest :
            /\ Turns(t, r) /\ r.stage = "status"
            /\ r.authority = q.authority /\ r.source = q.source
        BY <1>1, <2>1, <3>2, Staged DEF Imports!Stages
      <4>2. RequestKnows(r)
        BY <2>3, <2>4, <4>1 DEF RequestKnows, Uploading
      <4> QED
        BY <4>1, <4>2 DEF Uploading
    <3> QED
      BY <2>3, <3>1, <3>2
  <2>6. CASE UNCHANGED uploads
    BY <1>1, <2>3, <2>5, <2>6, TurnKeeps
  <2>7. CASE uploads[n] = "queued" /\ uploads' = [uploads EXCEPT ![n] = "cancelled"]
    <3>1. page' \in [Tabs -> TabPage]
          /\ \A u \in Tabs : page'[u].request = page[u].request \/ page'[u].request = r
      BY <2>5 DEF Turns
    <3>2. "cancelled" \in Imports!Terminal
      BY DEF Imports!Terminal
    <3>3. trouble' \in 0 .. MaxTrouble /\ UNCHANGED <<slot, reserved>>
      BY <1>1, <2>3
    <3>4. n \in 1 .. MaxUploads /\ n <= reserved
      BY <2>4
    <3>5. RequestKnows(r) /\ r.stage \notin Uploading
      BY <2>5
    <3>6. uploads[n] = "queued" /\ uploads' = [uploads EXCEPT ![n] = "cancelled"]
      BY <2>7
    <3> QED
      BY <3>1, <3>2, <3>3, <3>4, <3>5, <3>6, JobEnds
  <2> QED
    BY <2>3, <2>6, <2>7
<1>4. ASSUME NEW n \in 1 .. reserved, NEW outcome \in Imports!Outcomes,
             Imports!FinishJob(n, outcome)
      PROVE  ImportInv'
  <2>1. /\ uploads[n] = "queued" /\ outcome \in Imports!Terminal
        /\ uploads' = [uploads EXCEPT ![n] = outcome] /\ UNCHANGED <<slot, reserved, page>>
    BY <1>4 DEF Imports!FinishJob, Imports!Terminal
  <2>2. trouble' \in 0 .. MaxTrouble
    BY <1>1, <1>4, ImportsAssumption DEF Imports!FinishJob, Imports!Try
  <2>3. n \in 1 .. MaxUploads /\ n <= reserved
    BY <1>1, ImportsAssumption DEF ImportInv, ImportTypes
  <2> QED
    BY <1>1, <2>1, <2>2, <2>3, JobEnds, IdleRequest DEF Uploading
<1>5. ASSUME NEW t \in Tabs, NEW c \in Scopes, Imports!SwitchScope(t, c) PROVE ImportInv'
  <2>1. page' = [page EXCEPT ![t].scope = c] /\ UNCHANGED <<slot, uploads, reserved>>
    BY <1>5 DEF Imports!SwitchScope
  <2>2. trouble' \in 0 .. MaxTrouble
    BY <1>1, <1>5, ImportsAssumption DEF Imports!SwitchScope, Imports!Try
  <2>3. PICK q : q = page[t].request
    OBVIOUS
  <2>4. Turns(t, q) /\ RequestKnows(q)
    BY <1>1, <2>1, <2>3 DEF ImportInv, Turns, TabPage
  <2> QED
    BY <2>1, <2>2, <2>3, <2>4, TurnKeeps
<1> QED
  BY <1>3, <1>4, <1>5

\* A scope's reference may change where no other tab is about to send it.
LEMMA OthersElsewhere ==
  ASSUME ImportInv, NEW t \in Tabs, page[t].request.stage # "idle",
         NEW a, a = page[t].request.authority, slot[a.scope] = a.raw,
         \/ page[t].request.stage \in Uploading
         \/ a.raw # None => a.raw.job
  PROVE  \A u \in Tabs : u # t /\ page[u].request.stage = "upload" =>
           page[u].request.authority.scope # a.scope
<1> SUFFICES ASSUME NEW u \in Tabs, u # t, page[u].request.stage = "upload",
                    page[u].request.authority.scope = a.scope
             PROVE  FALSE
  OBVIOUS
<1>1. /\ page[u].request.authority.raw # None /\ ~page[u].request.authority.raw.job
      /\ slot[a.scope] = page[u].request.authority.raw
  BY DEF ImportInv, RequestKnows, Uploading
<1>2. page[t].request.stage \in Uploading
  BY <1>1
<1> QED
  BY <1>1, <1>2 DEF ImportInv, OwnUploads, Uploading

\* The steps that write or clear the slot of a workspace.
LEMMA Retaining ==
  ASSUME ImportInv,
         \E t \in Tabs : Imports!Reserve(t) \/ Imports!Started(t) \/ Imports!Completed(t)
  PROVE  ImportInv'
<1>1. page \in [Tabs -> TabPage] /\ uploads \in [1 .. MaxUploads -> Imports!Outcomes]
      /\ trouble \in 0 .. MaxTrouble /\ reserved \in Nat
      /\ \A v \in 1 .. MaxUploads : v > reserved => uploads[v] # "queued"
      /\ slot \in [Scopes -> Imports!Reference \union {None}]
  BY ImportsAssumption DEF ImportInv, ImportTypes
<1>2. ASSUME NEW t \in Tabs, Imports!Started(t) \/ Imports!Completed(t) PROVE ImportInv'
  <2>1. PICK q : q = page[t].request
    OBVIOUS
  <2>2. /\ q.authority \in Imports!Authority /\ q.authority.scope \in Scopes
        /\ q.authority.raw \in Imports!Reference /\ RequestKnows(q) /\ q.stage \in Uploading
        /\ q.authority.raw.upload \in 1 .. MaxUploads /\ q.authority.raw.upload <= reserved
    <3>1. q.stage \in Uploading /\ q.stage # "idle"
      BY <1>2, <2>1 DEF Imports!Started, Imports!Completed, Uploading
    <3>2. q.authority.raw # None
      BY <2>1, <3>1 DEF ImportInv, RequestKnows
    <3> QED
      BY <2>1, <3>1, <3>2, RequestOf
  <2>3. UNCHANGED <<uploads, reserved, trouble>>
    BY <1>2 DEF Imports!Started, Imports!Completed
  <2>4. PICK a : a = q.authority
    OBVIOUS
  <2>5. PICK raw : raw = a.raw
    OBVIOUS
  <2>6. CASE ~Imports!Holds(t, a)
    <3>1. Imports!Throws(t) /\ UNCHANGED slot
      BY <1>2, <2>1, <2>4, <2>6 DEF Imports!Started, Imports!Completed
    <3> QED
      BY <1>1, <2>3, <3>1, Ends, EndKeeps DEF Imports!Statuses
  <2>7. CASE Imports!Holds(t, a)
    <3>1. slot[a.scope] = raw /\ raw # None
      BY <2>2, <2>4, <2>5, <2>7, ImportsAssumption DEF Imports!Holds
    <3>2. \A u \in Tabs : u # t /\ page[u].request.stage = "upload" =>
           page[u].request.authority.scope # a.scope
      BY <2>1, <2>2, <2>4, <2>5, <3>1, OthersElsewhere DEF Uploading
    <3>3. PICK r \in Imports!Reference \union {None} :
            /\ slot' = [slot EXCEPT ![a.scope] = r]
            /\ r # None => r.upload = raw.upload /\ uploads[r.upload] # "absent"
            /\ uploads[raw.upload] = "queued" => r # None
      <4>1. CASE Imports!Started(t)
        <5>1. PICK r : r = [raw EXCEPT !.job = TRUE]
          OBVIOUS
        <5>2. r \in Imports!Reference /\ r.upload = raw.upload
          BY <2>2, <2>4, <2>5, <5>1 DEF Imports!Reference
        <5>3. slot' = [slot EXCEPT ![a.scope] = r] /\ q.stage = "started"
          BY <2>1, <2>4, <2>5, <2>7, <4>1, <5>1 DEF Imports!Started, Imports!Keep
        <5>4. uploads[raw.upload] # "absent"
          BY <2>2, <2>4, <2>5, <3>1, <5>3 DEF RequestKnows
        <5> QED
          BY <5>2, <5>3, <5>4, ImportsAssumption
      <4>2. CASE Imports!Completed(t)
        <5>1. slot' = [slot EXCEPT ![a.scope] = None] /\ q.stage = "finished"
          BY <2>1, <2>4, <2>7, <4>2 DEF Imports!Completed, Imports!Keep
        <5>2. uploads[raw.upload] # "queued"
          BY <2>2, <2>4, <2>5, <5>1 DEF RequestKnows, Imports!Terminal
        <5> QED
          BY <5>1, <5>2
      <4> QED
        BY <1>2, <4>1, <4>2
    <3>4. Turns(t, Imports!Idle)
      <4>1. Imports!Started(t) => Imports!Shows(t, "pending")
        BY <2>1, <2>4, <2>7 DEF Imports!Started
      <4>2. Imports!Completed(t) =>
              Imports!Shows(t, uploads[raw.upload]) /\ uploads[raw.upload] \in Imports!Terminal
        <5>1. Imports!Completed(t) => q.stage = "finished" /\ Imports!Shows(t, uploads[raw.upload])
          BY <2>1, <2>4, <2>5, <2>7 DEF Imports!Completed
        <5> QED
          BY <2>2, <2>4, <2>5, <5>1 DEF RequestKnows
      <4> QED
        BY <1>1, <1>2, <4>1, <4>2, Ends, StatusesAre
    <3>5. RequestKnows(Imports!Idle)' /\ OwnUploads'
      BY <3>4, IdleRequest, OwnKept DEF ImportInv, RequestKnows, Uploading
    <3>6. a.scope \in Scopes /\ reserved' \in 0 .. MaxUploads /\ reserved <= reserved'
          /\ (r # None => r.upload <= reserved')
      BY <1>1, <2>2, <2>3, <2>4, <2>5, <3>3 DEF ImportInv, ImportTypes
    <3> QED
      BY <1>1, <2>3, <3>1, <3>2, <3>3, <3>4, <3>5, <3>6, SlotKeeps
  <2> QED
    BY <2>6, <2>7
<1>3. ASSUME NEW t \in Tabs, Imports!Reserve(t) PROVE ImportInv'
  <2>1. PICK q : q = page[t].request
    OBVIOUS
  <2>2. PICK a : a = q.authority
    OBVIOUS
  <2>3. q.stage = "download" /\ UNCHANGED <<uploads, trouble>>
    BY <1>3, <2>1 DEF Imports!Reserve
  <2>4. CASE ~Imports!Holds(t, a)
    <3>1. Imports!Throws(t) /\ UNCHANGED <<slot, reserved>>
      BY <1>3, <2>1, <2>2, <2>4 DEF Imports!Reserve
    <3> QED
      BY <1>1, <2>3, <3>1, Ends, EndKeeps DEF Imports!Statuses
  <2>5. CASE Imports!Holds(t, a)
    <3>1. PICK r : r = [upload |-> reserved + 1, job |-> FALSE, source |-> q.source]
      OBVIOUS
    <3>2. /\ reserved < MaxUploads /\ reserved' = reserved + 1
          /\ slot' = [slot EXCEPT ![a.scope] = r]
      BY <1>3, <2>1, <2>2, <2>5, <3>1 DEF Imports!Reserve, Imports!Keep
    <3>3. /\ RequestKnows(q) /\ q \in TabRequest /\ a \in Imports!Authority
          /\ q.source \in Artifacts /\ a.scope \in Scopes /\ slot[a.scope] = a.raw
      <4>1. RequestKnows(q)
        BY <2>1 DEF ImportInv
      <4>2. q \in TabRequest /\ a \in Imports!Authority /\ q.source \in Artifacts
        BY <2>2, <2>3, <4>1 DEF RequestKnows, TabRequest
      <4> QED
        BY <2>5, <4>1, <4>2 DEF Imports!Authority, Imports!Holds
    <3>4. r \in Imports!Reference /\ r # None
      <4>1. reserved + 1 \in 1 .. MaxUploads
        BY <1>1, <3>2, ImportsAssumption
      <4>2. q.source \in Artifacts
        BY <3>3
      <4>3. r \in Imports!Reference
        BY <3>1, <4>1, <4>2 DEF Imports!Reference
      <4> QED
        BY <4>3, ImportsAssumption
    <3>5. PICK own : own = [a EXCEPT !.raw = r]
      OBVIOUS
    <3>6. own \in Imports!Authority /\ own.raw = r /\ own.scope = a.scope
      BY <3>3, <3>4, <3>5 DEF Imports!Authority
    <3>7. PICK s : s = [q EXCEPT !.stage = "upload", !.authority = own]
      OBVIOUS
    <3>8. s \in TabRequest /\ s.stage = "upload" /\ s.authority = own /\ s.source = q.source
      BY <3>3, <3>6, <3>7 DEF TabRequest, Imports!Stages
    <3>9. page' = [page EXCEPT ![t].request = s]
      <4>1. page' = [page EXCEPT ![t].request.stage = "upload", ![t].request.authority.raw = r]
        BY <1>3, <2>1, <2>2, <2>5, <3>1 DEF Imports!Reserve
      <4>2. PICK p : p = page[t]
        OBVIOUS
      <4>3. [[q EXCEPT !.stage = "upload"] EXCEPT !.authority = own] = s
        BY <3>3, <3>7 DEF TabRequest
      <4>4. page' = [page EXCEPT ![t] =
              [p EXCEPT !.request = [[q EXCEPT !.stage = "upload"] EXCEPT !.authority = own]]]
        BY <1>1, <2>1, <2>2, <3>5, <4>1, <4>2 DEF TabPage, TabRequest
      <4> QED
        BY <3>7, <4>2, <4>3, <4>4
    <3>10. Turns(t, s)
      BY <1>1, <3>8, <3>9, PageTurns DEF Imports!Statuses
    <3>11. uploads[reserved + 1] = "absent" /\ reserved + 1 \in 1 .. MaxUploads
      BY <1>1, <3>2, ImportsAssumption DEF ImportInv
    <3>12. RequestKnows(s)'
      BY <1>1, <2>3, <3>1, <3>2, <3>3, <3>4, <3>6, <3>8, <3>11, ImportsAssumption
         DEF RequestKnows, Uploading, Imports!Authority
    <3>13. OwnUploads'
      <4>1. ASSUME NEW u \in Tabs, page[u].request.stage \in Uploading
            PROVE  page[u].request.authority.raw.upload # reserved + 1
        <5>1. page[u].request.authority.raw # None /\ page[u].request.stage # "idle"
          BY <4>1 DEF ImportInv, RequestKnows, Uploading
        <5>2. /\ page[u].request.authority.raw.upload \in 1 .. MaxUploads
              /\ page[u].request.authority.raw.upload <= reserved
          BY <5>1, RequestOf
        <5> QED
          BY <1>1, <5>2
      <4>2. page'[t].request = s /\ s.authority.raw.upload = reserved + 1
        BY <3>1, <3>6, <3>8, <3>10 DEF Turns
      <4>3. \A u \in Tabs : u # t => page'[u].request = page[u].request
        BY <3>10 DEF Turns
      <4>4. OwnUploads
        BY DEF ImportInv
      <4>5. ASSUME NEW v \in Tabs, NEW u \in Tabs,
                   page'[v].request.stage \in Uploading, page'[u].request.stage \in Uploading,
                   page'[v].request.authority.raw.upload = page'[u].request.authority.raw.upload
            PROVE  v = u
        <5>1. CASE v = t /\ u # t
          BY <4>1, <4>2, <4>3, <4>5, <5>1
        <5>2. CASE u = t /\ v # t
          BY <4>1, <4>2, <4>3, <4>5, <5>2
        <5>3. CASE u # t /\ v # t
          BY <4>3, <4>4, <4>5, <5>3 DEF OwnUploads
        <5> QED
          BY <5>1, <5>2, <5>3
      <4> QED
        BY <4>5 DEF OwnUploads
    <3>14. a.raw # None => a.raw.job /\ uploads[a.raw.upload] \in Imports!Terminal
      BY <2>2, <2>3, <3>3 DEF RequestKnows
    <3>15. \A u \in Tabs : u # t /\ page[u].request.stage = "upload" =>
           page[u].request.authority.scope # a.scope
      BY <2>1, <2>2, <2>3, <3>3, <3>14, OthersElsewhere
    <3>16. /\ r.upload <= reserved' /\ ~r.job /\ reserved' \in 0 .. MaxUploads
           /\ reserved <= reserved'
      BY <1>1, <3>1, <3>2, ImportsAssumption
    <3>17. slot[a.scope] # None => uploads[slot[a.scope].upload] # "queued"
      BY <3>3, <3>14 DEF Imports!Terminal
    <3> QED
      BY <1>1, <2>3, <3>2, <3>3, <3>4, <3>10, <3>12, <3>13, <3>15, <3>16, <3>17, SlotKeeps
  <2> QED
    BY <2>4, <2>5
<1> QED
  BY <1>2, <1>3

\* Every step keeps the invariant.
LEMMA ImportInvNext == ImportInv /\ [Imports!ImportNext]_(Imports!importVars) => ImportInv'
<1> SUFFICES ASSUME ImportInv, [Imports!ImportNext]_(Imports!importVars) PROVE ImportInv'
  OBVIOUS
<1>1. CASE UNCHANGED Imports!importVars
  <2>1. UNCHANGED <<slot, uploads, reserved, page, trouble>>
    BY <1>1 DEF Imports!importVars
  <2> QED
    BY <2>1 DEF ImportInv, ImportTypes, RequestKnows, OwnUploads, KnownReference,
                Imports!OpenUploadIsRetained
<1>2. CASE Imports!ImportNext
  BY <1>2, AskImport, Answered, Delivered, Tracked, Retaining DEF Imports!ImportNext
<1> QED
  BY <1>1, <1>2

\* The invariant implies what the run checks.
LEMMA ImportInvImplies == ImportInv => Imports!ImportTypeOK /\ Imports!OpenUploadIsRetained
  BY DEF ImportInv, ImportTypes, Imports!ImportTypeOK, TabPage, TabRequest

\* An import the server is still carrying out is retained in some workspace's storage
\* (artifact-import.ts, assertAuthority around every await).
THEOREM UploadsAreRetained ==
  Imports!ImportSpec => [](Imports!ImportTypeOK /\ Imports!OpenUploadIsRetained)
<1>1. Imports!ImportSpec => []ImportInv
  BY ImportInvInit, ImportInvNext, PTL DEF Imports!ImportSpec
<1> QED
  BY <1>1, ImportInvImplies, PTL

=============================================================================
