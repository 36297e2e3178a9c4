------------------------------ MODULE MapStyling ------------------------------
(***************************************************************************)
(* Visual editing of the map's style: styles/map-style-editor.ts is the     *)
(* host's side, scripts/maputnik/host-store.ts the side of the sandboxed    *)
(* editor frame, app/style-editor-host.ts opens, saves and discards over    *)
(* the workspace draft.                                                     *)
(*                                                                         *)
(* Host and frame share nothing: two message queues, in order, each side    *)
(* acting on what the other said a while ago.  A save asks the frame for    *)
(* its buffer, looks the thematic field up again and dispatches.            *)
(***************************************************************************)
EXTENDS Naturals, Sequences

CONSTANTS
    Drafts,     \* map drafts
    Sources,    \* what the map's sources may be: the protected part of a style
    Paints,     \* what its layers may look like
    Fields,     \* fields of the layer's source
    None,
    MaxStyling  \* what users, other writers and failures may do: a bound

VARIABLES
    styledDraft, \* the draft the workspace is bound to
    mapStyle,    \* its style, as canvas.editableMapStyle() gives it
    authority,   \* the authority's epoch
    described,   \* the fields the source has now
    visual,      \* the MapStyleEditor
    observing,   \* editableMapStyle() was called for the editor
    frame,       \* the frame: its style, a field being typed in, inert
    toFrame, toHost, \* messages under way
    styling      \* how much of MaxStyling is spent

stylingVars == <<styledDraft, mapStyle, authority, described, visual, observing, frame,
                 toFrame, toHost, styling>>

Move == styling < MaxStyling /\ styling' = styling + 1

-----------------------------------------------------------------------------
(* Data *)

Styles == [source : Sources, paint : Paints, field : Fields \union {None}]

NoStyle == CHOOSE s \in Styles : s.field = None

\* The frame before its first load, and none.
NoFrame == [style |-> None, typing |-> FALSE, inert |-> FALSE]

Closed == [open |-> FALSE, draft |-> None, authority |-> 0, baseline |-> NoStyle,
           candidate |-> NoStyle, dirty |-> FALSE, off |-> TRUE, stage |-> "idle", flush |-> 0,
           invalid |-> "no", thematic |-> None, known |-> {}, loads |-> {}, loadEpoch |-> 0]

Busy == visual.stage # "idle"

\* validateMapStyleEdit: a candidate keeps the sources of its anchor.
Accepts(anchor, style) == style.source = anchor.source

\* #fieldLoadPending: the newest load has not been answered.
Loading(v) == v.loadEpoch \in v.loads

\* #thematicBlocked
Blocked(v) == v.thematic # None /\ (Loading(v) \/ ~v.thematic.valid)

\* #pruneAppliedThematics: a binding whose expression is gone from the candidate is dropped.
Pruned(v) ==
    [v EXCEPT !.thematic = IF @ # None /\ @.field # v.candidate.field THEN None ELSE @]

\* #setDirty, which decides again whether the save button is off.
Dirty(v, dirty) ==
    [v EXCEPT !.dirty = dirty, !.off = ~dirty \/ v.stage # "idle" \/ Blocked(v)]

\* The baseline is what the host observed.
Rebased(v, style) == [v EXCEPT !.baseline = style, !.candidate = style, !.thematic = None]

ToFrame(m) == toFrame' = Append(toFrame, m)
ToHost(m) == toHost' = Append(toHost, m)
LoadOf(style) == [type |-> "load", style |-> style]
Unlock == [type |-> "unlock"]

\* The messages the other side has not had are in order; the first one is had.
FrameGets(type) == toFrame # <<>> /\ Head(toFrame).type = type
HostGets(type) == toHost # <<>> /\ Head(toHost).type = type

\* How a save ends when it fails: the error is shown, the frame unlocked.
SaveFails(v) ==
    /\ visual' = [v EXCEPT !.stage = "idle",
                           !.off = ~v.dirty \/ v.invalid # "no" \/ Blocked(v)]
    /\ toFrame' = IF v.open THEN Append(toFrame, Unlock) ELSE toFrame

-----------------------------------------------------------------------------
(* Opening and closing *)

\* open: the draft's style is read under an authority and a draft that must both still hold, so
\* it is one step here, the frame's "ready" and the load that answers it included: nobody works
\* in an editor that shows nothing yet.  A second open before the first answered is left out.
Open ==
    /\ ~visual.open /\ ~Busy
    /\ visual' = [Closed EXCEPT !.open = TRUE, !.draft = styledDraft, !.authority = authority,
                                !.baseline = mapStyle, !.candidate = mapStyle,
                                !.loads = {1}, !.loadEpoch = 1]
    /\ frame' = NoFrame
    /\ toHost' = <<>>
    /\ toFrame' = <<LoadOf(mapStyle)>>
    /\ UNCHANGED <<styledDraft, mapStyle, authority, described, observing, styling>>

\* dispose: a flush under way is rejected, other steps of a save notice when they continue.
Disposed ==
    /\ visual' = [visual EXCEPT !.open = FALSE, !.dirty = FALSE, !.loads = {},
                                !.stage = IF @ = "flush" THEN "idle" ELSE @]
    /\ frame' = NoFrame
    /\ toFrame' = <<>> /\ toHost' = <<>>
    /\ observing' = FALSE

Close ==
    /\ visual.open /\ ~visual.dirty /\ ~Busy
    /\ Disposed
    /\ UNCHANGED <<styledDraft, mapStyle, authority, described, styling>>

-----------------------------------------------------------------------------
(* The workspace *)

\* The composition changed: a clean editor asks the canvas for the style it then has.
Notify == observing' = (observing \/ (visual.open /\ ~visual.dirty))

\* Another edit of the same map is adopted; nothing refuses one while the editor is dirty.
OtherEdit ==
    /\ Move
    /\ \E s \in Styles :
          /\ s.field = mapStyle.field
          /\ (s.paint = mapStyle.paint) # (s.source = mapStyle.source)
          /\ mapStyle' = s
    /\ Notify
    /\ UNCHANGED <<styledDraft, authority, described, visual, frame, toFrame, toHost>>

\* Attaching another draft is refused while anything is unsaved (hasDirtyForm).
Attach ==
    /\ ~visual.dirty
    /\ Move
    /\ \E d \in Drafts \ {styledDraft} : styledDraft' = d
    /\ \E s \in Styles : s.field = None /\ mapStyle' = s
    /\ Notify
    /\ UNCHANGED <<authority, described, visual, frame, toFrame, toHost>>

\* #revokeAuthority; while a discard runs, the host has let go of the editor.
Revoke ==
    /\ Move
    /\ authority' = authority + 1
    /\ IF visual.stage = "discard"
       THEN UNCHANGED <<visual, observing, frame, toFrame, toHost>>
       ELSE Disposed
    /\ UNCHANGED <<styledDraft, mapStyle, described>>

\* observeSavedDocument
Observed ==
    /\ observing
    /\ observing' = FALSE
    /\ IF visual.open /\ authority = visual.authority /\ ~visual.dirty /\ ~Busy
       THEN visual' = Rebased(visual, mapStyle) /\ ToFrame(LoadOf(mapStyle))
       ELSE UNCHANGED <<visual, toFrame>>
    /\ UNCHANGED <<styledDraft, mapStyle, authority, described, frame, toHost, styling>>

\* The source's fields change where they are kept.
FieldsChange ==
    /\ Move
    /\ \E fs \in SUBSET Fields : fs # described /\ described' = fs
    /\ UNCHANGED <<styledDraft, mapStyle, authority, visual, observing, frame, toFrame, toHost>>

-----------------------------------------------------------------------------
(* The frame *)

\* What the editor can make of a style: other paint, a thematic expression kept or painted over.
Repainted(style) ==
    {s \in Styles : s # style /\ s.source = style.source /\ s.field \in {None, style.field}}

InUse == frame.style # None /\ ~frame.inert

\* A field is typed in: markPending.
Type ==
    /\ InUse
    /\ Move
    /\ frame' = [frame EXCEPT !.typing = TRUE]
    /\ ToHost([type |-> "input"])
    /\ UNCHANGED <<styledDraft, mapStyle, authority, described, visual, observing, toFrame>>

\* save: the style changes; only the commit of the field typed in settles that field.
Commit ==
    /\ InUse
    /\ Move
    /\ \E s \in Repainted(frame.style), settles \in BOOLEAN :
          /\ frame' = [frame EXCEPT !.style = s, !.typing = @ /\ ~settles]
          /\ ToHost([type |-> "change", style |-> s])
    /\ UNCHANGED <<styledDraft, mapStyle, authority, described, visual, observing, toFrame>>

FrameLoad ==
    /\ FrameGets("load")
    /\ frame' = [frame EXCEPT !.style = Head(toFrame).style, !.typing = FALSE]
    /\ toFrame' = Tail(toFrame)
    /\ UNCHANGED <<styledDraft, mapStyle, authority, described, visual, observing, toHost, styling>>

\* A flush: no more input, and the field typed in loses the focus, which may commit it.
FrameFlush ==
    /\ FrameGets("flush")
    /\ \E s \in {frame.style} \union (IF frame.typing THEN Repainted(frame.style) ELSE {}) :
          LET commits == s # frame.style
              typing  == frame.typing /\ ~commits
              answer  == [type |-> "flushed", id |-> Head(toFrame).id, settled |-> ~typing,
                          style |-> s]
          IN  /\ frame' = [style |-> s, typing |-> typing, inert |-> TRUE]
              /\ toHost' = toHost \o (IF commits THEN <<[type |-> "change", style |-> s]>> ELSE <<>>)
                                  \o <<answer>>
    /\ toFrame' = Tail(toFrame)
    /\ UNCHANGED <<styledDraft, mapStyle, authority, described, visual, observing, styling>>

FrameUnlock ==
    /\ FrameGets("unlock")
    /\ frame' = [frame EXCEPT !.inert = FALSE]
    /\ toFrame' = Tail(toFrame)
    /\ UNCHANGED <<styledDraft, mapStyle, authority, described, visual, observing, toHost, styling>>

-----------------------------------------------------------------------------
(* What the frame says to the host: #receive *)

\* A field is being typed in: the editor is dirty, and the button is on whatever was invalid.
Input ==
    /\ HostGets("input")
    /\ toHost' = Tail(toHost)
    /\ visual' = [Dirty(visual, TRUE) EXCEPT !.invalid = "typing", !.off = Blocked(visual)]
    /\ UNCHANGED <<styledDraft, mapStyle, authority, described, observing, frame, toFrame, styling>>

\* A change is not taken while a save or a discard is under way.
Change ==
    /\ HostGets("change")
    /\ toHost' = Tail(toHost)
    /\ LET s == Head(toHost).style
           v == Dirty(visual, TRUE)
           w == Pruned([v EXCEPT !.candidate = s, !.invalid = "no"])
       IN  visual' = IF Busy THEN visual
                     ELSE IF ~Accepts(visual.baseline, s)
                     THEN [v EXCEPT !.invalid = "refused", !.off = TRUE]
                     ELSE Dirty(w, s # visual.baseline)
    /\ UNCHANGED <<styledDraft, mapStyle, authority, described, observing, frame, toFrame, styling>>

-----------------------------------------------------------------------------
(* Saving *)

\* Mutated: any answer of the frame is taken for the one awaited.
AnswersAny(id) == visual.stage = "flush"
Answers(id) == visual.stage = "flush" /\ visual.flush = id

\* Mutated: the save goes to whatever draft the workspace is bound to.
SessionAny == authority = visual.authority
SessionHolds == authority = visual.authority /\ styledDraft = visual.draft

\* #performSave up to the frame's answer.  A field being typed in may still be committed by the
\* flush; anything else invalid, or a thematic field in doubt, is refused at once.
Save ==
    /\ visual.open /\ visual.dirty /\ ~visual.off /\ ~Busy
    /\ Move
    /\ IF Blocked(visual) \/ visual.invalid \in {"values", "refused"}
       THEN SaveFails([visual EXCEPT !.off = TRUE])
       ELSE /\ visual' = [visual EXCEPT !.stage = "flush", !.flush = styling', !.off = TRUE]
            /\ ToFrame([type |-> "flush", id |-> styling'])
    /\ UNCHANGED <<styledDraft, mapStyle, authority, described, observing, frame, toHost>>

\* The five seconds of the flush pass.
FlushTimesOut ==
    /\ visual.stage = "flush"
    /\ SaveFails(visual)
    /\ UNCHANGED <<styledDraft, mapStyle, authority, described, observing, frame, toHost, styling>>

\* onSave is called: StyleEditorHost refuses another draft than the one opened.
Dispatch(v) ==
    IF SessionHolds THEN visual' = [v EXCEPT !.stage = "write"] /\ UNCHANGED toFrame
    ELSE SaveFails(v)

\* The answer awaited: the buffer is the candidate, its thematic field is asked for again.
Flushed ==
    /\ HostGets("flushed")
    /\ toHost' = Tail(toHost)
    /\ LET a == Head(toHost)
           v == Pruned([visual EXCEPT !.candidate = a.style])
       IN  IF ~Answers(a.id) THEN UNCHANGED <<visual, toFrame>>
           ELSE IF ~a.settled THEN SaveFails(visual)
           ELSE IF a.style = None THEN SaveFails(visual)
           ELSE IF ~Accepts(v.baseline, a.style) THEN SaveFails(v)
           ELSE IF v.thematic # None THEN visual' = [v EXCEPT !.stage = "check"] /\ UNCHANGED toFrame
           ELSE IF Loading(v) THEN SaveFails(v)
           ELSE Dispatch(v)
    /\ UNCHANGED <<styledDraft, mapStyle, authority, described, observing, frame, styling>>

\* #revalidateAppliedThematics
Revalidated ==
    /\ visual.stage = "check"
    /\ LET v == IF visual.thematic = None THEN visual
                ELSE [visual EXCEPT !.thematic.valid = visual.thematic.field \in described]
       IN  IF ~v.open \/ Blocked(v) \/ Loading(v) THEN SaveFails(v) ELSE Dispatch(v)
    /\ UNCHANGED <<styledDraft, mapStyle, authority, described, observing, frame, toHost, styling>>

\* The edit queue takes the setMapStyle command: CompositionEditor accepts it over the style the
\* canvas then has, under the authority and the draft of the dispatch.
Written ==
    /\ visual.stage = "write"
    /\ authority = visual.authority
    /\ Accepts(mapStyle, visual.candidate)
    /\ mapStyle' = visual.candidate
    /\ visual' = [visual EXCEPT !.stage = "readback"]
    /\ UNCHANGED <<styledDraft, authority, described, observing, frame, toFrame, toHost, styling>>

\* It is refused, or fails.
WriteFails ==
    /\ visual.stage = "write"
    /\ SaveFails(visual)
    /\ UNCHANGED <<styledDraft, mapStyle, authority, described, observing, frame, toHost, styling>>

\* The readback is the baseline.
Saved ==
    /\ visual.stage = "readback"
    /\ IF authority # visual.authority \/ ~Accepts(visual.candidate, mapStyle)
       THEN SaveFails(visual)
       ELSE /\ visual' = [Rebased(visual, mapStyle) EXCEPT !.stage = "idle", !.invalid = "no",
                                                           !.dirty = FALSE, !.off = TRUE]
            /\ toFrame' = toFrame \o <<LoadOf(mapStyle), Unlock>>
    /\ UNCHANGED <<styledDraft, mapStyle, authority, described, observing, frame, toHost, styling>>

-----------------------------------------------------------------------------
(* Discarding *)

Discard ==
    /\ visual.open /\ ~Busy
    /\ Move
    /\ authority = visual.authority
    /\ visual' = [visual EXCEPT !.stage = "discard"]
    /\ UNCHANGED <<styledDraft, mapStyle, authority, described, observing, frame, toFrame, toHost>>

\* The draft was attached again; the editor is let go when its authority is not the current one.
Discarded ==
    /\ visual.stage = "discard"
    /\ IF authority # visual.authority
       THEN /\ visual' = [visual EXCEPT !.open = FALSE, !.dirty = FALSE, !.loads = {},
                                        !.stage = "idle"]
            /\ frame' = NoFrame /\ toFrame' = <<>> /\ toHost' = <<>> /\ observing' = FALSE
       ELSE /\ visual' = [Rebased(visual, mapStyle) EXCEPT !.stage = "idle", !.invalid = "no",
                                                           !.dirty = FALSE, !.off = TRUE]
            /\ ToFrame(LoadOf(mapStyle))
            /\ UNCHANGED <<frame, toHost, observing>>
    /\ UNCHANGED <<styledDraft, mapStyle, authority, described, styling>>

\* It could not be: the buffer stays as it was.
DiscardFails ==
    /\ visual.stage = "discard" /\ authority = visual.authority
    /\ visual' = [visual EXCEPT !.stage = "idle"]
    /\ UNCHANGED <<styledDraft, mapStyle, authority, described, observing, frame, toFrame, toHost,
                   styling>>

-----------------------------------------------------------------------------
(* Thematic colours *)

\* The layer is chosen, or the catalog's refresh asks again: one load is the newest.
LoadFields ==
    /\ visual.open
    /\ Move
    /\ LET v == [visual EXCEPT !.loads = @ \union {visual.loadEpoch + 1}, !.loadEpoch = @ + 1,
                               !.known = {}]
       IN  visual' = Dirty(v, v.dirty)
    /\ UNCHANGED <<styledDraft, mapStyle, authority, described, observing, frame, toFrame, toHost>>

\* Only the newest load says what the fields are, and whether an applied one still is.
FieldsLoaded ==
    /\ \E n \in visual.loads :
          LET v == [visual EXCEPT !.loads = @ \ {n}]
              w == [v EXCEPT !.known = described,
                             !.thematic = IF @ = None THEN None
                                          ELSE [@ EXCEPT !.valid = visual.thematic.field \in described]]
          IN  visual' = IF n = visual.loadEpoch THEN Dirty(w, w.dirty) ELSE v
    /\ UNCHANGED <<styledDraft, mapStyle, authority, described, observing, frame, toFrame, toHost,
                   styling>>

FieldsFail ==
    /\ \E n \in visual.loads :
          LET v == [visual EXCEPT !.loads = @ \ {n}]
              w == [v EXCEPT !.thematic = IF @ = None THEN None ELSE [@ EXCEPT !.valid = FALSE]]
          IN  visual' = IF n = visual.loadEpoch THEN Dirty(w, w.dirty) ELSE v
    /\ UNCHANGED <<styledDraft, mapStyle, authority, described, observing, frame, toFrame, toHost,
                   styling>>

\* Thematic values are typed, not applied yet.
TypeValues ==
    /\ visual.open
    /\ Move
    /\ visual' = [Dirty(visual, TRUE) EXCEPT !.invalid = "values", !.off = TRUE]
    /\ UNCHANGED <<styledDraft, mapStyle, authority, described, observing, frame, toFrame, toHost>>

\* They are applied over a field the newest load gave.
ApplyThematic ==
    /\ visual.open /\ ~Busy /\ ~Loading(visual)
    /\ Move
    /\ \E f \in visual.known :
          LET s == [visual.candidate EXCEPT !.field = f]
              v == [visual EXCEPT !.candidate = s, !.invalid = "no",
                                  !.thematic = [field |-> f, valid |-> TRUE]]
          IN  /\ visual' = Dirty(v, TRUE)
              /\ ToFrame(LoadOf(s))
    /\ UNCHANGED <<styledDraft, mapStyle, authority, described, observing, frame, toHost>>

-----------------------------------------------------------------------------

StylingInit ==
    /\ styledDraft \in Drafts
    /\ mapStyle = NoStyle
    /\ authority = 0
    /\ described = Fields
    /\ visual = Closed
    /\ observing = FALSE
    /\ frame = NoFrame
    /\ toFrame = <<>> /\ toHost = <<>>
    /\ styling = 0

StylingNext ==
    \/ Open \/ Close
    \/ OtherEdit \/ Attach \/ Revoke \/ Observed \/ FieldsChange
    \/ Type \/ Commit \/ FrameLoad \/ FrameFlush \/ FrameUnlock
    \/ Input \/ Change
    \/ Save \/ FlushTimesOut \/ Flushed \/ Revalidated \/ Written \/ WriteFails \/ Saved
    \/ Discard \/ Discarded \/ DiscardFails
    \/ LoadFields \/ FieldsLoaded \/ FieldsFail \/ TypeValues \/ ApplyThematic

StylingSpec == StylingInit /\ [][StylingNext]_stylingVars

-----------------------------------------------------------------------------
(* Properties *)

\* Every variable has a value of its type.
StylingTypeOK ==
    /\ styledDraft \in Drafts /\ mapStyle \in Styles /\ authority \in Nat
    /\ described \subseteq Fields /\ observing \in BOOLEAN /\ styling \in 0..MaxStyling
    /\ visual.stage \in {"idle", "flush", "check", "write", "readback", "discard"}
    /\ visual.invalid \in {"no", "typing", "values", "refused"}
    /\ visual.baseline \in Styles /\ visual.candidate \in Styles
    /\ frame.style \in Styles \union {None}

\* A save of the editor reached the draft.
Writes == visual.stage = "write" /\ visual'.stage = "readback"

\* What a save writes is what the frame shows, with no field of it still being typed in, whatever
\* the user did around an earlier flush that timed out: the buffer is the answer to this flush and
\* the frame takes no input from then on.
WritesWhatIsShown ==
    [][Writes => (visual.open => (mapStyle' = frame.style /\ ~frame.typing))]_stylingVars

\* A style is only ever written to the draft, and under the authority, the editor was opened
\* over, although a clean editor stays open while the workspace attaches other drafts.
WritesToItsDraft ==
    [][Writes => visual.draft = styledDraft /\ visual.authority = authority]_stylingVars

\* "Map style matches the saved draft.", says the editor of a change that leaves its baseline: a
\* clean editor's baseline is the draft's style unless that is being read.
\* This does not hold: a change observed while the editor is busy is passed over and not read
\* again.
MatchesSavedDraft ==
    visual.open /\ ~visual.dirty /\ ~Busy /\ ~observing /\ visual.authority = authority =>
       visual.baseline = mapStyle

\* A thematic field that was removed is refused: no save writes an expression over a field the
\* source did not have when the editor last asked.
\* This does not hold: an expression that comes back with the frame's buffer is of no thematic
\* binding.
NoRemovedField ==
    [][Writes /\ visual.candidate.field \notin {None, mapStyle.field} =>
          visual.thematic # None]_stylingVars
===============================================================================
