------------------------------ MODULE LocalRuns ------------------------------
(***************************************************************************)
(* The custom Python / .NET lane (elements/studio-custom-processes-        *)
(* element.ts over gp/custom-process-workspace.ts): a project on disk that *)
(* an IDE edits too, an editor with one file of it, and runs of immutable  *)
(* snapshots whose command identity is retained in local storage, so that  *)
(* a run whose answer was lost, or whose page was reloaded, is observed    *)
(* instead of being submitted again.                                       *)
(*                                                                         *)
(* A text stands for the file, and for the source digest of the project.   *)
(***************************************************************************)
EXTENDS Naturals, Sequences

CONSTANTS
    Texts,        \* contents of the source file
    First,        \* the content the project starts with
    None,
    MaxRevision,  \* revisions of the project: a bound
    MaxCommands,  \* run commands: a bound
    MaxUpsets     \* what users, the IDE and failures may do: a bound

VARIABLES
    disk,        \* the project: text and revision
    identity,    \* LocalProcessWorkspace.#identity of the current client
    project,     \* the element's #project
    selected,    \* the content of the element's #selected file, or None
    content,     \* the text in the editor
    action,      \* the #action under way
    task,        \* an attachWorkspaceTask under way
    client,      \* which LocalProcessWorkspace the element has
    retained,    \* local storage: per digest the retained command
    runs,        \* bridge: the runs it carried out
    receipt,     \* the element's #receipt: a command, or 0
    commands,    \* commands made so far
    recorded,    \* history: the commands whose receipt was kept with them
    upsets       \* how much of MaxUpsets is spent

localVars == <<disk, identity, project, selected, content, action, task, client, retained, runs,
               receipt, commands, recorded, upsets>>

Spend == upsets < MaxUpsets /\ upsets' = upsets + 1

-----------------------------------------------------------------------------
(* Data *)

Project == [text : Texts, revision : 1 .. MaxRevision]

NoAction == [kind |-> "none", stage |-> "none", client |-> 0, of |-> None, command |-> 0]

Kinds == {"none", "load", "save", "run", "status"}
Stages == {"none", "bind", "read", "put", "answer", "observe", "snapshot", "submit"}

\* A retained command: made for a snapshot, accepted once its run is known.
Retained == [command : 1 .. MaxCommands, accepted : BOOLEAN]

Dirty == selected # None /\ content # selected

\* The bridge knows a command once it carried out its run.
Known(c) == \E i \in DOMAIN runs : runs[i].command = c

\* A failed action, or one of a replaced client, changes nothing more.
Stops == action' = NoAction

Mine == action.client = client

-----------------------------------------------------------------------------
(* The element *)

Begin(kind, stage) ==
    /\ Spend
    /\ action = NoAction
    /\ action' = [NoAction EXCEPT !.kind = kind, !.stage = stage, !.client = client,
                                  !.of = project]

\* The user types.
Type(t) ==
    /\ Spend
    /\ selected # None /\ t # content
    /\ content' = t
    /\ UNCHANGED <<disk, identity, project, selected, action, task, client, retained, runs,
                   receipt, commands, recorded>>

\* load: refused while the editor is dirty, then two requests.
AskLoad ==
    /\ ~Dirty
    /\ Begin("load", "bind")
    /\ UNCHANGED <<disk, identity, project, selected, content, task, client, retained, runs,
                   receipt, commands, recorded>>

\* bind answered: the client observes the identity.
Bound ==
    /\ action.kind = "load" /\ action.stage = "bind"
    /\ identity' = IF Mine THEN disk ELSE identity
    /\ action' = IF Mine THEN [action EXCEPT !.stage = "read"] ELSE NoAction
    /\ UNCHANGED <<disk, project, selected, content, task, client, retained, runs, receipt,
                   commands, upsets, recorded>>

\* project answered: everything shown is replaced.
Loaded ==
    /\ action.kind = "load" /\ action.stage = "read"
    /\ IF Mine
       THEN identity' = disk /\ project' = disk /\ selected' = disk.text /\ content' = disk.text
       ELSE UNCHANGED <<identity, project, selected, content>>
    /\ Stops
    /\ UNCHANGED <<disk, task, client, retained, runs, receipt, commands, upsets, recorded>>

\* save: If-Match and the expected revision; the client must have observed
\* the project the element shows.
AskSave ==
    /\ selected # None
    /\ identity # None /\ project = identity
    /\ Spend
    /\ action = NoAction
    /\ action' = [NoAction EXCEPT !.kind = "save", !.stage = "put", !.client = client,
                                  !.of = [text |-> content, revision |-> project.revision]]
    /\ UNCHANGED <<disk, identity, project, selected, content, task, client, retained, runs,
                   receipt, commands, recorded>>

\* The bridge writes a file only over the revision the editor saw.
Put ==
    /\ action.kind = "save" /\ action.stage = "put"
    /\ IF action.of.revision = disk.revision /\ disk.revision < MaxRevision
       THEN /\ disk' = [text |-> action.of.text, revision |-> disk.revision + 1]
            /\ action' = [action EXCEPT !.stage = "answer", !.of.revision = @ + 1]
       ELSE Stops /\ UNCHANGED disk
    /\ UNCHANGED <<identity, project, selected, content, task, client, retained, runs, receipt,
                   commands, upsets, recorded>>

Saved ==
    /\ action.kind = "save" /\ action.stage = "answer"
    /\ IF Mine
       THEN identity' = action.of /\ project' = action.of /\ selected' = action.of.text
       ELSE UNCHANGED <<identity, project, selected>>
    /\ Stops
    /\ UNCHANGED <<disk, content, task, client, retained, runs, receipt, commands, upsets,
                   recorded>>

-----------------------------------------------------------------------------
(* run *)

\* Mutated: a retained command whose run is not known is forgotten.
IsPendingNever(t) == retained[t] # None /\ retained[t].command = 0

IsPending(t) == retained[t] # None /\ ~retained[t].accepted

\* run: of the saved source the client has observed.
AskRun ==
    /\ ~Dirty
    /\ identity # None /\ project = identity
    /\ Begin("run", IF IsPending(identity.text) THEN "observe" ELSE "snapshot")
    /\ UNCHANGED <<disk, identity, project, selected, content, task, client, retained, runs,
                   receipt, commands, recorded>>

\* The run is on record: its receipt is kept with the command, and shown.
Records(t, c) ==
    /\ retained' = [retained EXCEPT ![t] = [command |-> c, accepted |-> TRUE]]
    /\ recorded' = recorded \union {c}
    /\ receipt' = IF Mine THEN c ELSE receipt
    /\ Stops

\* GET local/commands/...: the run of the retained command, or 404, on which
\* the same command is submitted again.
Observed ==
    LET t == action.of.text IN
    /\ action.kind = "run" /\ action.stage = "observe"
    /\ IF Known(retained[t].command)
       THEN Records(t, retained[t].command)
       ELSE /\ action' = [action EXCEPT !.stage = "submit", !.command = retained[t].command]
            /\ UNCHANGED <<retained, receipt, recorded>>
    /\ UNCHANGED <<disk, identity, project, selected, content, task, client, runs, commands, upsets>>

\* POST local/snapshots: refused if the project moved; the command is retained
\* before it is submitted.
Snapshot ==
    LET t == action.of.text IN
    /\ action.kind = "run" /\ action.stage = "snapshot"
    /\ IF disk = action.of /\ commands < MaxCommands
       THEN /\ commands' = commands + 1
            /\ retained' = [retained EXCEPT ![t] = [command |-> commands', accepted |-> FALSE]]
            /\ action' = [action EXCEPT !.stage = "submit", !.command = commands']
       ELSE Stops /\ UNCHANGED <<commands, retained>>
    /\ UNCHANGED <<disk, identity, project, selected, content, task, client, runs, receipt,
                   upsets, recorded>>

\* POST local/runs: the bridge carries a command out once.
CarryOut(t, c) ==
    runs' = IF Known(c) THEN runs ELSE Append(runs, [command |-> c, text |-> t])

Submitted ==
    LET t == action.of.text IN
    /\ action.kind = "run" /\ action.stage = "submit"
    /\ CarryOut(t, action.command)
    /\ Records(t, action.command)
    /\ UNCHANGED <<disk, identity, project, selected, content, task, client, commands, upsets>>

\* A status of "unknown" is an answer that records nothing.
SubmittedUnknown ==
    LET t == action.of.text IN
    /\ Spend
    /\ action.kind = "run" /\ action.stage = "submit"
    /\ CarryOut(t, action.command)
    /\ receipt' = IF Mine THEN action.command ELSE receipt
    /\ Stops
    /\ UNCHANGED <<disk, identity, project, selected, content, task, client, retained, commands,
                   recorded>>

\* status, cancel of the run shown: another receipt of the same run.
Status ==
    /\ receipt # 0
    /\ Begin("status", "answer")
    /\ UNCHANGED <<disk, identity, project, selected, content, task, client, retained, runs,
                   receipt, commands, recorded>>

StatusRead ==
    /\ action.kind = "status" /\ action.stage = "answer"
    /\ Stops
    /\ UNCHANGED <<disk, identity, project, selected, content, task, client, retained, runs,
                   receipt, commands, upsets, recorded>>

\* A request fails or its answer is lost; the bridge may have done its part.
Fail ==
    /\ Spend
    /\ action # NoAction
    /\ \/ action.stage = "submit" /\ CarryOut(action.of.text, action.command)
       \/ UNCHANGED runs
    /\ Stops
    /\ UNCHANGED <<disk, identity, project, selected, content, task, client, retained, receipt,
                   commands, recorded>>

-----------------------------------------------------------------------------
(* The host's task reference *)

\* attachWorkspaceTask, refreshWorkspaceTask: after the action under way, and
\* only into a clean editor. The host names the project as it was observed.
AskAttach ==
    /\ Spend
    /\ action = NoAction /\ task = None /\ ~Dirty
    /\ task' = [client |-> client, text |-> content, reference |-> disk]
    /\ UNCHANGED <<disk, identity, project, selected, content, action, client, retained, runs,
                   receipt, commands, recorded>>

\* Mutated: what the user typed during the read is not looked at.
Unchanged(t) == t.client = client

\* Nothing was typed, saved or replaced while the project was read.
Untouched(t) == t.client = client /\ ~Dirty /\ content = t.text

Attached ==
    /\ task # None
    /\ IF Untouched(task) /\ disk = task.reference
       THEN identity' = disk /\ project' = disk /\ selected' = disk.text /\ content' = disk.text
       ELSE UNCHANGED <<project, selected, content>>
            /\ identity' = IF task.client = client THEN disk ELSE identity
    /\ task' = None
    /\ UNCHANGED <<disk, action, client, retained, runs, receipt, commands, upsets, recorded>>

-----------------------------------------------------------------------------
(* What happens beside the element *)

\* The IDE saves the file.
EditOutside(t) ==
    /\ Spend
    /\ disk.revision < MaxRevision
    /\ disk' = [text |-> t, revision |-> disk.revision + 1]
    /\ UNCHANGED <<identity, project, selected, content, action, task, client, retained, runs,
                   receipt, commands, recorded>>

\* Another client: what was shown is forgotten, an action under way goes on
\* for the former one.
ReplaceClient ==
    /\ Spend
    /\ client' = client + 1
    /\ identity' = None /\ project' = None /\ selected' = None /\ content' = First /\ receipt' = 0
    /\ UNCHANGED <<disk, action, task, retained, runs, commands, recorded>>

\* The page is reloaded; local storage stays.
Reload ==
    /\ Spend
    /\ client' = client + 1
    /\ identity' = None /\ project' = None /\ selected' = None /\ content' = First /\ receipt' = 0
    /\ action' = NoAction /\ task' = None
    /\ UNCHANGED <<disk, retained, runs, commands, recorded>>

-----------------------------------------------------------------------------
LocalInit ==
    /\ disk = [text |-> First, revision |-> 1]
    /\ identity = None /\ project = None /\ selected = None /\ content = First
    /\ action = NoAction /\ task = None /\ client = 0
    /\ retained = [t \in Texts |-> None]
    /\ runs = <<>> /\ receipt = 0 /\ commands = 0 /\ recorded = {} /\ upsets = 0

LocalNext ==
    \/ AskLoad \/ Bound \/ Loaded
    \/ AskSave \/ Put \/ Saved
    \/ AskRun \/ Observed \/ Snapshot \/ Submitted \/ SubmittedUnknown
    \/ Status \/ StatusRead \/ Fail
    \/ AskAttach \/ Attached
    \/ ReplaceClient \/ Reload
    \/ \E t \in Texts : Type(t) \/ EditOutside(t)

LocalSpec == LocalInit /\ [][LocalNext]_localVars

-----------------------------------------------------------------------------
(* Properties *)

LocalTypeOK ==
    /\ disk \in Project
    /\ identity \in Project \union {None} /\ project \in Project \union {None}
    /\ selected \in Texts \union {None} /\ content \in Texts
    /\ action \in [kind : Kinds, stage : Stages, client : Nat, of : Project \union {None},
                   command : 0 .. MaxCommands]
    /\ task = None \/ task \in [client : Nat, text : Texts, reference : Project]
    /\ client \in Nat /\ retained \in [Texts -> Retained \union {None}]
    /\ runs \in Seq([command : 1 .. MaxCommands, text : Texts])
    /\ receipt \in 0 .. MaxCommands /\ commands \in 0 .. MaxCommands
    /\ recorded \subseteq 1 .. MaxCommands /\ upsets \in 0 .. MaxUpsets

\* A run the bridge carried out and nobody recorded is the one whose command
\* is retained for its source: after lost answers, reloads and changes of the
\* client it is observed under that command, never submitted under a new one
\* (custom-process-workspace.ts, run).
UnrecordedRunIsRetained ==
    \A i \in DOMAIN runs :
        runs[i].command \notin recorded =>
            LET slot == retained[runs[i].text]
            IN  slot # None /\ slot.command = runs[i].command

\* Attaching what the agent or the IDE wrote never takes away text the user
\* has not saved, also when it was typed while the project was being read
\* (studio-custom-processes-element.ts, attachWorkspaceTask).
AttachKeepsText ==
    [][task # None /\ task' = None /\ content' # content
           => ~Dirty \/ client' # client]_localVars

\* "Save the current source before loading another project.": loading takes no
\* unsaved text away (studio-custom-processes-element.ts, #action "load").
\* This does not hold: text typed while the project is being read is replaced.
UnsavedTextStays ==
    [][action.kind = "load" /\ action' = NoAction /\ content' # content
           => ~Dirty \/ client' # client]_localVars
=============================================================================
