---------------------------- MODULE ActivityLog ----------------------------
(* The replayable activity log (activity-log.ts) that every surface appends  *)
(* to, and <honua-studio-activity-log>, which shows it, steps through a      *)
(* replay of it, and exports and imports it.                                 *)
EXTENDS Integers, Sequences, FiniteSetsExt

CONSTANTS
  MaxEntries,    \* bound: entries appended
  MaxImports     \* bound: imports, clears and replays

VARIABLES
  entries,       \* the log's entries, [seq, at]: `at` tells one append from another
  seq,           \* the log's last sequence number
  exported,      \* the exports made, each a log's entries
  snapshot,      \* the entries #replay steps through, <<>> when there is no session
  position,      \* #replay's position
  replayed,      \* #replayedSeqs
  appended,      \* entries appended so far
  imports        \* imports, clears and replays so far

logVars == <<entries, seq, exported, snapshot, position, replayed, appended, imports>>

\* append() numbers an entry one past the last.
AppendEntry ==
  /\ appended < MaxEntries
  /\ appended' = appended + 1
  /\ seq' = seq + 1
  /\ entries' = Append(entries, [seq |-> seq + 1, at |-> appended + 1])
  /\ UNCHANGED <<exported, snapshot, position, replayed, imports>>

Counted == imports < MaxImports /\ imports' = imports + 1

Clear ==
  /\ Counted
  /\ entries' = <<>> /\ seq' = 0
  /\ UNCHANGED <<exported, snapshot, position, replayed, appended>>

Export ==
  /\ exported' = exported \cup {entries}
  /\ exported' # exported
  /\ UNCHANGED <<entries, seq, snapshot, position, replayed, appended, imports>>

CountOf(loaded) == Len(loaded)  \* Mutated: numbering goes on from how many were loaded
LastSeq(loaded) == Max({loaded[i].seq : i \in DOMAIN loaded} \cup {0})

\* importJson(): load() replaces the log; a replay session under way keeps its own snapshot.
Import ==
  /\ Counted
  /\ \E loaded \in exported : entries' = loaded /\ seq' = LastSeq(loaded)
  /\ UNCHANGED <<exported, snapshot, position, replayed, appended>>

\* A log merged by hand from two exports is imported as well: its entries need not be in order.
ImportMerged ==
  /\ Counted
  /\ \E first, second \in exported :
       /\ first # <<>> /\ second # <<>>
       /\ LET merged == <<first[Len(first)], Head(second)>> IN
          entries' = merged /\ seq' = LastSeq(merged)
  /\ UNCHANGED <<exported, snapshot, position, replayed, appended>>

StartReplay ==
  /\ Counted
  /\ snapshot' = entries /\ position' = 0 /\ replayed' = {}
  /\ UNCHANGED <<entries, seq, exported, appended>>

\* replayNext(): an exhausted session emits nothing more.
ReplayNext ==
  /\ position < Len(snapshot)
  /\ position' = position + 1
  /\ replayed' = replayed \cup {snapshot[position + 1].seq}
  /\ UNCHANGED <<entries, seq, exported, snapshot, appended, imports>>

ResetReplay ==
  /\ position > 0
  /\ position' = 0 /\ replayed' = {}
  /\ UNCHANGED <<entries, seq, exported, snapshot, appended, imports>>

LogInit ==
  /\ entries = <<>> /\ seq = 0 /\ exported = {}
  /\ snapshot = <<>> /\ position = 0 /\ replayed = {}
  /\ appended = 0 /\ imports = 0

LogNext ==
  \/ AppendEntry \/ Clear \/ Export \/ Import \/ ImportMerged
  \/ StartReplay \/ ReplayNext \/ ResetReplay

LogSpec == LogInit /\ [][LogNext]_logVars

LogTypeOK ==
  /\ \A i \in DOMAIN entries : entries[i] \in [seq : Nat, at : Nat]
  /\ seq \in Nat /\ position \in 0..Len(snapshot) /\ replayed \subseteq Nat

\* No appended entry gets a number that an entry of the log already has, whatever exports were
\* cleared away, imported or merged before it (load() "never resets to collide with future
\* appends").
NumbersNeverCollide ==
  [][AppendEntry => \A i \in DOMAIN entries : entries[i].seq # entries'[Len(entries')].seq]_logVars

=============================================================================
