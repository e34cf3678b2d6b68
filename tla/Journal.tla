------------------------------- MODULE Journal -------------------------------
(***************************************************************************)
(* The master's Kafka journal, seen from its offsets: the Writer of        *)
(* common_journal/writer.go on the primary (CommitEntry goroutines, the    *)
(* Completion callback that advances lastWriteOffset, and the unlocked     *)
(* Checkpoint of DoCheckpoint), and the secondary's Listener               *)
(* (master/journal/listener.go): it fetches entries from its reader        *)
(* offset, applies them to its FileManager, persists the FileManager at    *)
(* every checkpoint marker and records the marker's NextEntryOffset, and   *)
(* on a restart reloads the persisted FileManager and sets its reader to   *)
(* the recorded offset.                                                    *)
(*                                                                         *)
(* An entry is named by its offset; what the FileManager holds is the set  *)
(* of entry offsets applied to it.                                         *)
(***************************************************************************)
EXTENDS Integers, Sequences, FiniteSets

CONSTANTS
  Clients,          \* goroutines calling CommitEntry (FileManager.writeJournal)
  InitialEntries,   \* entries the topic holds when the primary's Writer is created
  MaxEntries,       \* bound: messages in the topic
  MaxCheckpoints,   \* bound: ticks of the checkpoint ticker
  MaxRestarts,      \* bound: restarts of the secondary
  MaxTakeovers,     \* bound: new primaries (new Writers) on the same topic
  KafkaMayFail      \* WriteMessages may fail, before or after storing

ASSUME /\ InitialEntries \in Nat /\ InitialEntries <= MaxEntries
       /\ {MaxCheckpoints, MaxRestarts, MaxTakeovers} \subseteq Nat
       /\ KafkaMayFail \in BOOLEAN

VARIABLES
  log,        \* the topic's single partition; the message at offset o is log[o + 1]
  last,       \* Writer.lastWriteOffset
  cw,         \* cw[c]: CommitEntry of client c: idle, or stored at cw[c].off
  ck,         \* the checkpoint ticker: its step, the NextEntryOffset it computed
  off,        \* the secondary's reader offset
  applied,    \* offsets of the entries applied to the secondary's FileManager
  persisted,  \* offsets of the entries in the FileManager persisted in its sqlite
  pending,    \* NextEntryOffset of a marker persisted but not yet recorded
  recorded,   \* Checkpoint.StartOffset in the secondary's sqlite
  ticks, restarts, takeovers

vars == <<log, last, cw, ck, off, applied, persisted, pending, recorded,
          ticks, restarts, takeovers>>

None == -1
Entry == [kind |-> "entry"]

At(o) == log[o + 1]
Offsets == 0..(Len(log) - 1)

-----------------------------------------------------------------------------
(* Mutant: a missing row read as "no offset" (-1). *)
StartOffsetNone == -1

(* getCheckpointInDB: a missing row is created with StartOffset 0. *)
DefaultStartOffset == 0

(* Mutant: the offset after the marker counted one too far. *)
NextEntryPastMarker(l) == l + 3

(* Writer.Checkpoint: ckptOffset := lastWriteOffset + 1, and the entry     *)
(* after the marker is expected at ckptOffset + 1.                         *)
NextEntryOffset(l) == l + 2

(* The Completion callback: lastWriteOffset only moves forward. *)
Completion(o) == last' = IF last < o THEN o ELSE last

(* WriteMessages stores msg; TRUE when it was stored at the end of the log. *)
Store(msg) == Len(log) < MaxEntries /\ log' = Append(log, msg)

-----------------------------------------------------------------------------
Init ==
  /\ log = [i \in 1..InitialEntries |-> Entry]
  /\ last = 0
  /\ cw = [c \in Clients |-> [pc |-> "idle", off |-> 0]]
  /\ ck = [pc |-> "idle", next |-> 0, off |-> 0]
  /\ off = 0 /\ applied = {} /\ persisted = {}
  /\ pending = None /\ recorded = DefaultStartOffset
  /\ ticks = 0 /\ restarts = 0 /\ takeovers = 0

(***************************************************************************)
(* CommitEntry: WriteMessages stores the entry and then the Completion     *)
(* callback sees its offset.  A failed write is not stored, or is stored   *)
(* and reported as failed (the ack was lost); Completion sees the error    *)
(* and returns.                                                            *)
(***************************************************************************)
CommitEntry(c) ==
  /\ cw[c].pc = "idle"
  /\ \/ Store(Entry) /\ cw' = [cw EXCEPT ![c] = [pc |-> "stored", off |-> Len(log)]]
     \/ KafkaMayFail /\ Store(Entry) /\ UNCHANGED cw
     \/ KafkaMayFail /\ Len(log) < MaxEntries /\ UNCHANGED <<log, cw>>
  /\ UNCHANGED <<last, ck, off, applied, persisted, pending, recorded, ticks,
                 restarts, takeovers>>

CommitComplete(c) ==
  /\ cw[c].pc = "stored"
  /\ Completion(cw[c].off)
  /\ cw' = [cw EXCEPT ![c].pc = "idle"]
  /\ UNCHANGED <<log, ck, off, applied, persisted, pending, recorded, ticks,
                 restarts, takeovers>>

(***************************************************************************)
(* The ticker's DoCheckpoint calls Writer.Checkpoint without               *)
(* PrepareCheckpoint: it reads lastWriteOffset, then writes the marker,    *)
(* while CommitEntry goroutines keep writing.  A failed marker write       *)
(* returns from DoCheckpoint.                                              *)
(***************************************************************************)
CheckpointRead ==
  /\ ck.pc = "idle" /\ ticks < MaxCheckpoints
  /\ ck' = [ck EXCEPT !.pc = "read", !.next = NextEntryOffset(last)]
  /\ ticks' = ticks + 1
  /\ UNCHANGED <<log, last, cw, off, applied, persisted, pending, recorded,
                 restarts, takeovers>>

CheckpointWrite ==
  LET marker == [kind |-> "ckpt", next |-> ck.next] IN
  /\ ck.pc = "read"
  /\ \/ Store(marker) /\ ck' = [ck EXCEPT !.pc = "stored", !.off = Len(log)]
     \/ KafkaMayFail /\ Store(marker) /\ ck' = [ck EXCEPT !.pc = "idle"]
     \/ KafkaMayFail /\ UNCHANGED log /\ ck' = [ck EXCEPT !.pc = "idle"]
  /\ UNCHANGED <<last, cw, off, applied, persisted, pending, recorded, ticks,
                 restarts, takeovers>>

CheckpointComplete ==
  /\ ck.pc = "stored"
  /\ Completion(ck.off)
  /\ ck' = [ck EXCEPT !.pc = "idle"]
  /\ UNCHANGED <<log, cw, off, applied, persisted, pending, recorded, ticks,
                 restarts, takeovers>>

(***************************************************************************)
(* The primary dies and a new one creates its Writer on the same topic:    *)
(* lastWriteOffset starts again at 0; the old goroutines are gone.         *)
(***************************************************************************)
Takeover ==
  /\ takeovers < MaxTakeovers
  /\ last' = 0
  /\ cw' = [c \in Clients |-> [pc |-> "idle", off |-> 0]]
  /\ ck' = [ck EXCEPT !.pc = "idle"]
  /\ takeovers' = takeovers + 1
  /\ UNCHANGED <<log, off, applied, persisted, pending, recorded, ticks,
                 restarts>>

-----------------------------------------------------------------------------
(***************************************************************************)
(* Listener.RunAsSecondary: FetchEntry blocks until the message at the     *)
(* reader offset exists, then handleJournal applies an entry, or for a     *)
(* marker runs handleCheckpoint: Persistent, then RecordCheckpoint.        *)
(***************************************************************************)
FetchEntry ==
  /\ pending = None /\ off < Len(log)
  /\ off' = off + 1
  /\ IF At(off).kind = "entry"
     THEN applied' = applied \cup {off} /\ UNCHANGED <<persisted, pending>>
     ELSE persisted' = applied /\ pending' = At(off).next /\ UNCHANGED applied
  /\ UNCHANGED <<log, last, cw, ck, recorded, ticks, restarts, takeovers>>

RecordCheckpoint ==
  /\ pending # None
  /\ recorded' = pending /\ pending' = None
  /\ UNCHANGED <<log, last, cw, ck, off, applied, persisted, ticks, restarts,
                 takeovers>>

(***************************************************************************)
(* The secondary restarts: LoadFileManager rebuilds the FileManager from   *)
(* sqlite, and RunAsSecondary sets the reader to ReadCheckpoint.           *)
(***************************************************************************)
Restart ==
  /\ restarts < MaxRestarts
  /\ applied' = persisted
  /\ off' = recorded
  /\ pending' = None
  /\ restarts' = restarts + 1
  /\ UNCHANGED <<log, last, cw, ck, persisted, recorded, ticks, takeovers>>

Next ==
  \/ \E c \in Clients : CommitEntry(c) \/ CommitComplete(c)
  \/ CheckpointRead \/ CheckpointWrite \/ CheckpointComplete \/ Takeover
  \/ FetchEntry \/ RecordCheckpoint \/ Restart

Spec == Init /\ [][Next]_vars

-----------------------------------------------------------------------------
TypeOK ==
  /\ log \in Seq([kind : {"entry"}] \cup [kind : {"ckpt"}, next : Nat])
  /\ last \in Nat
  /\ \A c \in Clients : cw[c].pc \in {"idle", "stored"} /\ cw[c].off \in Nat
  /\ ck.pc \in {"idle", "read", "stored"}
  /\ off \in Nat
  /\ applied \subseteq Nat /\ persisted \subseteq Nat
  /\ pending \in Nat \cup {None}
  /\ recorded \in Nat

(***************************************************************************)
(* Every entry the secondary's reader has passed is in its FileManager,    *)
(* also after it restarted from the offset its last checkpoint recorded:   *)
(* the NextEntryOffset a marker carries, computed from a lastWriteOffset   *)
(* that CommitEntry's Completion advances concurrently, never lies past    *)
(* an entry the persisted state lacks.                                     *)
(***************************************************************************)
NoEntrySkipped ==
  \A o \in Offsets : (o < off /\ At(o).kind = "entry") => o \in applied

=============================================================================
