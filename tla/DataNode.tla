------------------------------ MODULE DataNode ------------------------------
(***************************************************************************)
(* One chunk of a SheetFS data-node group.                                 *)
(*                                                                         *)
(* The primary serves WriteChunk and DeleteChunk                           *)
(* (datanode/server/server.go): every request is first committed to the    *)
(* group's Kafka journal, then checked against the chunk's version trailer *)
(* and applied to the chunk file in several system calls.  gRPC runs each  *)
(* request on its own goroutine and the server holds no lock, so the steps *)
(* of different requests interleave.  The secondary replays the journal    *)
(* with HandleMsg; when the primary dies it drains the rest of the journal *)
(* and takes over (datanode/node/node.go).  Writers are the spin loop of   *)
(* fsclient File.WriteAt: a WrongVersion reply makes them send again.      *)
(*                                                                         *)
(* Data is abstracted to versions: the master hands out each version of a  *)
(* chunk once, so the bytes a write stores are named by its version, and a *)
(* slot (offset / MaxBytesPerCell) holds the version that last wrote it,   *)
(* or Pad.  Chunks are independent of each other (every journal entry and  *)
(* every file touches one chunk), so one chunk is modelled.                *)
(***************************************************************************)
EXTENDS Naturals, Sequences, SequencesExt, FiniteSets

CONSTANTS
  Nodes,            \* the data-node processes of the group
  NoNode,           \* no process holds the role
  MaxCellsPerChunk, \* slots of a chunk (config.MaxCellsPerChunk)
  MaxVersion,       \* the master grants versions 1..MaxVersion of the chunk
  MaxLag,           \* bound: journal entries the secondary has not consumed
  MaxDeletes,       \* bound: DeleteChunk requests
  MaxCrashes,       \* bound: crashes of the primary
  KafkaMayFail,     \* CommitEntry may fail ACK_MOST_TIMES times in a row
  ClientsMayGiveUp, \* a writer's context may end before its write lands
  MaxReads          \* bound: File.ReadAt calls

ASSUME /\ Cardinality(Nodes) = 2
       /\ NoNode \notin Nodes
       /\ MaxCellsPerChunk \in Nat \ {0}
       /\ MaxVersion \in Nat \ {0}
       /\ {MaxLag, MaxDeletes, MaxCrashes, MaxReads} \subseteq Nat
       /\ {KafkaMayFail, ClientsMayGiveUp} \subseteq BOOLEAN

Versions == 1..MaxVersion
Slots    == 0..(MaxCellsPerChunk - 1)
Pad      == 0   \* the padding byte: no write has filled the slot

VARIABLES
  grant,    \* grant[v]: slot of the cell the master gave version v for
  disk,     \* disk[n]: the chunk file of node n
  primary,  \* node serving RPCs, NoNode between a crash and the takeover
  backup,   \* node replaying the journal, NoNode once it took over
  lag,      \* journal entries committed and not yet fetched by backup
  hpc,      \* hpc[v]: step of the WriteChunk handler serving version v
  hgen,     \* hgen[v]: the file (inode) that handler opened
  cl,       \* cl[v]: the WriteAt loop of the writer holding version v
  dpc,      \* step of the DeleteChunk handler
  deletes,  \* DeleteChunk requests sent
  deleted,  \* a delete entry has been journaled
  crashes,  \* primary crashes so far
  rd,       \* the File.ReadAt in progress: its step, cell, version and result
  reads     \* ReadAt calls made

vars == <<grant, disk, primary, backup, lag, hpc, hgen, cl, dpc, deletes,
          deleted, crashes, rd, reads>>

(***************************************************************************)
(* A chunk file: whether it exists, which inode it is, the version trailer *)
(* at VERSION_START_LOCATION and the content of every slot.                *)
(***************************************************************************)
FileState == [present : BOOLEAN, gen : Nat, ver : Nat,
              data : [Slots -> {Pad} \cup Versions]]
NoFile == [present |-> FALSE, gen |-> 0, ver |-> 0,
           data |-> [s \in Slots |-> Pad]]

Entry == [op : {"write"}, ver : Versions, slot : Slots] \cup [op : {"delete"}]

HandlerSteps == {"none", "commit", "open", "create", "writeFull",
                 "writeData", "setVersion"}

(***************************************************************************)
(* Which slot each version may write: WriteCellChunk bumps the version of  *)
(* the chunk for a write to an existing cell, and for a new cell appends   *)
(* it at offset len(chunk.Cells) * MaxBytesPerCell while the chunk has     *)
(* room.  The first version of a chunk is its first cell, at slot 0.       *)
(***************************************************************************)
SlotsBefore(g, v) == {g[u] : u \in 1..(v - 1)}
GrantedSlots(g) ==
  \A v \in Versions :
    g[v] \in SlotsBefore(g, v) \cup ({Cardinality(SlotsBefore(g, v))} \cap Slots)

(* Seeded bug: the entry records the offset one cell too far. *)
WriteEntryOffByOne(v) == [op |-> "write", ver |-> v, slot |-> grant[v] + 1]

(* journal.ConstructWriteEntry / ConstructDeleteEntry *)
WriteEntry(v) == [op |-> "write", ver |-> v, slot |-> grant[v]]
DeleteEntry   == [op |-> "delete"]

(* Seeded bug: the cell's bytes used as the padding of the whole file. *)
PaddedFileEverywhere(s, v) == [t \in Slots |-> v]

(* utils.GetPaddedFile: padding everywhere but the written slot. *)
PaddedFile(s, v) == [t \in Slots |-> IF t = s THEN v ELSE Pad]

(* Seeded bugs: a missing file accepted for version 0, and an existing one *)
(* for any newer version instead of the next one.                         *)
CreateAcceptsZero(v) == v = 0
AcceptsAhead(cur, v) == cur < v

(* The version check of WriteChunk on a missing and on an existing file. *)
CreateAccepts(v) == v = 1
Accepts(cur, v)  == cur + 1 = v

(***************************************************************************)
(* Writer.CommitEntry appends to the topic; the secondary reads it later.  *)
(* Once nobody replays the journal its entries are not kept.               *)
(***************************************************************************)
Journal(e) ==
  IF backup = NoNode THEN UNCHANGED lag
  ELSE /\ Len(lag) < MaxLag
       /\ lag' = Append(lag, e)

(* A write through the handle opened on inode g: lost once g is unlinked. *)
Through(f, g, new) == IF f.present /\ f.gen = g THEN new ELSE f

SetPrimaryFile(f) == disk' = [disk EXCEPT ![primary] = f]

(* Ends the handler of version v with a reply to the writer. *)
Reply(v, status) ==
  /\ hpc' = [hpc EXCEPT ![v] = "none"]
  /\ cl' = [cl EXCEPT ![v] = CASE status = "OK"           -> "acked"
                               [] status = "WrongVersion" -> "spin"
                               [] OTHER                   -> "failed"]

-----------------------------------------------------------------------------
(***************************************************************************)
(* Secondary replay: Server.HandleMsg.  A write entry creates the file if  *)
(* it is missing; otherwise it is applied when the checksum of the slot or *)
(* the version trailer differ from the entry.  No version check.           *)
(***************************************************************************)
HandleWriteMsg(f, e) ==
  IF ~f.present
  THEN [present |-> TRUE, gen |-> f.gen + 1, ver |-> e.ver,
        data |-> PaddedFile(e.slot, e.ver)]
  ELSE IF f.data[e.slot] # e.ver \/ f.ver # e.ver
       THEN [f EXCEPT !.data[e.slot] = e.ver, !.ver = e.ver]
       ELSE f

HandleDeleteMsg(f) == [f EXCEPT !.present = FALSE]

HandleMsg(f, e) ==
  IF e.op = "write" THEN HandleWriteMsg(f, e) ELSE HandleDeleteMsg(f)

(* RunAsSecondary's TryFetchEntry loop: apply everything left. *)
Drain(f, q) == FoldLeft(HandleMsg, f, q)

(* Seeded bugs: the version check one version short, and strict. *)
ReadChunkOneShort(f, s, v) ==
  IF ~f.present THEN [status |-> "NotFound", data |-> Pad]
  ELSE IF f.ver + 1 >= v THEN [status |-> "OK", data |-> f.data[s]]
  ELSE [status |-> "WrongVersion", data |-> Pad]

ReadChunkStrict(f, s, v) ==
  IF ~f.present THEN [status |-> "NotFound", data |-> Pad]
  ELSE IF f.ver > v THEN [status |-> "OK", data |-> f.data[s]]
  ELSE [status |-> "WrongVersion", data |-> Pad]

(***************************************************************************)
(* Server.ReadChunk on file f: NotFound, WrongVersion, or the slot.        *)
(***************************************************************************)
ReadChunk(f, s, v) ==
  IF ~f.present THEN [status |-> "NotFound", data |-> Pad]
  ELSE IF f.ver >= v THEN [status |-> "OK", data |-> f.data[s]]
  ELSE [status |-> "WrongVersion", data |-> Pad]

-----------------------------------------------------------------------------
Init ==
  /\ grant \in {g \in [Versions -> Slots] : GrantedSlots(g)}
  /\ disk = [n \in Nodes |-> NoFile]
  /\ primary = CHOOSE n \in Nodes : TRUE
  /\ backup = CHOOSE n \in Nodes : n # primary
  /\ lag = <<>>
  /\ hpc = [v \in Versions |-> "none"]
  /\ hgen = [v \in Versions |-> 0]
  /\ cl = [v \in Versions |-> "ready"]
  /\ dpc = "none"
  /\ deletes = 0
  /\ deleted = FALSE
  /\ crashes = 0
  /\ rd = [pc |-> "idle", slot |-> 0, ver |-> 0, data |-> Pad]
  /\ reads = 0

(* File.WriteAt: send WriteChunk, at first or again after WrongVersion. *)
SendWrite(v) ==
  /\ cl[v] \in {"ready", "spin"}
  /\ primary # NoNode
  /\ cl' = [cl EXCEPT ![v] = "busy"]
  /\ hpc' = [hpc EXCEPT ![v] = "commit"]
  /\ UNCHANGED <<grant, disk, primary, backup, lag, hgen, dpc, deletes,
                 deleted, crashes, rd, reads>>

(* File.WriteAt: ctx.Done() at the top of the loop. *)
GiveUp(v) ==
  /\ ClientsMayGiveUp
  /\ cl[v] \in {"ready", "spin"}
  /\ cl' = [cl EXCEPT ![v] = "failed"]
  /\ UNCHANGED <<grant, disk, primary, backup, lag, hpc, hgen, dpc, deletes,
                 deleted, crashes, rd, reads>>

(* WriteChunk: the journal entry is committed before anything else. *)
CommitWrite(v) ==
  /\ hpc[v] = "commit"
  /\ Journal(WriteEntry(v))
  /\ hpc' = [hpc EXCEPT ![v] = "open"]
  /\ UNCHANGED <<grant, disk, primary, backup, hgen, cl, dpc, deletes,
                 deleted, crashes, rd, reads>>

(***************************************************************************)
(* ACK_MOST_TIMES failed commits: the reply is Unavailable.  A failed      *)
(* WriteMessages may still have stored the entry (the acknowledgement was  *)
(* lost), so the journal may or may not hold it.                           *)
(***************************************************************************)
FailedCommit(e) == UNCHANGED lag \/ Journal(e)

(* WriteChunk: the commit loop gives up. *)
CommitWriteFails(v) ==
  /\ KafkaMayFail
  /\ hpc[v] = "commit"
  /\ FailedCommit(WriteEntry(v))
  /\ Reply(v, "Unavailable")
  /\ UNCHANGED <<grant, disk, primary, backup, hgen, dpc, deletes,
                 deleted, crashes, rd, reads>>

(* WriteChunk: os.OpenFile, then the version check. *)
OpenChunk(v) ==
  LET f == disk[primary] IN
  /\ hpc[v] = "open"
  /\ \/ /\ ~f.present /\ CreateAccepts(v)
        /\ hpc' = [hpc EXCEPT ![v] = "create"]
        /\ UNCHANGED <<hgen, cl>>
     \/ /\ f.present /\ Accepts(f.ver, v)
        /\ hpc' = [hpc EXCEPT ![v] = "writeData"]
        /\ hgen' = [hgen EXCEPT ![v] = f.gen]
        /\ UNCHANGED cl
     \/ /\ IF f.present THEN ~Accepts(f.ver, v) ELSE ~CreateAccepts(v)
        /\ Reply(v, "WrongVersion")
        /\ UNCHANGED hgen
  /\ UNCHANGED <<grant, disk, primary, backup, lag, dpc, deletes, deleted,
                 crashes, rd, reads>>

(* WriteChunk, missing file: os.Create. *)
CreateChunkFile(v) ==
  LET f == disk[primary] IN
  /\ hpc[v] = "create"
  /\ SetPrimaryFile([NoFile EXCEPT !.present = TRUE, !.gen = f.gen + 1])
  /\ hgen' = [hgen EXCEPT ![v] = f.gen + 1]
  /\ hpc' = [hpc EXCEPT ![v] = "writeFull"]
  /\ UNCHANGED <<grant, primary, backup, lag, cl, dpc, deletes, deleted,
                 crashes, rd, reads>>

(* WriteChunk, missing file: WriteAt of the whole padded file at 0. *)
WritePaddedFile(v) ==
  LET f == disk[primary] IN
  /\ hpc[v] = "writeFull"
  /\ SetPrimaryFile(Through(f, hgen[v], [f EXCEPT !.data = PaddedFile(grant[v], v)]))
  /\ hpc' = [hpc EXCEPT ![v] = "setVersion"]
  /\ UNCHANGED <<grant, primary, backup, lag, hgen, cl, dpc, deletes, deleted,
                 crashes, rd, reads>>

(* Seeded bug: the existing file is rewritten with GetPaddedFile. *)
WritePaddedDataWholeFile(v) ==
  LET f == disk[primary] IN
  /\ hpc[v] = "writeData"
  /\ SetPrimaryFile(Through(f, hgen[v], [f EXCEPT !.data = PaddedFile(grant[v], v)]))
  /\ hpc' = [hpc EXCEPT ![v] = "setVersion"]
  /\ UNCHANGED <<grant, primary, backup, lag, hgen, cl, dpc, deletes, deleted,
                 crashes, rd, reads>>

(* WriteChunk, existing file: WriteAt of the padded cell at its offset. *)
WritePaddedData(v) ==
  LET f == disk[primary] IN
  /\ hpc[v] = "writeData"
  /\ SetPrimaryFile(Through(f, hgen[v], [f EXCEPT !.data[grant[v]] = v]))
  /\ hpc' = [hpc EXCEPT ![v] = "setVersion"]
  /\ UNCHANGED <<grant, primary, backup, lag, hgen, cl, dpc, deletes, deleted,
                 crashes, rd, reads>>

(* utils.SyncAndUpdateVersion, then the OK reply. *)
SyncAndUpdateVersion(v) ==
  LET f == disk[primary] IN
  /\ hpc[v] = "setVersion"
  /\ SetPrimaryFile(Through(f, hgen[v], [f EXCEPT !.ver = v]))
  /\ Reply(v, "OK")
  /\ UNCHANGED <<grant, primary, backup, lag, hgen, dpc, deletes, deleted,
                 crashes, rd, reads>>

(***************************************************************************)
(* File.ReadAt, first half: ReadCell at the master names the cell's slot   *)
(* and the chunk's version, which is the last version granted, possibly    *)
(* to a writer that has not written it yet; checkNewDataNode dials the     *)
(* primary the ack znode names.  Every version is granted before any      *)
(* writer starts (Init), so the reply may name any version and any cell   *)
(* the chunk has at that version.                                          *)
(***************************************************************************)
ReadCell ==
  /\ rd.pc # "spin" /\ reads < MaxReads /\ primary # NoNode
  /\ \E v \in Versions, s \in Slots :
       /\ s \in SlotsBefore(grant, v + 1)
       /\ rd' = [pc |-> "spin", slot |-> s, ver |-> v, data |-> Pad]
  /\ reads' = reads + 1
  /\ UNCHANGED <<grant, disk, primary, backup, lag, hpc, hgen, cl, dpc,
                 deletes, deleted, crashes>>

(***************************************************************************)
(* File.ReadAt, the loop: ReadChunk through ensureDataNodeRPCWithRetry.    *)
(* WrongVersion sends again, so the loop only leaves once the primary's   *)
(* trailer reached the version; OK copies the slot, NotFound is           *)
(* fs.ErrNotExist.                                                         *)
(***************************************************************************)
ReadChunkAt ==
  LET r == ReadChunk(disk[primary], rd.slot, rd.ver) IN
  /\ rd.pc = "spin" /\ primary # NoNode
  /\ r.status # "WrongVersion"
  /\ rd' = [rd EXCEPT !.pc = IF r.status = "OK" THEN "ok" ELSE "notexist",
                      !.data = r.data]
  /\ UNCHANGED <<grant, disk, primary, backup, lag, hpc, hgen, cl, dpc,
                 deletes, deleted, crashes, reads>>

(* File.ReadAt: ctx.Done() at the top of the loop. *)
ReadGiveUp ==
  /\ rd.pc = "spin"
  /\ rd' = [rd EXCEPT !.pc = "failed"]
  /\ UNCHANGED <<grant, disk, primary, backup, lag, hpc, hgen, cl, dpc,
                 deletes, deleted, crashes, reads>>

(* DeleteChunk arrives (no client of the repository sends it). *)
SendDelete ==
  /\ dpc = "none" /\ deletes < MaxDeletes /\ primary # NoNode
  /\ dpc' = "commit"
  /\ deletes' = deletes + 1
  /\ UNCHANGED <<grant, disk, primary, backup, lag, hpc, hgen, cl, deleted,
                 crashes, rd, reads>>

CommitDelete ==
  /\ dpc = "commit"
  /\ Journal(DeleteEntry)
  /\ dpc' = "remove"
  /\ deleted' = TRUE
  /\ UNCHANGED <<grant, disk, primary, backup, hpc, hgen, cl, deletes, crashes, rd, reads>>

CommitDeleteFails ==
  /\ KafkaMayFail /\ dpc = "commit"
  /\ FailedCommit(DeleteEntry)
  /\ dpc' = "none"
  /\ deleted' = (deleted \/ lag' # lag)
  /\ UNCHANGED <<grant, disk, primary, backup, hpc, hgen, cl, deletes,
                 crashes, rd, reads>>

(* DeleteChunk: os.Remove; a failure is only printed. *)
RemoveChunkFile ==
  /\ dpc = "remove"
  /\ SetPrimaryFile([disk[primary] EXCEPT !.present = FALSE])
  /\ dpc' = "none"
  /\ UNCHANGED <<grant, primary, backup, lag, hpc, hgen, cl, deletes, deleted,
                 crashes, rd, reads>>

(* RunAsSecondary: FetchEntry and HandleMsg, one entry. *)
Replay ==
  /\ backup # NoNode /\ lag # <<>>
  /\ disk' = [disk EXCEPT ![backup] = HandleMsg(@, Head(lag))]
  /\ lag' = Tail(lag)
  /\ UNCHANGED <<grant, primary, backup, hpc, hgen, cl, dpc, deletes, deleted,
                 crashes, rd, reads>>

(***************************************************************************)
(* The primary dies: its ephemeral proposal goes, its handlers stop.  A    *)
(* writer or reader in the middle of WriteAt or ReadAt holds a connection  *)
(* to the dead address and gets an error that is not DeadlineExceeded, so *)
(* ensureDataNodeRPCWithRetry returns it without re-asking.                *)
(***************************************************************************)
Crash ==
  /\ crashes < MaxCrashes /\ primary # NoNode /\ backup # NoNode
  /\ primary' = NoNode
  /\ crashes' = crashes + 1
  /\ hpc' = [v \in Versions |-> "none"]
  /\ cl' = [v \in Versions |-> IF cl[v] \in {"busy", "spin"} THEN "failed"
                               ELSE cl[v]]
  /\ dpc' = "none"
  /\ rd' = IF rd.pc = "spin" THEN [rd EXCEPT !.pc = "failed"] ELSE rd
  /\ UNCHANGED <<grant, disk, backup, lag, hgen, deletes, deleted, reads>>

(* The successor wakes, drains the journal, then AckLeader. *)
Promote ==
  /\ primary = NoNode /\ backup # NoNode
  /\ disk' = [disk EXCEPT ![backup] = Drain(@, lag)]
  /\ lag' = <<>>
  /\ primary' = backup
  /\ backup' = NoNode
  /\ UNCHANGED <<grant, hpc, hgen, cl, dpc, deletes, deleted, crashes, rd, reads>>

HandlerStep(v) ==
  \/ CommitWrite(v) \/ CommitWriteFails(v) \/ OpenChunk(v)
  \/ CreateChunkFile(v) \/ WritePaddedFile(v) \/ WritePaddedData(v)
  \/ SyncAndUpdateVersion(v)

Next ==
  \/ \E v \in Versions : SendWrite(v) \/ GiveUp(v) \/ HandlerStep(v)
  \/ SendDelete \/ CommitDelete \/ CommitDeleteFails \/ RemoveChunkFile
  \/ ReadCell \/ ReadChunkAt \/ ReadGiveUp
  \/ Replay \/ Crash \/ Promote

Spec == Init /\ [][Next]_vars

(***************************************************************************)
(* Handler goroutines run, the writer's loop keeps sending, the secondary  *)
(* keeps fetching.  A commit is only disabled by the model's MaxLag bound  *)
(* (Kafka does not wait for the reader), so it is taken strongly fair: a  *)
(* commit that the bound keeps postponing is not a behaviour of the code. *)
(***************************************************************************)
Fairness ==
  /\ \A v \in Versions : /\ WF_vars(HandlerStep(v)) /\ SF_vars(CommitWrite(v))
                         /\ WF_vars(SendWrite(v))
  /\ WF_vars(Replay) /\ WF_vars(ReadChunkAt)

FairSpec == Spec /\ Fairness

-----------------------------------------------------------------------------
TypeOK ==
  /\ grant \in [Versions -> Slots]
  /\ disk \in [Nodes -> FileState]
  /\ primary \in Nodes \cup {NoNode}
  /\ backup \in Nodes \cup {NoNode}
  /\ lag \in Seq(Entry)
  /\ hpc \in [Versions -> HandlerSteps]
  /\ hgen \in [Versions -> Nat]
  /\ cl \in [Versions -> {"ready", "busy", "spin", "acked", "failed"}]
  /\ dpc \in {"none", "commit", "remove"}
  /\ deletes \in 0..MaxDeletes
  /\ deleted \in BOOLEAN
  /\ crashes \in 0..MaxCrashes
  /\ rd \in [pc : {"idle", "spin", "ok", "notexist", "failed"}, slot : Slots,
            ver : {0} \cup Versions, data : {Pad} \cup Versions]
  /\ reads \in 0..MaxReads

(* ReadChunk of the cell of every acknowledged version v, at version v, on *)
(* file f answers OK with that write or a later one of the same cell.     *)
AckedReadableOn(f) ==
  \A v \in Versions :
    cl[v] = "acked" =>
      LET r == ReadChunk(f, grant[v], v) IN r.status = "OK" /\ r.data >= v

(***************************************************************************)
(* On the primary that acknowledged them, acknowledged WriteChunks stay    *)
(* readable while the handlers of other versions run their create, write  *)
(* and trailer steps concurrently, and while rejected writers spin.       *)
(* Deletes void the promise.                                               *)
(***************************************************************************)
AckedWriteReadable ==
  (crashes = 0 /\ ~deleted) => AckedReadableOn(disk[primary])

(***************************************************************************)
(* The same promise across a failover: after the primary crashed and the  *)
(* secondary drained the journal and took over, every write the old       *)
(* primary acknowledged is readable on the new one.                       *)
(***************************************************************************)
AckedWriteDurable ==
  (primary # NoNode /\ ~deleted) => AckedReadableOn(disk[primary])

(***************************************************************************)
(* WriteChunk serialises the writes of a chunk: on the serving node's      *)
(* file the version trailer only ever moves to the next version, however   *)
(* the version checks and the trailer updates of concurrent handlers       *)
(* interleave.                                                             *)
(***************************************************************************)
VersionStepsByOne ==
  [][ (/\ primary # NoNode /\ primary' = primary
       /\ disk[primary].present /\ disk'[primary].present
       /\ disk'[primary].gen = disk[primary].gen)
      => disk'[primary].ver \in {disk[primary].ver, disk[primary].ver + 1} ]_vars

(***************************************************************************)
(* With Kafka up, no crash and no writer giving up, every write the master *)
(* granted eventually lands: the WrongVersion spin of a writer ahead of    *)
(* its turn ends once the versions before it are written.                  *)
(***************************************************************************)
EveryWriteLands == <>(\A v \in Versions : cl[v] = "acked")

(***************************************************************************)
(* The secondary is a copy of the primary: once it has consumed the whole  *)
(* journal and no request is being served, its chunk file has the same    *)
(* existence, version and content as the primary's (the spec: replay       *)
(* "tolerates duplicate and out-of-order delivery", a secondary can take   *)
(* over at any time).                                                      *)
(***************************************************************************)
SameChunk(f, g) ==
  /\ f.present = g.present
  /\ f.present => (f.ver = g.ver /\ f.data = g.data)

ReplicaMatchesPrimary ==
  (/\ primary # NoNode /\ backup # NoNode /\ lag = <<>>
   /\ \A v \in Versions : hpc[v] = "none"
   /\ dpc = "none")
  => SameChunk(disk[primary], disk[backup])

(* The write of cell s a read at chunk version v must see at least: the   *)
(* last version up to v granted for s.                                     *)
LatestWrite(s, v) ==
  LET us == {u \in 1..v : grant[u] = s} IN
  IF us = {} THEN Pad ELSE CHOOSE u \in us : \A w \in us : w <= u

(***************************************************************************)
(* A File.ReadAt that returns data returns, for its cell, the write of the *)
(* chunk version the master reported or a later one: ReadChunk reads the  *)
(* trailer and then the slot with no lock, while handlers of later        *)
(* versions write slots and move the trailer.                              *)
(***************************************************************************)
ReadSeesReportedVersion ==
  rd.pc = "ok" => rd.data >= LatestWrite(rd.slot, rd.ver)

(***************************************************************************)
(* With writers that do not give up, File.ReadAt returns: its             *)
(* WrongVersion spin ends because the version the master reported is      *)
(* eventually written (the reader's own ctx may end it sooner, but need   *)
(* not).                                                                   *)
(***************************************************************************)
ReadAtReturns == rd.pc = "spin" ~> rd.pc # "spin"

(***************************************************************************)
(* The primary's chunk file implements ChunkRegister: its version trailer  *)
(* is the installed version, its slots are the cells, and the writers     *)
(* told OK are the acknowledged versions.  A missing file is version 0,   *)
(* all padding.  The concurrent handlers' open, create, write and trailer *)
(* steps never let a version be installed out of turn or unstaged, stage  *)
(* any cell but the next version's, or acknowledge a version that is not  *)
(* the installed one.                                                      *)
(***************************************************************************)
PrimaryFile ==
  IF primary # NoNode /\ disk[primary].present THEN disk[primary] ELSE NoFile

Register == INSTANCE ChunkRegister
              WITH ver   <- PrimaryFile.ver,
                   data  <- PrimaryFile.data,
                   acked <- {v \in Versions : cl[v] = "acked"}

ImplementsChunkRegister == Register!Spec

=============================================================================
