------------------------------- MODULE Master -------------------------------
(***************************************************************************)
(* The SheetFS master: the FileManager of master/filemgr/filemgr.go with   *)
(* the sheet layout of master/sheetfile, on a primary and a secondary      *)
(* master node that share a Kafka journal (master/journal/listener.go).    *)
(*                                                                         *)
(* Client goroutines call CreateSheet, OpenSheet, RecycleSheet and         *)
(* ResumeSheet, which hold FileManager.mu for writing, and WriteFileCell,  *)
(* which read-locks mu only to resolve its fd, bumps the chunk version     *)
(* under the sheet's lock and journals the result after releasing it.      *)
(* The checkpoint ticker of master/node/node.go runs DoCheckpoint, which   *)
(* read-locks mu and, inside, Persistent read-locks it again.  The         *)
(* secondary replays the journal (HandleMasterEntry), persists its state   *)
(* to its own sqlite file at every checkpoint marker, and when the         *)
(* primary dies drains the journal and serves.                             *)
(*                                                                         *)
(* Sizes are in cells: a chunk holds MaxCellsPerChunk data cells, the      *)
(* meta cell of a sheet fills a chunk.  Chunk ids are the rows of each     *)
(* node's sqlite Chunk table.                                              *)
(***************************************************************************)
EXTENDS Integers, Sequences, SequencesExt, FiniteSets

CONSTANTS
  Nodes,            \* master processes
  NoNode,
  Clients,          \* client goroutines calling the master
  Sheets,           \* file names
  DataCells,        \* cells (row, col) a client writes
  MetaCell,         \* the sheet's meta cell (SheetMetaCellRow, SheetMetaCellCol)
  MaxCellsPerChunk, \* config.MaxCellsPerChunk
  MaxChunkId,       \* bound: chunk ids the sqlite tables may reach
  MaxOps,           \* bound: FileManager calls per client
  MaxCheckpoints,   \* bound: ticks of the checkpoint ticker
  MaxCrashes,       \* bound: crashes of the primary
  KafkaMayFail      \* CommitEntry may fail

ASSUME /\ Cardinality(Nodes) = 2 /\ NoNode \notin Nodes
       /\ MetaCell \notin DataCells
       /\ MaxCellsPerChunk \in Nat \ {0}
       /\ {MaxChunkId, MaxOps, MaxCheckpoints, MaxCrashes} \subseteq Nat
       /\ KafkaMayFail \in BOOLEAN

Cells    == DataCells \cup {MetaCell}
ChunkIds == 1..MaxChunkId
NoChunk  == 0
Absent   == -1   \* version of a chunk the sheet does not have

(* NewCell sizes of WriteCellChunk and CreateSheetFile, in cell units. *)
CellSize(c) == IF c = MetaCell THEN MaxCellsPerChunk ELSE 1

VARIABLES
  ent,      \* ent[n][s]: the MapEntry of s on node n: absent, live, recycled
  ver,      \* ver[n][s][id]: version of chunk id of sheet s, or Absent
  place,    \* place[n][s][c]: [chunk, slot] of cell c, chunk = NoChunk if none
  last,     \* last[n][s]: LastAvailableChunk of s (NoChunk for nil)
  fds,      \* fds[n]: the fd table of n, fd i names fds[n][i]
  db,       \* db[n]: chunk ids stored in n's sqlite Chunk table
  primary, backup,
  lag,      \* journal entries the secondary has not fetched
  cl,       \* cl[w]: the call client w has in progress
  cfd,      \* cfd[w]: the fd client w holds and the sheet it opened with it
  ck,       \* step of the checkpoint ticker goroutine
  ticks, crashes, ops,
  allocs,   \* history: chunk ids allocated, in order
  grants,   \* history: <<sheet, chunk, version>> WriteFileCell returned
  mconn,    \* Client.master of the fsclient the goroutines share: node, version
  cmu       \* the goroutine holding the client's mu for writing, or NoClient

vars == <<ent, ver, place, last, fds, db, primary, backup, lag, cl, cfd, ck,
          ticks, crashes, ops, allocs, grants, mconn, cmu>>

NoPlace == [chunk |-> NoChunk, slot |-> 0]
NoFd    == [fd |-> 0, sheet |-> CHOOSE s \in Sheets : TRUE]
Idle    == [pc |-> "idle", op |-> "none", sheet |-> CHOOSE s \in Sheets : TRUE,
            cell |-> MetaCell, entry |-> <<>>, seen |-> 0, addr |-> NoNode]
NoClient == "none"

(* The content of the master znode: the address of the last master that  *)
(* called AckLeader, a dead one until its successor takes over.           *)
MasterZnode == IF primary # NoNode THEN primary ELSE CHOOSE n \in Nodes : n # backup

(* The first server step of each call: FileManager.mu.Lock or .RLock. *)
EntryPc(op) == IF op = "write" THEN "rlock" ELSE "lock"

-----------------------------------------------------------------------------
(* Mutant: ids counted from 0, as a Go slice index would be. *)
NextIdFromZero(n) == IF db[n] = {} THEN 0 ELSE Max(db[n]) + 1

(* The sqlite autoincrement: one past the largest id the table holds. *)
NextId(n) == IF db[n] = {} THEN 1 ELSE Max(db[n]) + 1

CellsOf(n, s, id) == {c \in Cells : place[n][s][c].chunk = id}

(* Chunk.isAvailable: the cells of the chunk leave room for size. *)
IsAvailable(n, s, id, size) ==
  MapThenSumSet(CellSize, CellsOf(n, s, id)) + size <= MaxCellsPerChunk

(* Mutant: the offset counted from the sheet's cells, not the chunk's. *)
GetCellOffsetSheetWide(n, s, id) ==
  Cardinality({c \in Cells : place[n][s][c].chunk # NoChunk})

(* SheetFile.getCellOffset: len(chunk.Cells) slots. *)
GetCellOffset(n, s, id) == Cardinality(CellsOf(n, s, id))

(* The read and write sides of FileManager.mu (a writer-preferring       *)
(* sync.RWMutex): readers are the ticker's nested read locks; a client   *)
(* waiting in Lock blocks every new RLock.                                *)
Readers == CASE ck \in {"marker", "rlock2"} -> 1
             [] ck = "persist"              -> 2
             [] OTHER                       -> 0
WriterPending == \E w \in Clients : cl[w].pc = "lock"
CanRLock == ~WriterPending
CanLock  == Readers = 0

(* FileManager.writeJournal: an entry reaches the secondary's queue. *)
Journal(e) ==
  IF backup = NoNode THEN UNCHANGED lag ELSE lag' = Append(lag, e)

-----------------------------------------------------------------------------
(***************************************************************************)
(* Replay on node n: HandleMasterEntry (map entry, then chunk, then cell)  *)
(* and handleCheckpoint.  Returned as the new per-node state.              *)
(***************************************************************************)
NodeState(n) == [ent |-> ent[n], ver |-> ver[n], place |-> place[n], db |-> db[n]]

HandleMasterEntry(st, e) ==
  CASE e.kind = "map" ->
         [st EXCEPT !.ent[e.sheet] = e.state]
    [] e.kind = "create" ->
         [st EXCEPT !.ent[e.sheet] = "live",
                    !.ver[e.sheet][e.chunk] = 0,
                    !.place[e.sheet][MetaCell] = [chunk |-> e.chunk, slot |-> 0]]
    [] e.kind = "write" ->
         [st EXCEPT !.ver[e.sheet][e.chunk] = e.ver,
                    !.place[e.sheet][e.cell] = [chunk |-> e.chunk, slot |-> e.slot]]
    [] e.kind = "ckpt" ->
         \* FileManager.Persistent: every chunk of every opened sheet
         [st EXCEPT !.db = @ \cup {id \in ChunkIds :
                                    \E s \in Sheets : st.ver[s][id] # Absent}]

Replayed(st, q) == FoldLeft(HandleMasterEntry, st, q)

SetNode(n, st) ==
  /\ ent' = [ent EXCEPT ![n] = st.ent]
  /\ ver' = [ver EXCEPT ![n] = st.ver]
  /\ place' = [place EXCEPT ![n] = st.place]
  /\ db' = [db EXCEPT ![n] = st.db]

-----------------------------------------------------------------------------
Init ==
  /\ ent = [n \in Nodes |-> [s \in Sheets |-> "absent"]]
  /\ ver = [n \in Nodes |-> [s \in Sheets |-> [id \in ChunkIds |-> Absent]]]
  /\ place = [n \in Nodes |-> [s \in Sheets |-> [c \in Cells |-> NoPlace]]]
  /\ last = [n \in Nodes |-> [s \in Sheets |-> NoChunk]]
  /\ fds = [n \in Nodes |-> <<>>]
  /\ db = [n \in Nodes |-> {}]
  /\ primary = CHOOSE n \in Nodes : TRUE
  /\ backup = CHOOSE n \in Nodes : n # primary
  /\ lag = <<>>
  /\ cl = [w \in Clients |-> Idle]
  /\ cfd = [w \in Clients |-> NoFd]
  /\ ck = "idle"
  /\ ticks = 0 /\ crashes = 0 /\ ops = [w \in Clients |-> 0]
  /\ allocs = <<>> /\ grants = <<>>
  /\ mconn = [node |-> primary, ver |-> 0]
  /\ cmu = NoClient

(***************************************************************************)
(* ensureMasterRPCWithRetry, first call: readMaster takes the client's mu  *)
(* for reading and remembers the version of Client.master, then the       *)
(* request goes to the master that rpc client is connected to.  If that   *)
(* master is dead the call fails: with Unavailable, returned to the       *)
(* caller as it is, or, when the caller's ctx has a deadline, with        *)
(* DeadlineExceeded, which enters the retry loop.                         *)
(***************************************************************************)
Send(w, req) ==
  LET call == [req EXCEPT !.seen = mconn.ver] IN
  /\ cmu = NoClient
  /\ ops' = [ops EXCEPT ![w] = @ + 1]
  /\ IF mconn.node = primary
     THEN cl' = [cl EXCEPT ![w] = [call EXCEPT !.pc = EntryPc(req.op)]]
     ELSE \/ UNCHANGED cl
          \/ cl' = [cl EXCEPT ![w] = [call EXCEPT !.pc = "retry"]]

(* Client.Create, Open and Delete, File's RecycleSheet and ResumeSheet   *)
(* requests (the name checks pass: names are model values).              *)
CallLocked(w, op, s) ==
  /\ cl[w].pc = "idle" /\ ops[w] < MaxOps
  /\ Send(w, [Idle EXCEPT !.op = op, !.sheet = s])
  /\ UNCHANGED <<ent, ver, place, last, fds, db, primary, backup, lag, cfd,
                 ck, ticks, crashes, allocs, grants, mconn, cmu>>

(* The call returns to its goroutine, which lets go of the client's mu   *)
(* if it held it for a re-call; create and open hand the client an fd.   *)
Release(w) == cmu' = IF cmu = w THEN NoClient ELSE cmu

Return(w, fd) ==
  /\ cl' = [cl EXCEPT ![w] = Idle]
  /\ cfd' = IF fd = 0 THEN cfd
            ELSE [cfd EXCEPT ![w] = [fd |-> fd, sheet |-> cl[w].sheet]]
  /\ Release(w)

(* FileManager.allocFd: the next fd names s. *)
AllocFd(s) == fds' = [fds EXCEPT ![primary] = Append(@, s)]

(***************************************************************************)
(* FileManager.CreateSheet.  CreateSheetFile stores the meta chunk in the  *)
(* primary's sqlite before the journal entry is written; a failed commit   *)
(* returns the error and leaves the row behind.  CommitEntry fails either  *)
(* before Kafka stored the entry or after (a lost acknowledgement): the    *)
(* secondary then replays a create the primary never applied.  The new    *)
(* sheet has no LastAvailableChunk (the meta cell fills its chunk).        *)
(***************************************************************************)
CreateEntry(s, id) == [kind |-> "create", sheet |-> s, chunk |-> id]

(* Mutant: a commit that stored nothing is taken for a success. *)
CreateSheetIgnoringCommit(w) ==
  LET p == primary  s == cl[w].sheet  id == NextId(primary) IN
  /\ cl[w].pc = "lock" /\ cl[w].op = "create" /\ CanLock
  /\ IF ent[p][s] # "absent"
     THEN /\ Return(w, 0)
          /\ UNCHANGED <<ent, ver, place, last, fds, db, lag, allocs>>
     ELSE /\ id <= MaxChunkId
          /\ db' = [db EXCEPT ![p] = @ \cup {id}]
          /\ allocs' = Append(allocs, id)
          /\ \/ Journal(CreateEntry(s, id))
             \/ KafkaMayFail /\ UNCHANGED lag
          /\ ent' = [ent EXCEPT ![p][s] = "live"]
          /\ ver' = [ver EXCEPT ![p][s][id] = 0]
          /\ place' = [place EXCEPT ![p][s][MetaCell] = [chunk |-> id, slot |-> 0]]
          /\ last' = [last EXCEPT ![p][s] = NoChunk]
          /\ AllocFd(s)
          /\ Return(w, Len(fds[p]) + 1)
  /\ UNCHANGED <<primary, backup, ck, ticks, crashes, ops, grants, mconn>>

CreateSheet(w) ==
  LET p == primary  s == cl[w].sheet  id == NextId(primary) IN
  /\ cl[w].pc = "lock" /\ cl[w].op = "create" /\ CanLock
  /\ IF ent[p][s] # "absent"
     THEN /\ Return(w, 0)
          /\ UNCHANGED <<ent, ver, place, last, fds, db, lag, allocs>>
     ELSE /\ id <= MaxChunkId
          /\ db' = [db EXCEPT ![p] = @ \cup {id}]
          /\ allocs' = Append(allocs, id)
          /\ \/ /\ Journal(CreateEntry(s, id))
                /\ ent' = [ent EXCEPT ![p][s] = "live"]
                /\ ver' = [ver EXCEPT ![p][s][id] = 0]
                /\ place' = [place EXCEPT ![p][s][MetaCell] =
                                            [chunk |-> id, slot |-> 0]]
                /\ last' = [last EXCEPT ![p][s] = NoChunk]
                /\ AllocFd(s)
                /\ Return(w, Len(fds[p]) + 1)
             \/ /\ KafkaMayFail
                /\ Return(w, 0)
                /\ \/ UNCHANGED lag
                   \/ Journal(CreateEntry(s, id))
                /\ UNCHANGED <<ent, ver, place, last, fds>>
  /\ UNCHANGED <<primary, backup, ck, ticks, crashes, ops, grants, mconn>>

(* FileManager.openFile: live entries only. *)
OpenSheet(w) ==
  LET s == cl[w].sheet IN
  /\ cl[w].pc = "lock" /\ cl[w].op = "open" /\ CanLock
  /\ IF ent[primary][s] = "live"
     THEN AllocFd(s) /\ Return(w, Len(fds[primary]) + 1)
     ELSE UNCHANGED fds /\ Return(w, 0)
  /\ UNCHANGED <<ent, ver, place, last, db, primary, backup, lag, ck, ticks,
                 crashes, ops, allocs, grants, mconn>>

(* RecycleSheet / ResumeSheet: journal the changed entry, then apply it;  *)
(* on a commit error return it, whether or not Kafka stored the entry.   *)
(* The server replies OK either way.                                     *)
SetRecycled(w, op, state) ==
  LET s == cl[w].sheet  e == [kind |-> "map", sheet |-> s, state |-> state] IN
  /\ cl[w].pc = "lock" /\ cl[w].op = op /\ CanLock
  /\ IF ent[primary][s] = "absent"
     THEN UNCHANGED <<ent, lag>>
     ELSE \/ /\ Journal(e)
             /\ ent' = [ent EXCEPT ![primary][s] = state]
          \/ /\ KafkaMayFail
             /\ \/ UNCHANGED lag
                \/ Journal(e)
             /\ UNCHANGED ent
  /\ Return(w, 0)
  /\ UNCHANGED <<ver, place, last, fds, db, primary, backup, ck, ticks,
                 crashes, ops, allocs, grants, mconn>>

RecycleSheet(w) == SetRecycled(w, "recycle", "recycled")
ResumeSheet(w)  == SetRecycled(w, "resume", "live")


(* File.WriteAt's WriteCell, with the fd the client holds. *)
CallWrite(w, c) ==
  /\ cl[w].pc = "idle" /\ ops[w] < MaxOps
  /\ cfd[w] # NoFd
  /\ Send(w, [Idle EXCEPT !.op = "write", !.cell = c])
  /\ UNCHANGED <<ent, ver, place, last, fds, db, primary, backup, lag, cfd,
                 ck, ticks, crashes, allocs, grants, mconn, cmu>>

(* FileManager.getFileByFd under mu.RLock: FdNotFound ends the call. *)
GetFileByFd(w) ==
  LET fd == cfd[w].fd IN
  /\ cl[w].pc = "rlock" /\ CanRLock
  /\ cl' = [cl EXCEPT ![w] = IF fd \in DOMAIN fds[primary]
                             THEN [@ EXCEPT !.pc = "bump",
                                            !.sheet = fds[primary][fd]]
                             ELSE Idle]
  /\ IF fd \in DOMAIN fds[primary] THEN UNCHANGED cmu ELSE Release(w)
  /\ UNCHANGED <<ent, ver, place, last, fds, db, primary, backup, lag, cfd,
                 ck, ticks, crashes, ops, allocs, grants, mconn>>

(***************************************************************************)
(* SheetFile.WriteCellChunk under the sheet's lock: an existing cell bumps *)
(* its chunk's version; a new cell goes to LastAvailableChunk if it has    *)
(* room (addCellToLastAvailable), else to a new chunk stored in sqlite to  *)
(* get its id, which becomes LastAvailableChunk.  The snapshot it returns  *)
(* is the journal entry WriteFileCell will write.                          *)
(***************************************************************************)
WriteCellChunk(w) ==
  LET p == primary  s == cl[w].sheet  c == cl[w].cell
      old == place[p][s][c].chunk
      lac == last[p][s]
      new == NextId(p)
      Grant(id, slot, v) ==
        /\ ver' = [ver EXCEPT ![p][s][id] = v]
        /\ place' = [place EXCEPT ![p][s][c] = [chunk |-> id, slot |-> slot]]
        /\ cl' = [cl EXCEPT ![w] = [@ EXCEPT !.pc = "journal",
                    !.entry = [kind |-> "write", sheet |-> s, cell |-> c,
                               chunk |-> id, slot |-> slot, ver |-> v]]]
  IN
  /\ cl[w].pc = "bump"
  /\ \/ /\ old # NoChunk
        /\ Grant(old, place[p][s][c].slot, ver[p][s][old] + 1)
        /\ UNCHANGED <<last, db, allocs>>
     \/ /\ old = NoChunk /\ lac # NoChunk
        /\ IsAvailable(p, s, lac, CellSize(c))
        /\ Grant(lac, GetCellOffset(p, s, lac), ver[p][s][lac] + 1)
        /\ UNCHANGED <<last, db, allocs>>
     \/ /\ old = NoChunk
        /\ lac = NoChunk \/ ~IsAvailable(p, s, lac, CellSize(c))
        /\ new <= MaxChunkId
        /\ db' = [db EXCEPT ![p] = @ \cup {new}]
        /\ allocs' = Append(allocs, new)
        /\ last' = [last EXCEPT ![p][s] = new]
        /\ Grant(new, 0, 1)
  /\ UNCHANGED <<ent, fds, primary, backup, lag, cfd, ck, ticks, crashes,
                 ops, grants, mconn, cmu>>

(* WriteFileCell: `_ = f.writeJournal(...)`, after the sheet lock is     *)
(* released; a failed commit is ignored and the call succeeds: the      *)
(* client is handed the chunk's new version.  A commit that stored and   *)
(* then failed is the first disjunct, as the error is dropped.           *)
JournalCell(w) ==
  LET e == cl[w].entry IN
  /\ cl[w].pc = "journal"
  /\ \/ Journal(e)
     \/ KafkaMayFail /\ UNCHANGED lag
  /\ cl' = [cl EXCEPT ![w] = Idle]
  /\ Release(w)
  /\ grants' = Append(grants, <<e.sheet, e.chunk, e.ver>>)
  /\ UNCHANGED <<ent, ver, place, last, fds, db, primary, backup, cfd, ck,
                 ticks, crashes, ops, allocs, mconn>>

-----------------------------------------------------------------------------
(***************************************************************************)
(* The checkpoint ticker (RunAsPrimary) calls DoCheckpoint: mu.RLock;      *)
(* journalWriter.Checkpoint writes the marker; Persistent takes            *)
(* mu.RLock again and flushes every opened sheet's chunks to sqlite;       *)
(* RecordCheckpoint; both read locks are released.                         *)
(***************************************************************************)
Tick ==
  /\ primary # NoNode /\ ck = "idle" /\ ticks < MaxCheckpoints
  /\ ck' = "rlock1" /\ ticks' = ticks + 1
  /\ UNCHANGED <<ent, ver, place, last, fds, db, primary, backup, lag, cl,
                 cfd, crashes, ops, allocs, grants, mconn, cmu>>

CkptRLock ==
  /\ ck = "rlock1" /\ CanRLock
  /\ ck' = "marker"
  /\ UNCHANGED <<ent, ver, place, last, fds, db, primary, backup, lag, cl,
                 cfd, ticks, crashes, ops, allocs, grants, mconn, cmu>>

(* Writer.Checkpoint: a failed marker write, stored or not, returns from  *)
(* DoCheckpoint.                                                          *)
CkptMarker ==
  /\ ck = "marker"
  /\ \/ Journal([kind |-> "ckpt"]) /\ ck' = "rlock2"
     \/ KafkaMayFail /\ ck' = "idle"
        /\ \/ UNCHANGED lag
           \/ Journal([kind |-> "ckpt"])
  /\ UNCHANGED <<ent, ver, place, last, fds, db, primary, backup, cl, cfd,
                 ticks, crashes, ops, allocs, grants, mconn, cmu>>

(* FileManager.Persistent: the nested mu.RLock. *)
PersistRLock ==
  /\ ck = "rlock2" /\ CanRLock
  /\ ck' = "persist"
  /\ UNCHANGED <<ent, ver, place, last, fds, db, primary, backup, lag, cl,
                 cfd, ticks, crashes, ops, allocs, grants, mconn, cmu>>

PersistAndRecord ==
  /\ ck = "persist"
  /\ db' = [db EXCEPT ![primary] = @ \cup
              {id \in ChunkIds : \E s \in Sheets : ver[primary][s][id] # Absent}]
  /\ ck' = "idle"
  /\ UNCHANGED <<ent, ver, place, last, fds, primary, backup, lag, cl, cfd,
                 ticks, crashes, ops, allocs, grants, mconn, cmu>>

-----------------------------------------------------------------------------
(* Listener.RunAsSecondary: FetchEntry and handleJournal, one entry. *)
Replay ==
  /\ backup # NoNode /\ lag # <<>>
  /\ SetNode(backup, HandleMasterEntry(NodeState(backup), Head(lag)))
  /\ lag' = Tail(lag)
  /\ UNCHANGED <<last, fds, primary, backup, cl, cfd, ck, ticks, crashes, ops,
                 allocs, grants, mconn, cmu>>

(***************************************************************************)
(* The primary dies.  Every call in flight fails at the client, which      *)
(* keeps the fd it holds (the client library re-asks ZooKeeper for the     *)
(* master and re-sends with the same request).                             *)
(***************************************************************************)
InFlight == {"lock", "rlock", "bump", "journal"}

(* The request of w's call, back in ensureMasterRPCWithRetry's loop. *)
Retrying(w) == [cl[w] EXCEPT !.pc = "retry", !.entry = <<>>]

MasterDies ==
  /\ primary' = NoNode
  /\ crashes' = crashes + 1
  /\ \E timedOut \in SUBSET Clients :
       cl' = [w \in Clients |->
                CASE cl[w].pc \notin InFlight -> cl[w]
                  [] cmu = w                 -> [Retrying(w) EXCEPT !.seen = mconn.ver]
                  [] w \in timedOut          -> Retrying(w)
                  [] OTHER                   -> Idle]
  /\ cmu' = IF cmu # NoClient /\ cl[cmu].pc \in InFlight THEN NoClient ELSE cmu
  /\ ck' = "idle"

(***************************************************************************)
(* The primary dies.  A call in flight fails at its goroutine with         *)
(* Unavailable (returned to the caller) or, if its ctx has a deadline,     *)
(* DeadlineExceeded (retried); a re-call made inside the retry loop        *)
(* loops again with the version it used.  The client keeps the fd it      *)
(* holds.                                                                  *)
(***************************************************************************)
Crash ==
  /\ primary # NoNode /\ backup # NoNode /\ crashes < MaxCrashes
  /\ MasterDies
  /\ UNCHANGED <<ent, ver, place, last, fds, db, backup, lag, cfd, ticks, ops,
                 allocs, grants, mconn>>

(* Server.DeleteSheet is `panic("implement me")`; grpc-go does not       *)
(* recover a handler's panic, so Client.Delete kills the master.          *)
DeleteSheet(w) ==
  /\ cl[w].pc = "lock" /\ cl[w].op = "delete" /\ crashes < MaxCrashes
  /\ MasterDies
  /\ UNCHANGED <<ent, ver, place, last, fds, db, backup, lag, cfd, ticks, ops,
                 allocs, grants, mconn>>

-----------------------------------------------------------------------------
(***************************************************************************)
(* ensureMasterRPCWithRetry's loop: take the client's mu for writing; if  *)
(* Client.master still has the version this goroutine used, nobody has    *)
(* repaired it yet and this goroutine re-asks; otherwise it re-calls with *)
(* the repaired rpc client.                                               *)
(***************************************************************************)
RetryLock(w) ==
  /\ cl[w].pc = "retry" /\ cmu = NoClient
  /\ cmu' = w
  /\ cl' = [cl EXCEPT ![w].pc = IF mconn.ver = cl[w].seen THEN "reask" ELSE "recall"]
  /\ UNCHANGED <<ent, ver, place, last, fds, db, primary, backup, lag, cfd, ck,
                 ticks, crashes, ops, allocs, grants, mconn>>

(* reAskMasterNode: zk.Get of the master znode. *)
ReAskMasterNode(w) ==
  /\ cl[w].pc = "reask"
  /\ cl' = [cl EXCEPT ![w].pc = "dial", ![w].addr = MasterZnode]
  /\ UNCHANGED <<ent, ver, place, last, fds, db, primary, backup, lag, cfd, ck,
                 ticks, crashes, ops, allocs, grants, mconn, cmu>>

(***************************************************************************)
(* reAskMasterNode: grpc.Dial with WithBlock and no timeout returns once  *)
(* the address serves; the address of a dead master never does, and the  *)
(* goroutine waits for ever holding the client's mu.  Client.master      *)
(* becomes the new rpc client with version lastMasterVersion + 1.          *)
(***************************************************************************)
DialMaster(w) ==
  /\ cl[w].pc = "dial" /\ cl[w].addr = primary
  /\ mconn' = [node |-> cl[w].addr, ver |-> cl[w].seen + 1]
  /\ cl' = [cl EXCEPT ![w].pc = "recall"]
  /\ UNCHANGED <<ent, ver, place, last, fds, db, primary, backup, lag, cfd, ck,
                 ticks, crashes, ops, allocs, grants, cmu>>

(* The re-call, still holding the client's mu; it reaches the primary    *)
(* (the rpc client was repaired after the one crash the model allows).   *)
ReCall(w) ==
  /\ cl[w].pc = "recall" /\ mconn.node = primary
  /\ cl' = [cl EXCEPT ![w].pc = EntryPc(cl[w].op), ![w].seen = mconn.ver]
  /\ UNCHANGED <<ent, ver, place, last, fds, db, primary, backup, lag, cfd, ck,
                 ticks, crashes, ops, allocs, grants, mconn, cmu>>

(***************************************************************************)
(* The secondary drains the journal (TryFetchEntry until NoMoreMessage)    *)
(* and serves with the FileManager it rebuilt: no fds, and the sheets it   *)
(* loaded while replaying have no LastAvailableChunk (LoadSheetFile found  *)
(* none of their cells in its sqlite, and replay never sets it).           *)
(***************************************************************************)
Promote ==
  /\ primary = NoNode /\ backup # NoNode
  /\ SetNode(backup, Replayed(NodeState(backup), lag))
  /\ lag' = <<>>
  /\ primary' = backup /\ backup' = NoNode
  /\ UNCHANGED <<last, fds, cl, cfd, ck, ticks, crashes, ops, allocs, grants, mconn, cmu>>

Next ==
  \/ \E w \in Clients :
       \/ \E s \in Sheets, op \in {"create", "open", "recycle", "resume", "delete"} :
            CallLocked(w, op, s)
       \/ \E c \in DataCells \cup {MetaCell} : CallWrite(w, c)
       \/ CreateSheet(w) \/ OpenSheet(w) \/ RecycleSheet(w) \/ ResumeSheet(w)
       \/ DeleteSheet(w)
       \/ GetFileByFd(w) \/ WriteCellChunk(w) \/ JournalCell(w)
       \/ RetryLock(w) \/ ReAskMasterNode(w) \/ DialMaster(w) \/ ReCall(w)
  \/ Tick \/ CkptRLock \/ CkptMarker \/ PersistRLock \/ PersistAndRecord
  \/ Replay \/ Crash \/ Promote

Spec == Init /\ [][Next]_vars


(***************************************************************************)
(* Client calls and the ticker's steps run (goroutines are scheduled), and *)
(* the secondary keeps fetching.                                           *)
(***************************************************************************)
Fairness ==
  /\ \A w \in Clients :
       /\ WF_vars(CreateSheet(w) \/ OpenSheet(w) \/ RecycleSheet(w) \/ ResumeSheet(w))
       /\ WF_vars(GetFileByFd(w) \/ WriteCellChunk(w) \/ JournalCell(w))
       /\ WF_vars(RetryLock(w) \/ ReAskMasterNode(w) \/ DialMaster(w) \/ ReCall(w))
  /\ WF_vars(CkptRLock \/ CkptMarker \/ PersistRLock \/ PersistAndRecord)
  /\ WF_vars(Replay)

FairSpec == Spec /\ Fairness

-----------------------------------------------------------------------------
Entries == [kind : {"create"}, sheet : Sheets, chunk : ChunkIds]
    \cup [kind : {"map"}, sheet : Sheets, state : {"live", "recycled"}]
    \cup [kind : {"write"}, sheet : Sheets, cell : Cells, chunk : ChunkIds,
          slot : Nat, ver : Nat]
    \cup [kind : {"ckpt"}]

TypeOK ==
  /\ ent \in [Nodes -> [Sheets -> {"absent", "live", "recycled"}]]
  /\ ver \in [Nodes -> [Sheets -> [ChunkIds -> {Absent} \cup Nat]]]
  /\ place \in [Nodes -> [Sheets -> [Cells -> [chunk : {NoChunk} \cup ChunkIds,
                                               slot : Nat]]]]
  /\ last \in [Nodes -> [Sheets -> {NoChunk} \cup ChunkIds]]
  /\ fds \in [Nodes -> Seq(Sheets)]
  /\ db \in [Nodes -> SUBSET ChunkIds]
  /\ {primary, backup} \subseteq Nodes \cup {NoNode}
  /\ lag \in Seq(Entries)
  /\ \A w \in Clients :
       cl[w].pc \in {"idle", "retry", "reask", "dial", "recall"} \cup InFlight
  /\ mconn \in [node : Nodes, ver : Nat]
  /\ cmu \in Clients \cup {NoClient}
  /\ ck \in {"idle", "rlock1", "marker", "rlock2", "persist"}
  /\ allocs \in Seq(ChunkIds)

(***************************************************************************)
(* The layout WriteCellChunk builds: on the first primary, no two cells of *)
(* a sheet share a slot of a chunk and every cell lies inside its chunk,   *)
(* through any mix of new cells, full chunks, meta cells and rewrites by   *)
(* concurrent clients.  (After a takeover it fails with ChunkIdsUnique: a  *)
(* reused chunk id puts a new cell into the meta chunk's slots.)           *)
(***************************************************************************)
CellsDisjoint ==
  (crashes = 0 /\ primary # NoNode) =>
    \A s \in Sheets, c, d \in Cells :
      LET a == place[primary][s][c]  b == place[primary][s][d] IN
      /\ a.chunk # NoChunk => a.slot + CellSize(c) <= MaxCellsPerChunk
      /\ (c # d /\ a.chunk # NoChunk /\ a.chunk = b.chunk) =>
           \/ a.slot + CellSize(c) <= b.slot
           \/ b.slot + CellSize(d) <= a.slot

(***************************************************************************)
(* The directory (which sheets exist and which are recycled) is the same   *)
(* on both masters whenever the secondary has consumed the journal.  No    *)
(* run checks it: it does not hold.  CreateSheet, RecycleSheet and         *)
(* ResumeSheet give up when CommitEntry fails, but a commit can fail after *)
(* Kafka stored the entry, and the secondary then applies a change the     *)
(* primary never made (a recycle the primary's clients never see).         *)
(***************************************************************************)
DirectoryReplicated ==
  (backup # NoNode /\ lag = <<>>) => \A m, n \in Nodes : ent[m] = ent[n]

(***************************************************************************)
(* Every sheet a client holds an fd for, from a CreateSheet or OpenSheet   *)
(* that succeeded, is in the directory of the serving master, before and   *)
(* after a takeover: a create is applied only once its journal entry is    *)
(* stored, so the secondary's replay has every sheet the primary served,   *)
(* whatever commits failed, stored or not, on the way.                     *)
(***************************************************************************)
HeldSheetExists ==
  primary # NoNode =>
    \A w \in Clients : cfd[w].fd # 0 => ent[primary][cfd[w].sheet] # "absent"

(***************************************************************************)
(* WriteCellChunk never hands out a version of a chunk twice: the data     *)
(* node's `cur + 1 == version` check serialises writes only if it does.    *)
(***************************************************************************)
NoVersionGrantedTwice == IsInjective(grants)

(***************************************************************************)
(* Every chunk the master allocates gets an id no other chunk had: the id  *)
(* names the chunk file on the data node and the row in sqlite.            *)
(***************************************************************************)
ChunkIdsUnique == IsInjective(allocs)

FdNamesOpenedSheet ==
  \A w \in Clients :
    cl[w].pc \in {"bump", "journal"} => cl[w].sheet = cfd[w].sheet

=============================================================================
