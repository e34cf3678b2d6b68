------------------------------- MODULE Backend -------------------------------
(***************************************************************************)
(* The gDoc web backend above SheetFS, for one spreadsheet file: the       *)
(* websocket goroutines of controllers/server.go (Connect reads a message, *)
(* HandleMsg runs its handler, and Connect puts the reply on the message   *)
(* channel), the broadcaster of controllers/client.go that writes each     *)
(* reply to the open editors, the REST goroutines (Load, Rollback,         *)
(* DeleteForever), the lock tables of lock/lock.go, the file's cells in    *)
(* SheetFS, and the undo log in MongoDB.                                   *)
(*                                                                         *)
(* lock.go keeps FileRWLockMap[file] (a sync.RWMutex) and                  *)
(* FileLockMap[file][cell] (a sync.Mutex per cell), created on first use   *)
(* and dropped by DeleteFileLock.  A mutex is named by an id; the tables   *)
(* hold ids, and a goroutine that read an id blocks on that mutex even if  *)
(* the table changes later.  A Go fatal error (unlock of an unlocked       *)
(* mutex) ends the process; a runtime panic (nil map or nil pointer)       *)
(* ends only its goroutine, which beego's default RecoverPanic catches,    *)
(* and the locks that goroutine held stay held.                            *)
(*                                                                         *)
(* A cell holds a value, the meta cell the set of keys its updates set.    *)
(* Every SheetFS call may fail (a timeout, an Unavailable master).         *)
(***************************************************************************)
EXTENDS Naturals, Sequences, SequencesExt

CONSTANTS
  Procs,      \* goroutines serving a websocket connection or a REST request
  DataCells,  \* cells of the sheet
  MetaCell,   \* the sheet's meta cell (META_ROW, META_COL)
  Values,     \* values a "v" or "rv" message writes
  MetaKeys,   \* keys a "cg", "all" or "fc" message sets in the meta cell
  MaxOps,     \* bound: messages and requests handled
  MaxLocks,   \* bound: mutexes created
  ChanCap     \* capacity of the message channel (10 in client.go)

ASSUME MetaCell \notin DataCells /\ MaxOps \in Nat /\ MaxLocks \in Nat
       /\ ChanCap \in Nat \ {0}

Cells == DataCells \cup {MetaCell}
Empty == "empty"     \* model.Cell{}: a cell never written, or a failed read
None  == 0           \* a missing table entry
Ids   == 1..MaxLocks

VARIABLES
  pc,      \* pc[p]: where goroutine p is
  req,     \* req[p]: the message or request p handles and its locals
  rwOf,    \* FileRWLockMap[file]: an id, or None; FileLockMap[file] exists iff
           \* it does, as AddFileLock and DeleteFileLock set both under FileLock
  cellOf,  \* cellOf[c]: FileLockMap[file][c], an id or None
  mu,      \* mu[i]: sync.Mutex i is locked
  rw,      \* rw[i]: readers of sync.RWMutex i, and its writer: none, pending, held
  nextId,  \* mutexes created so far
  cell,    \* cell[c]: the value SheetFS holds for data cell c
  meta,    \* the keys the meta cell holds
  log,     \* MongoDB "log": [cell, new, old, ts] records of this file
  clock,   \* time.Now(), as a counter of the records logged
  ops,     \* messages and requests handled
  fatal,   \* the process died of a Go fatal error
  chan,    \* the message channel: the replies waiting for the broadcaster
  view     \* view[c]: the value the open editors show for data cell c, the
           \* last one the broadcaster wrote to them

vars == <<pc, req, rwOf, cellOf, mu, rw, nextId, cell, meta, log, clock,
          ops, fatal, chan, view>>

Lockvars  == <<rwOf, cellOf, mu, rw, nextId>>
Storevars == <<cell, meta, log, clock>>

Idle == [op |-> "none", val |-> Empty, key |-> "none", t |-> 0, todo |-> <<>>,
         old |-> Empty, keys |-> {}, lk |-> MetaCell, after |-> "idle",
         id |-> None, cells |-> {}]

Goto(p, l) == pc' = [pc EXCEPT ![p] = l]

(* The websocket messages; the others come from REST requests. *)
WsOps == {"v", "rv", "cg", "all", "fc"}

(* The goroutine takes its next message or request. *)
Return(p) == pc' = [pc EXCEPT ![p] = "idle"] /\ req' = [req EXCEPT ![p] = Idle]

(* The handler returns: HandleMsg's reply goes to Connect, which sends it  *)
(* on the message channel; a REST handler's goroutine is done.             *)
Done(p) ==
  IF req[p].op \in WsOps THEN Goto(p, "ws_send") /\ UNCHANGED req
  ELSE Return(p)

(* A runtime panic: beego's RecoverPanic ends the handler, the locks it    *)
(* holds stay held; a websocket connection closes without its reply.       *)
Panic(p) == Return(p)

-----------------------------------------------------------------------------
(***************************************************************************)
(* AddFileLock, under FileLock: create the file's tables where missing.    *)
(***************************************************************************)
HasTable == rwOf # None

(* AddFileLock as `if _, ok := FileRWLockMap[filename]; !ok` calls it: both *)
(* entries created, the cell table empty.                                   *)
EnsureFileLock ==
  LET new == nextId + 1 IN
  IF HasTable THEN UNCHANGED <<rwOf, cellOf, nextId, rw>>
  ELSE /\ new \in Ids
       /\ rwOf' = new /\ nextId' = new
       /\ rw' = [rw EXCEPT ![new] = [r |-> 0, w |-> "none"]]
       /\ cellOf' = [c \in Cells |-> None]

(* DeleteFileLock, under FileLock: both entries of the file go. *)
DeleteFileLock == rwOf' = None /\ cellOf' = [c \in Cells |-> None]

-----------------------------------------------------------------------------
(***************************************************************************)
(* LockCell(c), then pc = req.after: ensure the tables, RLock the file's   *)
(* RWMutex, then lock the cell's mutex, creating it when the lookup        *)
(* missed.  Creation re-reads nothing before it stores: a second           *)
(* goroutine that missed too replaces the first one's mutex.               *)
(***************************************************************************)
LcEnsure(p) ==
  /\ pc[p] = "lc_ensure"
  /\ EnsureFileLock
  /\ Goto(p, "lc_rread")
  /\ UNCHANGED <<req, mu, Storevars, ops, fatal>>

(* FileRWLockMap[filename].RLock(): a nil entry panics. *)
LcRRead(p) ==
  /\ pc[p] = "lc_rread"
  /\ IF rwOf = None THEN Panic(p)
     ELSE Goto(p, "lc_rwait") /\ req' = [req EXCEPT ![p].id = rwOf]
  /\ UNCHANGED <<Lockvars, Storevars, ops, fatal>>

(* RLock blocks while a writer holds the RWMutex or waits for it. *)
LcRWait(p) ==
  LET i == req[p].id IN
  /\ pc[p] = "lc_rwait" /\ rw[i].w = "none"
  /\ rw' = [rw EXCEPT ![i].r = @ + 1]
  /\ Goto(p, "lc_cread")
  /\ UNCHANGED <<req, rwOf, cellOf, mu, nextId, Storevars, ops, fatal>>

(* `if cellLock, ok := FileLockMap[filename][cell]; ok`: a nil table reads *)
(* as a miss.                                                              *)
LcCRead(p) ==
  LET c == req[p].lk IN
  /\ pc[p] = "lc_cread"
  /\ IF HasTable /\ cellOf[c] # None
     THEN Goto(p, "lc_mwait") /\ req' = [req EXCEPT ![p].id = cellOf[c]]
     ELSE Goto(p, "lc_create") /\ UNCHANGED req
  /\ UNCHANGED <<Lockvars, Storevars, ops, fatal>>

(* Under FileLock: FileLockMap[filename][cell] = &sync.Mutex{}; a nil     *)
(* table (dropped by DeleteFileLock) panics on the assignment.            *)
LcCreate(p) ==
  LET new == nextId + 1 IN
  /\ pc[p] = "lc_create"
  /\ IF ~HasTable THEN Panic(p) /\ UNCHANGED <<cellOf, mu, nextId>>
     ELSE /\ new \in Ids
          /\ cellOf' = [cellOf EXCEPT ![req[p].lk] = new]
          /\ mu' = [mu EXCEPT ![new] = FALSE] /\ nextId' = new
          /\ Goto(p, "lc_reread") /\ UNCHANGED req
  /\ UNCHANGED <<rwOf, rw, Storevars, ops, fatal>>

(* FileLockMap[filename][cell].Lock(): the entry read again; nil panics. *)
LcReRead(p) ==
  LET c == req[p].lk IN
  /\ pc[p] = "lc_reread"
  /\ IF HasTable /\ cellOf[c] # None
     THEN Goto(p, "lc_mwait") /\ req' = [req EXCEPT ![p].id = cellOf[c]]
     ELSE Panic(p)
  /\ UNCHANGED <<Lockvars, Storevars, ops, fatal>>

LcMWait(p) ==
  LET i == req[p].id IN
  /\ pc[p] = "lc_mwait" /\ ~mu[i]
  /\ mu' = [mu EXCEPT ![i] = TRUE]
  /\ Goto(p, req[p].after)
  /\ UNCHANGED <<req, rwOf, cellOf, rw, nextId, Storevars, ops, fatal>>

(***************************************************************************)
(* UnlockCell(c), then pc = req.after: Unlock the mutex the table now      *)
(* names, then RUnlock the RWMutex the map now names.  Unlocking a mutex   *)
(* that is not locked is a fatal error; a nil one panics.                  *)
(***************************************************************************)
UcCell(p) ==
  LET c == req[p].lk
      i == cellOf[c] IN
  /\ pc[p] = "uc_cell"
  /\ CASE ~HasTable \/ i = None -> Panic(p) /\ UNCHANGED <<mu, fatal>>
       [] ~mu[i]                -> fatal' = TRUE /\ UNCHANGED <<pc, req, mu>>
       [] OTHER -> mu' = [mu EXCEPT ![i] = FALSE] /\ Goto(p, "uc_rw")
                   /\ UNCHANGED <<req, fatal>>
  /\ UNCHANGED <<rwOf, cellOf, rw, nextId, Storevars, ops>>

UcRW(p) ==
  /\ pc[p] = "uc_rw"
  /\ CASE ~HasTable        -> Panic(p) /\ UNCHANGED <<rw, fatal>>
       [] rw[rwOf].r = 0   -> fatal' = TRUE /\ UNCHANGED <<pc, req, rw>>
       [] OTHER -> rw' = [rw EXCEPT ![rwOf].r = @ - 1] /\ Goto(p, req[p].after)
                   /\ UNCHANGED <<req, fatal>>
  /\ UNCHANGED <<rwOf, cellOf, mu, nextId, Storevars, ops>>

(***************************************************************************)
(* LockFile, then pc = req.after: ensure the tables, then Lock the         *)
(* RWMutex the map names: take the writer slot, which blocks new readers,  *)
(* then wait for the readers in to leave.                                  *)
(***************************************************************************)
LfEnsure(p) ==
  /\ pc[p] = "lf_ensure"
  /\ EnsureFileLock
  /\ Goto(p, "lf_read")
  /\ UNCHANGED <<req, mu, Storevars, ops, fatal>>

LfRead(p) ==
  /\ pc[p] = "lf_read"
  /\ IF HasTable THEN Goto(p, "lf_wait") /\ req' = [req EXCEPT ![p].id = rwOf]
     ELSE Panic(p)
  /\ UNCHANGED <<Lockvars, Storevars, ops, fatal>>

LfWait(p) ==
  LET i == req[p].id IN
  /\ pc[p] = "lf_wait" /\ rw[i].w = "none"
  /\ rw' = [rw EXCEPT ![i].w = "pending"]
  /\ Goto(p, "lf_drain")
  /\ UNCHANGED <<req, rwOf, cellOf, mu, nextId, Storevars, ops, fatal>>

LfDrain(p) ==
  LET i == req[p].id IN
  /\ pc[p] = "lf_drain" /\ rw[i].r = 0
  /\ rw' = [rw EXCEPT ![i].w = "held"]
  /\ Goto(p, req[p].after)
  /\ UNCHANGED <<req, rwOf, cellOf, mu, nextId, Storevars, ops, fatal>>

(* UnlockFile: AddFileLock where the entry is missing, then Unlock the     *)
(* RWMutex the map names; one not write-locked is a fatal error.           *)
UfEnsure(p) ==
  /\ pc[p] = "uf_ensure"
  /\ EnsureFileLock
  /\ Goto(p, "uf_unlock")
  /\ UNCHANGED <<req, mu, Storevars, ops, fatal>>

UfUnlock(p) ==
  /\ pc[p] = "uf_unlock"
  /\ CASE ~HasTable              -> Panic(p) /\ UNCHANGED <<rw, fatal>>
       [] rw[rwOf].w # "held"    -> fatal' = TRUE /\ UNCHANGED <<pc, req, rw>>
       [] OTHER -> rw' = [rw EXCEPT ![rwOf].w = "none"] /\ Goto(p, req[p].after)
                   /\ UNCHANGED <<req, fatal>>
  /\ UNCHANGED <<rwOf, cellOf, mu, nextId, Storevars, ops>>

(* The lock layer's steps, and the labels calling them. *)
LockCall(p, l, c, after) ==
  /\ Goto(p, l)
  /\ req' = [req EXCEPT ![p].lk = c, ![p].after = after]

LockCell(p, c, after)   == LockCall(p, "lc_ensure", c, after)
UnlockCell(p, c, after) == LockCall(p, "uc_cell", c, after)
LockFile(p, after)      == LockCall(p, "lf_ensure", MetaCell, after)
UnlockFile(p, after)    == LockCall(p, "uf_ensure", MetaCell, after)

-----------------------------------------------------------------------------
(***************************************************************************)
(* A goroutine takes the next message or request: Connect hands a          *)
(* websocket message to HandleMsg, whose handlers run synchronously; the   *)
(* REST handlers call Rollback (UndoLogs), DeleteForever and Load          *)
(* (decodeFile).  ops bounds them all.  cells are the data cells the       *)
(* message writes, which its reply tells the editors.                      *)
(***************************************************************************)
Messages(now) ==
     [op: {"v"}, lk: DataCells, val: Values]
  \cup [op: {"rv"}, todo: {SetToSeq(S) : S \in SUBSET DataCells \ {{}}}, val: Values]
  \cup [op: {"cg", "all", "fc"}, key: MetaKeys]
  \cup [op: {"rollback"}, t: 0..now]
  \cup [op: {"delete", "load"}]

Entry == [v |-> "v_open", rv |-> "rv_open", cg |-> "m_open", all |-> "m_open",
          fc |-> "m_open", rollback |-> "rb_find", delete |-> "df_one",
          load |-> "ld_open"]

Writes(m) == CASE m.op = "v"  -> {m.lk}
              [] m.op = "rv" -> ToSet(m.todo)
              [] OTHER       -> {}

HandleMsg(p) ==
  /\ pc[p] = "idle" /\ ops < MaxOps
  /\ \E m \in Messages(clock) :
       /\ req' = [req EXCEPT ![p] = [f \in DOMAIN Idle |->
                                      IF f \in DOMAIN m THEN m[f]
                                      ELSE IF f = "cells" THEN Writes(m)
                                      ELSE Idle[f]]]
       /\ Goto(p, Entry[m.op])
  /\ ops' = ops + 1
  /\ UNCHANGED <<Lockvars, Storevars, fatal>>

(* Every SheetFS call returns either its result or an error. *)
FsFails == {FALSE, TRUE}

(***************************************************************************)
(* persistGridValue: Open; LockCell (UnlockCell deferred); decodeCell, an  *)
(* error giving model.Cell{}; logGridValue(new, old) to MongoDB;           *)
(* encodeCell.                                                             *)
(***************************************************************************)
VOpen(p) ==
  /\ pc[p] = "v_open"
  /\ \/ Done(p)
     \/ LockCell(p, req[p].lk, "v_decode")
  /\ UNCHANGED <<Lockvars, Storevars, ops, fatal>>

VDecode(p) ==
  /\ pc[p] = "v_decode"
  /\ \E fail \in FsFails :
       req' = [req EXCEPT ![p].old = IF fail THEN Empty ELSE cell[req[p].lk]]
  /\ Goto(p, "v_log")
  /\ UNCHANGED <<Lockvars, Storevars, ops, fatal>>

(* logGridValue: InsertOne of {new, old, time.Now()}; an error is only    *)
(* logged.                                                                 *)
VLog(p) ==
  /\ pc[p] = "v_log"
  /\ \/ /\ log' = Append(log, [cell |-> req[p].lk, new |-> req[p].val,
                               old |-> req[p].old, ts |-> clock + 1])
        /\ clock' = clock + 1
     \/ UNCHANGED <<log, clock>>
  /\ Goto(p, "v_encode")
  /\ UNCHANGED <<req, Lockvars, cell, meta, ops, fatal>>

VEncode(p) ==
  /\ pc[p] = "v_encode"
  /\ \/ cell' = [cell EXCEPT ![req[p].lk] = req[p].val]
     \/ UNCHANGED cell
  /\ UnlockCell(p, req[p].lk, "ws_send")
  /\ UNCHANGED <<Lockvars, meta, log, clock, ops, fatal>>

(***************************************************************************)
(* persistGridMulti: Open, then for each cell of the range in order:       *)
(* LockCell, encodeCell of a fresh cell with the new value (no decode, no  *)
(* log), UnlockCell.                                                       *)
(***************************************************************************)
RvOpen(p) ==
  /\ pc[p] = "rv_open"
  /\ \/ Done(p)
     \/ Goto(p, "rv_next") /\ UNCHANGED req
  /\ UNCHANGED <<Lockvars, Storevars, ops, fatal>>

RvNext(p) ==
  /\ pc[p] = "rv_next"
  /\ IF req[p].todo = <<>> THEN Done(p)
     ELSE LockCell(p, Head(req[p].todo), "rv_encode")
  /\ UNCHANGED <<Lockvars, Storevars, ops, fatal>>

RvEncode(p) ==
  /\ pc[p] = "rv_encode"
  /\ \/ cell' = [cell EXCEPT ![req[p].lk] = req[p].val]
     \/ UNCHANGED cell
  /\ Goto(p, "uc_cell")
  /\ req' = [req EXCEPT ![p].todo = Tail(@), ![p].after = "rv_next"]
  /\ UNCHANGED <<Lockvars, meta, log, clock, ops, fatal>>

(***************************************************************************)
(* persistGridConfig ("cg"), persistGridCommon ("all"), persistCalcChain   *)
(* ("fc"): Open; LockMeta (UnlockMeta deferred); decodeCommon; set one     *)
(* key; encodeCommon.  On a decode error "cg" and "all" go on from an      *)
(* empty model.Sheet, "fc" returns.                                        *)
(***************************************************************************)
MOpen(p) ==
  /\ pc[p] = "m_open"
  /\ \/ Done(p)
     \/ LockCell(p, MetaCell, "m_decode")
  /\ UNCHANGED <<Lockvars, Storevars, ops, fatal>>

(* The switch on req.K sets one field of the sheet. *)
SetKey(keys, k) == keys \cup {k}

(* decodeCommon: the meta read, or for "cg" and "all" on an error an empty *)
(* model.Sheet.                                                            *)
MDecode(p) ==
  /\ pc[p] = "m_decode"
  /\ \/ req' = [req EXCEPT ![p].keys = meta]
     \/ req[p].op # "fc" /\ req' = [req EXCEPT ![p].keys = {}]
  /\ Goto(p, "m_encode")
  /\ UNCHANGED <<Lockvars, Storevars, ops, fatal>>

(* persistCalcChain returns on a decode error, UnlockMeta deferred. *)
FcDecodeFails(p) ==
  /\ pc[p] = "m_decode" /\ req[p].op = "fc"
  /\ UnlockCell(p, MetaCell, "ws_send")
  /\ UNCHANGED <<Lockvars, Storevars, ops, fatal>>

MEncode(p) ==
  /\ pc[p] = "m_encode"
  /\ \/ meta' = SetKey(req[p].keys, req[p].key)
     \/ UNCHANGED meta
  /\ UnlockCell(p, MetaCell, "ws_send")
  /\ UNCHANGED <<Lockvars, cell, log, clock, ops, fatal>>

(***************************************************************************)
(* UndoLogs(T): Find the records with ts > T, newest first, into result    *)
(* (a Find error leaves a nil cursor, and cursor.All panics); LockFile     *)
(* (UnlockFile deferred); Open; encodeCell of each record's old cell,      *)
(* returning on the first error; DeleteMany(ts > T).                       *)
(***************************************************************************)
After(t) == SelectSeq(log, LAMBDA r : r.ts > t)

RbFind(p) ==  \* then LockFile(p, "rb_open")
  /\ pc[p] = "rb_find"
  /\ \/ Panic(p)
     \/ /\ Goto(p, "lf_ensure")
        /\ req' = [req EXCEPT ![p].todo = Reverse(After(req[p].t)),
                              ![p].after = "rb_open"]
  /\ UNCHANGED <<Lockvars, Storevars, ops, fatal>>

RbOpen(p) ==
  /\ pc[p] = "rb_open"
  /\ \/ UnlockFile(p, "idle")
     \/ Goto(p, "rb_undo") /\ UNCHANGED req
  /\ UNCHANGED <<Lockvars, Storevars, ops, fatal>>

RbUndo(p) ==
  LET r == Head(req[p].todo) IN
  /\ pc[p] = "rb_undo"
  /\ IF req[p].todo = <<>>
     THEN Goto(p, "rb_delete") /\ UNCHANGED <<req, cell>>
     ELSE \/ /\ cell' = [cell EXCEPT ![r.cell] = r.old]
             /\ req' = [req EXCEPT ![p].todo = Tail(@)]
             /\ UNCHANGED pc
          \/ UnlockFile(p, "idle") /\ UNCHANGED cell
  /\ UNCHANGED <<Lockvars, meta, log, clock, ops, fatal>>

RbDelete(p) ==
  /\ pc[p] = "rb_delete"
  /\ \/ log' = SelectSeq(log, LAMBDA r : r.ts <= req[p].t)
     \/ UNCHANGED log
  /\ UnlockFile(p, "idle")
  /\ UNCHANGED <<Lockvars, cell, meta, clock, ops, fatal>>

(***************************************************************************)
(* DeleteForever: DeleteOne of the "files" record, returning on an error;  *)
(* DeleteMany of the file's "log" records; DeleteFileLock.  The SheetFS    *)
(* file is left in place (fs.Delete is commented out).                     *)
(***************************************************************************)
DfOne(p) ==
  /\ pc[p] = "df_one"
  /\ \/ Done(p)
     \/ Goto(p, "df_logs") /\ UNCHANGED req
  /\ UNCHANGED <<Lockvars, Storevars, ops, fatal>>

DfLogs(p) ==
  /\ pc[p] = "df_logs"
  /\ \/ log' = <<>>
     \/ UNCHANGED log
  /\ Goto(p, "df_locks")
  /\ UNCHANGED <<req, Lockvars, cell, meta, clock, ops, fatal>>

DfLocks(p) ==
  /\ pc[p] = "df_locks"
  /\ DeleteFileLock
  /\ Done(p)
  /\ UNCHANGED <<mu, rw, nextId, Storevars, ops, fatal>>

(***************************************************************************)
(* decodeFile (Load): Open; an error means "no such file" and the Create   *)
(* that follows fails, the sheet existing; else LockFile, Read,            *)
(* UnlockFile.                                                             *)
(***************************************************************************)
LdOpen(p) ==
  /\ pc[p] = "ld_open"
  /\ \/ Done(p)
     \/ LockFile(p, "ld_read")
  /\ UNCHANGED <<Lockvars, Storevars, ops, fatal>>

LdRead(p) ==
  /\ pc[p] = "ld_read"
  /\ UnlockFile(p, "idle")
  /\ UNCHANGED <<Lockvars, Storevars, ops, fatal>>

(***************************************************************************)
(* Connect: `message <- msg` with HandleMsg's reply, which echoes the      *)
(* request whatever its handler did; it blocks while the channel is full.  *)
(***************************************************************************)
WsSend(p) ==
  /\ pc[p] = "ws_send" /\ Len(chan) < ChanCap
  /\ chan' = Append(chan, [cells |-> req[p].cells, val |-> req[p].val])
  /\ Return(p)
  /\ UNCHANGED <<Lockvars, Storevars, ops, fatal, view>>

(* broadcaster: receive a message and WriteMessage it to every client in  *)
(* turn; the editors apply the echoed update to their cells.               *)
Broadcast ==
  /\ chan # <<>>
  /\ view' = [c \in DataCells |->
                IF c \in Head(chan).cells THEN Head(chan).val ELSE view[c]]
  /\ chan' = Tail(chan)
  /\ UNCHANGED <<pc, req, Lockvars, Storevars, ops, fatal>>

-----------------------------------------------------------------------------
Init ==
  /\ pc = [p \in Procs |-> "idle"]
  /\ req = [p \in Procs |-> Idle]
  /\ rwOf = None
  /\ cellOf = [c \in Cells |-> None]
  /\ mu = [i \in Ids |-> FALSE]
  /\ rw = [i \in Ids |-> [r |-> 0, w |-> "none"]]
  /\ nextId = 0
  /\ cell = [c \in DataCells |-> Empty]
  /\ meta = {}
  /\ log = <<>>
  /\ clock = 0
  /\ ops = 0
  /\ fatal = FALSE
  /\ chan = <<>>
  /\ view = [c \in DataCells |-> Empty]

Step(p) ==
  \/ HandleMsg(p)
  \/ LcEnsure(p) \/ LcRRead(p) \/ LcRWait(p) \/ LcCRead(p) \/ LcCreate(p)
  \/ LcReRead(p) \/ LcMWait(p) \/ UcCell(p) \/ UcRW(p)
  \/ LfEnsure(p) \/ LfRead(p) \/ LfWait(p) \/ LfDrain(p) \/ UfEnsure(p)
  \/ UfUnlock(p)
  \/ VOpen(p) \/ VDecode(p) \/ VLog(p) \/ VEncode(p)
  \/ RvOpen(p) \/ RvNext(p) \/ RvEncode(p)
  \/ MOpen(p) \/ MDecode(p) \/ FcDecodeFails(p) \/ MEncode(p)
  \/ RbFind(p) \/ RbOpen(p) \/ RbUndo(p) \/ RbDelete(p)
  \/ DfOne(p) \/ DfLogs(p) \/ DfLocks(p)
  \/ LdOpen(p) \/ LdRead(p)

(* A fatal error ends the process: nothing steps after it. *)
Next ==
  /\ ~fatal
  /\ \/ \E p \in Procs : Step(p) /\ UNCHANGED <<chan, view>>
     \/ \E p \in Procs : WsSend(p)
     \/ Broadcast

Spec == Init /\ [][Next]_vars

-----------------------------------------------------------------------------
TypeOK ==
  /\ rwOf \in Ids \cup {None} /\ nextId \in 0..MaxLocks
  /\ cellOf \in [Cells -> Ids \cup {None}]
  /\ mu \in [Ids -> BOOLEAN]
  /\ cell \in [DataCells -> Values \cup {Empty}]
  /\ meta \subseteq MetaKeys
  /\ clock \in 0..MaxOps /\ ops \in 0..MaxOps
  /\ chan \in Seq([cells : SUBSET DataCells, val : Values \cup {Empty}])
  /\ Len(chan) <= ChanCap
  /\ view \in [DataCells -> Values \cup {Empty}]

(* The cells a goroutine works on between LockCell and UnlockCell. *)
InCell(p) ==
  pc[p] \in {"v_decode", "v_log", "v_encode", "rv_encode", "m_decode",
             "m_encode", "uc_cell"}

(* LockCell/UnlockCell make a cell's read-modify-write exclusive: no two   *)
(* handlers are between LockCell and UnlockCell on the same cell (or both  *)
(* on the meta cell) at once.                                              *)
CellLockExclusive ==
  \A p, q \in Procs :
    p # q /\ InCell(p) /\ InCell(q) => req[p].lk # req[q].lk

(* Once every goroutine is idle and the broadcaster has drained the       *)
(* channel, the editors show what SheetFS holds: Connect's replies reach   *)
(* them in the order HandleMsg persisted the writes, and only writes that  *)
(* happened are echoed.  No run checks it: with two values TLC breaks it   *)
(* through a reply sent after its persist failed, and, with no failure at  *)
(* all, through two replies of one cell enqueued in the opposite order.    *)
ViewMatchesStore ==
  (\A p \in Procs : pc[p] = "idle") /\ chan = <<>> => view = cell

====
