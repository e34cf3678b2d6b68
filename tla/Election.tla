------------------------------ MODULE Election ------------------------------
(***************************************************************************)
(* Leader election of a SheetFS node group (election/election.go) as the   *)
(* master and data nodes drive it (master/node/node.go,                    *)
(* master/journal/listener.go, datanode/node/node.go): every process       *)
(* creates an ephemeral sequential proposal znode, lists the children of   *)
(* the election znode, leads when no proposal sorts before its own, and    *)
(* otherwise sets a watch on the closest smaller proposal and retries      *)
(* TryBeLeader when the watch fires.  A leader publishes its address in    *)
(* the ack znode (AckLeader) and serves.                                   *)
(*                                                                         *)
(* ZooKeeper is the environment: a znode is a record of its sequence       *)
(* number, the process that created it and that process's incarnation     *)
(* (its session).  A process that dies leaves its znode until ZooKeeper    *)
(* ends the session (SessionEnd).  Sequence numbers are zero-padded to ten *)
(* digits, so the string order sort.Strings uses is their numeric order.   *)
(***************************************************************************)
EXTENDS Integers, FiniteSets, SequencesExt

CONSTANTS
  Nodes,        \* processes of one group (masters, or data nodes of a group)
  MaxCrashes,   \* bound: process deaths
  MaxRestarts,  \* bound: processes started again after they died
  NoNode        \* the empty ack znode

ASSUME MaxCrashes \in Nat /\ MaxRestarts \in Nat /\ NoNode \notin Nodes

VARIABLES
  pc,        \* pc[n]: where process n is in Run
  prop,      \* prop[n]: the sequence number of n's proposal (Elector.proposal)
  pred,      \* pred[n]: the proposal n read as its predecessor (lastLt)
  inc,       \* inc[n]: n's incarnation; a restart opens a new session
  znodes,    \* children of the election znode
  nextSeq,   \* the parent's sequence counter
  ack,       \* contents of the ack znode: the node that acknowledged last
  crashes, restarts

vars == <<pc, prop, pred, inc, znodes, nextSeq, ack, crashes, restarts>>

None == -1
Alive == {"start", "try", "getw", "watching", "leading", "primary"}

Znode == [seq : Nat, owner : Nodes, inc : Nat]

Proposals == {z.seq : z \in znodes}

(* A znode's session is over once its process died or was started again. *)
SessionOver(z) == pc[z.owner] = "down" \/ inc[z.owner] # z.inc

(***************************************************************************)
(* The loop of TryBeLeader over the children: the last child before the    *)
(* first one that does not sort before p, or None when the first does not. *)
(***************************************************************************)
LastLt(s, p) ==
  LET k    == SelectInSeq(s, LAMBDA c : ~(c < p))
      stop == IF k = 0 THEN Len(s) + 1 ELSE k
  IN IF stop = 1 THEN None ELSE s[stop - 1]

-----------------------------------------------------------------------------
(* NewElector and Run: every process starts by creating its proposal. *)
Init ==
  /\ pc = [n \in Nodes |-> "start"]
  /\ prop = [n \in Nodes |-> None]
  /\ pred = [n \in Nodes |-> None]
  /\ inc = [n \in Nodes |-> 0]
  /\ znodes = {}
  /\ nextSeq = 0
  /\ ack = NoNode
  /\ crashes = 0 /\ restarts = 0

(* CreateProposal: an ephemeral sequential child named by the counter. *)
CreateProposal(n) ==
  /\ pc[n] = "start"
  /\ znodes' = znodes \cup {[seq |-> nextSeq, owner |-> n, inc |-> inc[n]]}
  /\ nextSeq' = nextSeq + 1
  /\ prop' = [prop EXCEPT ![n] = nextSeq]
  /\ pc' = [pc EXCEPT ![n] = "try"]
  /\ UNCHANGED <<pred, inc, ack, crashes, restarts>>

(* TryBeLeader's proposal choice from one listing of the children. *)
Choose(n, s) ==
  LET lastLt == LastLt(s, prop[n]) IN
  /\ pc' = [pc EXCEPT ![n] = IF lastLt = None THEN "leading" ELSE "getw"]
  /\ pred' = [pred EXCEPT ![n] = lastLt]

(* Mutant: the children used in the order Children returns them. *)
TryBeLeaderUnsorted(n) ==
  /\ pc[n] = "try"
  /\ \E s \in SetToSeqs(Proposals) : Choose(n, s)
  /\ UNCHANGED <<prop, inc, znodes, nextSeq, ack, crashes, restarts>>

(* TryBeLeader up to GetW: Children, sort.Strings, the loop. *)
TryBeLeader(n) ==
  /\ pc[n] = "try"
  /\ Choose(n, SetToSortSeq(Proposals, <))
  /\ UNCHANGED <<prop, inc, znodes, nextSeq, ack, crashes, restarts>>

(***************************************************************************)
(* TryBeLeader's GetW on the predecessor it listed.  If that znode is gone *)
(* by now, GetW fails with ErrNoNode; TryBeLeader returns the error and    *)
(* RunAsSecondary ends the process (log.Fatal on a data node, an error     *)
(* returned up to main's log.Fatal on a master).                           *)
(***************************************************************************)
GetW(n) ==
  /\ pc[n] = "getw"
  /\ pc' = [pc EXCEPT ![n] = IF pred[n] \in Proposals THEN "watching" ELSE "down"]
  /\ UNCHANGED <<prop, pred, inc, znodes, nextSeq, ack, crashes, restarts>>

(* The watch fires when the predecessor is deleted; the cancelled context *)
(* ends the fetch loop and RunAsSecondary calls TryBeLeader again.        *)
Notified(n) ==
  /\ pc[n] = "watching"
  /\ pred[n] \notin Proposals
  /\ pc' = [pc EXCEPT ![n] = "try"]
  /\ UNCHANGED <<prop, pred, inc, znodes, nextSeq, ack, crashes, restarts>>

(* Mutant: the watched predecessor published instead of the address. *)
AckLeaderPred(n) ==
  /\ pc[n] = "leading"
  /\ ack' = pred[n]
  /\ pc' = [pc EXCEPT ![n] = "primary"]
  /\ UNCHANGED <<prop, pred, inc, znodes, nextSeq, crashes, restarts>>

(* After the fast-forward, RunAsPrimary calls AckLeader and serves. *)
AckLeader(n) ==
  /\ pc[n] = "leading"
  /\ ack' = n
  /\ pc' = [pc EXCEPT ![n] = "primary"]
  /\ UNCHANGED <<prop, pred, inc, znodes, nextSeq, crashes, restarts>>

-----------------------------------------------------------------------------
(* The process dies; its session lives on until ZooKeeper times it out. *)
Crash(n) ==
  /\ pc[n] \in Alive /\ crashes < MaxCrashes
  /\ pc' = [pc EXCEPT ![n] = "down"]
  /\ crashes' = crashes + 1
  /\ UNCHANGED <<prop, pred, inc, znodes, nextSeq, ack, restarts>>

(* The session of a dead process times out; its ephemeral znode goes. *)
SessionEnd(z) ==
  /\ z \in znodes /\ SessionOver(z)
  /\ znodes' = znodes \ {z}
  /\ UNCHANGED <<pc, prop, pred, inc, nextSeq, ack, crashes, restarts>>

(* The process is started again: NewElector opens a new session. *)
Restart(n) ==
  /\ pc[n] = "down" /\ restarts < MaxRestarts
  /\ pc' = [pc EXCEPT ![n] = "start"]
  /\ inc' = [inc EXCEPT ![n] = @ + 1]
  /\ restarts' = restarts + 1
  /\ UNCHANGED <<prop, pred, znodes, nextSeq, ack, crashes>>

Next ==
  \/ \E n \in Nodes :
        \/ CreateProposal(n) \/ TryBeLeader(n) \/ GetW(n) \/ Notified(n)
        \/ AckLeader(n) \/ Crash(n) \/ Restart(n)
  \/ \E z \in znodes : SessionEnd(z)

Spec == Init /\ [][Next]_vars

(***************************************************************************)
(* Every step of a live process's goroutine is taken once enabled, and     *)
(* ZooKeeper ends a dead session after its timeout.                        *)
(***************************************************************************)
Fairness ==
  /\ \A n \in Nodes : WF_vars(CreateProposal(n) \/ TryBeLeader(n) \/ GetW(n)
                              \/ Notified(n) \/ AckLeader(n))
  /\ WF_vars(\E z \in znodes : SessionEnd(z))

FairSpec == Spec /\ Fairness

-----------------------------------------------------------------------------
TypeOK ==
  /\ pc \in [Nodes -> Alive \cup {"down"}]
  /\ prop \in [Nodes -> Nat \cup {None}]
  /\ pred \in [Nodes -> Nat \cup {None}]
  /\ inc \in [Nodes -> Nat]
  /\ znodes \subseteq Znode
  /\ nextSeq \in Nat
  /\ ack \in Nodes \cup {NoNode}

(***************************************************************************)
(* At most one process leads the group at a time (from TryBeLeader's      *)
(* success through AckLeader and serving), however creations, listings,    *)
(* watches, deaths, session timeouts and restarts interleave.              *)
(***************************************************************************)
AtMostOneLeader ==
  Cardinality({n \in Nodes : pc[n] \in {"leading", "primary"}}) <= 1

(***************************************************************************)
(* As long as fewer processes die than the group has, the group ends up    *)
(* with a primary for good: a process that lost its predecessor is to try  *)
(* again, as TryBeLeader's comment promises.                               *)
(***************************************************************************)
EventuallyPrimary == <>[](\E n \in Nodes : pc[n] = "primary")

=============================================================================
