---------------------------- MODULE ChunkRegister ----------------------------
(***************************************************************************)
(* What the primary promises of one chunk to File.WriteAt and File.ReadAt: *)
(* the chunk is a register of cells whose versions are installed one at a  *)
(* time and in order.  Version v belongs to the cell grant[v] the master   *)
(* gave it.  The bytes of the next version may become visible in its cell  *)
(* before the version is (Stage); installing the version moves the chunk's *)
(* version to it and acknowledges its writer in the same step (Install).   *)
(* Nothing else changes the chunk.                                         *)
(***************************************************************************)
EXTENDS Naturals

CONSTANTS MaxCellsPerChunk, MaxVersion

Versions == 1..MaxVersion
Slots    == 0..(MaxCellsPerChunk - 1)
Pad      == 0

VARIABLES
  grant,  \* grant[v]: the cell version v writes
  ver,    \* the installed version of the chunk
  data,   \* data[s]: the version whose bytes cell s shows
  acked   \* versions whose writer was told OK

vars == <<grant, ver, data, acked>>

Init ==
  /\ grant \in [Versions -> Slots]
  /\ ver = 0
  /\ data = [s \in Slots |-> Pad]
  /\ acked = {}

(* The next version's bytes land in its cell. *)
Stage ==
  /\ ver < MaxVersion
  /\ data' = [data EXCEPT ![grant[ver + 1]] = ver + 1]
  /\ UNCHANGED <<grant, ver, acked>>

(* The next version, already staged, is installed and acknowledged. *)
Install ==
  /\ ver < MaxVersion
  /\ data[grant[ver + 1]] = ver + 1
  /\ ver' = ver + 1
  /\ acked' = acked \cup {ver + 1}
  /\ UNCHANGED <<grant, data>>

Next == Stage \/ Install

Spec == Init /\ [][Next]_vars

=============================================================================
