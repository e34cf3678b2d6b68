---------------------------- MODULE MC_DataNode ----------------------------
(* Model-checking instance of DataNode: two data nodes, a chunk of two    *)
(* cells, three granted versions.                                          *)
EXTENDS DataNode

CONSTANTS n1, n2

MCNodes == {n1, n2}
=============================================================================
