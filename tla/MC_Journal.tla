----------------------------- MODULE MC_Journal -----------------------------
(* Two CommitEntry goroutines on the master's journal. *)
EXTENDS Journal

CONSTANTS w1, w2

MCClients == {w1, w2}
=============================================================================
