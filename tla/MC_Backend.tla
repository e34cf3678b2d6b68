----------------------------- MODULE MC_Backend -----------------------------
(* The backend with two goroutines, one data cell and the meta cell. *)
EXTENDS Backend, TLC

CONSTANTS p1, p2, c1, cm, v1, k1

MCProcs     == {p1, p2}
MCDataCells == {c1}
MCValues    == {v1}
MCMetaKeys  == {k1}
====
