----------------------------- MODULE MC_Master ------------------------------
(* Model-checking instance of Master: two master nodes, two clients.      *)
EXTENDS Master, TLC

CONSTANTS n1, n2, w1, w2, s1, s2, c1, c2, c3, meta

MCNodes   == {n1, n2}
MCClients == {w1, w2}

(* The client goroutines are interchangeable: nothing chooses among them. *)
MCClientSymmetry == Permutations(MCClients)
=============================================================================
