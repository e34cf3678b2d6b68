---------------------------- MODULE MC_Election ----------------------------
(* Up to four processes of one group, as model values. *)
EXTENDS Election, TLC

CONSTANTS a, b, c, d

MCNodes == {a, b, c, d}

(* The processes are interchangeable for the safety properties. *)
MCSymmetry == Permutations(MCNodes)

=============================================================================
