---------------------------- MODULE MCInitScript ----------------------------
(* Three nodes that are alike. *)
EXTENDS InitScript, TLC

CONSTANTS n1, n2, n3

Three == {n1, n2, n3}

Alike == Permutations(Three)

=============================================================================
