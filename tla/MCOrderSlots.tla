---------------------------- MODULE MCOrderSlots ----------------------------
(* Constants of the runs of OrderSlots. *)
EXTENDS OrderSlots, TLC

CONSTANTS u1, u2, u3

MCUsers2 == {u1, u2}
MCUsers3 == {u1, u2, u3}
Symmetry2 == Permutations(MCUsers2)
Symmetry3 == Permutations(MCUsers3)
MCTotals == {1, 2}

=============================================================================
