--------------------------- MODULE MCGlobalState ---------------------------
(* Constants of the run of GlobalState. *)
EXTENDS GlobalState

CONSTANTS a1, a2, t0, t1, s0, o0, o1, k1, k2, w1, w2

MCAccounts    == {a1, a2}
MCTokens      == {t0, t1}
MCSlots       == {s0}
MCOrderHashes == {o0, o1}
MCKeys        == {k1, k2}
MCWorkers     == {w1, w2}
MCBalances    == {0, 1}

=============================================================================
