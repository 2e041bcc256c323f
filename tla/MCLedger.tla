------------------------------ MODULE MCLedger ------------------------------
(* Constants of the run of Ledger, with the payloads of BlockQuery. *)
EXTENDS BlockQuery, TLC

CONSTANTS a1, a2, t0, t1

MCAccounts == {a1, a2}
MCTokens   == {t0, t1}
MCAmounts  == {1, 2}
Symmetry   == Permutations(MCAccounts)

=============================================================================
