----------------------------- MODULE MCSettlement -----------------------------
(* Model values and symmetry for the TLC runs of Settlement.               *)
EXTENDS Settlement, TLC

Symmetry == Permutations(Matchers) \cup Permutations(TxIds)

=============================================================================
