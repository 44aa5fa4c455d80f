---------------------------- MODULE MCReplayStore ----------------------------
(* Model values and symmetry for the TLC runs of ReplayStore.              *)
EXTENDS ReplayStore, TLC

\* Commitments and txids are only compared for equality; instants are not
\* interchangeable and take no part.
Symmetry == Permutations(Commitments) \cup Permutations(TxIds)

=============================================================================
