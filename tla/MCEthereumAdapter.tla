------------------------- MODULE MCEthereumAdapter -------------------------
(* Instances of EthereumAdapter for TLC. *)
EXTENDS EthereumAdapter, TLC

\* Sessions, tables and keys are interchangeable.
Symmetry == Permutations(Session) \cup Permutations(Table) \cup Permutations(Key)
=============================================================================
