--------------------------- MODULE MCTableMetadata ---------------------------
(* Instances of TableMetadata for TLC. *)
EXTENDS TableMetadata, TLC
Symmetry == Permutations(Table) \cup Permutations(Address \ Joinable)
=============================================================================
