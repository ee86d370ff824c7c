--------------------------- MODULE MCTableHandler ---------------------------
(* Instances of TableHandler for TLC. *)
EXTENDS TableHandler
=============================================================================
