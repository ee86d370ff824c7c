--------------------------- MODULE MCTableStorage ---------------------------
(***************************************************************************)
(* TableStorage on three keys: enough for remove to hit the first, a       *)
(* middle and the last position of keyList.                                *)
(***************************************************************************)
EXTENDS TableStorage
=============================================================================
