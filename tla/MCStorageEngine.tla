-------------------------- MODULE MCStorageEngine --------------------------
(***************************************************************************)
(* StorageEngine on small sets.  Sessions, keys and values are             *)
(* interchangeable: no action and no invariant names one.  The symmetry is *)
(* used by the runs that check no liveness.                                *)
(***************************************************************************)
EXTENDS StorageEngine, TLC

Symmetry == Permutations(Session) \cup Permutations(Key) \cup Permutations(Value)
-----------------------------------------------------------------------------
(* The run with liveness has no symmetry, and stays within two worlds of   *)
(* which each is small in what the other is about: in Alone one session    *)
(* works, on all tables and with long lists; in Together all do, on one    *)
(* table, its instances opened and closed, with lists of two.  The room    *)
(* bounds what a session begins and the server opens; a step of bc_commit  *)
(* never leaves the world it starts in, so none is taken away.             *)

OneSession == CHOOSE s \in Session : TRUE
OneTable == CHOOSE t \in Table : TRUE
OneValue == CHOOSE v \in Value : TRUE

OnlyOneValue(s) ==
    \A n \in DOMAIN statements[s] : statements[s][n].value \in {OneValue, NoValue}

Alone ==
    /\ \A s \in Session \ {OneSession} : cached[s] = {} /\ mode[s] = "autocommit"
    /\ \A t \in Table : instances[t] <= 1
    /\ Len(statements[OneSession]) > 2 =>
          /\ OnlyOneValue(OneSession)
          /\ chain \in [Table -> [Key -> {OneValue, NoValue}]]

Together ==
    /\ \A t \in Table \ {OneTable} : instances[t] = 0 /\ chain[t] = NoRows
    /\ \A s \in Session :
          /\ Len(statements[s]) <= 2
          /\ cached[s] \subseteq {OneTable} /\ OnlyOneValue(s)

Room == Alone \/ Together
=============================================================================
