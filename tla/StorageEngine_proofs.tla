----------------------- MODULE StorageEngine_proofs -----------------------
(***************************************************************************)
(* StorageEngine, for every set of sessions, tables, keys and values and   *)
(* all bounds.                                                             *)
(***************************************************************************)
EXTENDS StorageEngine, SequenceTheorems, FiniteSetTheorems,
        WellFoundedInduction, TLAPS

(* The types, by the groups of variables that actions change or leave. *)
StoreOK ==
    /\ chain \in [Table -> Rows]
    /\ instances \in [Table -> 0..MaxOpen]
    /\ adapterMap \subseteq Table
ControlOK ==
    /\ mode \in [Session -> {"autocommit", "transaction"}]
    /\ registered \in [Session -> SUBSET {"stmt", "trx"}]
    /\ phase \in [Session ->
                    {"idle", "locking", "executing", "failed", "committing"}]
    /\ locked \in [Session -> SUBSET Table]
    /\ mark \in [Session -> Nat]
TxnOK ==
    /\ statements \in [Session -> Seq(Statement)]
    /\ cached \in [Session -> SUBSET Table]
    /\ tableCache \in [Session -> [Table -> Rows]]
    /\ base \in [Session -> [Table -> Rows]]
    /\ exact \in [Session -> [Table -> SUBSET Key]]
    /\ failed \in [Session -> BOOLEAN]
LoopOK ==
    /\ pos \in [Session -> Nat \ {0}]
    /\ batch \in [Session -> [Table -> Rows]]
    /\ putting \in [Session -> SUBSET Table]
    /\ unsent \in [Session -> SUBSET Key]

(* The locals of bc_commit: none outside it, and i within the list. *)
LoopOf(s) ==
    /\ pos[s] <= Len(statements[s]) + 1
    /\ putting[s] # {} => phase[s] = "committing"
    /\ unsent[s] # {} => putting[s] # {}
    /\ phase[s] # "committing" =>
          pos[s] = 1 /\ batch[s] = NoTables /\ putting[s] = {} /\ unsent[s] = {}

TypeInv ==
    /\ StoreOK /\ ControlOK /\ TxnOK /\ LoopOK
    /\ \A s \in Session : LoopOf(s)
-----------------------------------------------------------------------------
LEMMA TypeInvImplies == TypeInv => TypeOK
BY DEF TypeInv, TypeOK, StoreOK, ControlOK, TxnOK, LoopOK, LoopOf

LEMMA NoRowsType == NoRows \in Rows /\ NoTables \in [Table -> Rows]
BY DEF NoRows, Rows, NoTables

LEMMA NoKeysType == NoKeys \in [Table -> SUBSET Key] /\ \A t \in Table : NoKeys[t] = {}
BY DEF NoKeys

LEMMA EmptyList == <<>> \in Seq(Statement) /\ Len(<<>>) = 0
OBVIOUS

(* A group of variables that a step leaves keeps its types. *)
LEMMA Unchanged ==
    ASSUME TypeInv
    PROVE  /\ UNCHANGED store => StoreOK'
           /\ UNCHANGED control => ControlOK'
           /\ UNCHANGED txn => TxnOK'
           /\ UNCHANGED loop => LoopOK'
BY DEF TypeInv, StoreOK, ControlOK, TxnOK, LoopOK, store, control, txn, loop

(* The parts the actions are made of keep the types they touch. *)
LEMMA StatementTypes ==
    ASSUME NEW t \in Table, NEW k \in Key
    PROVE  /\ Removal(t, k) \in Statement
           /\ \A v \in Value : Write(t, k, v) \in Statement
BY DEF Write, Removal, Statement

LEMMA AppendTypes ==
    ASSUME NEW list \in Seq(Statement), NEW e \in Statement
    PROVE  Append(list, e) \in Seq(Statement) /\ Len(Append(list, e)) = Len(list) + 1
BY AppendProperties

LEMMA SetRow ==
    ASSUME NEW rows \in Rows, NEW k \in Key, NEW v \in Value \cup {NoValue}
    PROVE  [rows EXCEPT ![k] = v] \in Rows
BY DEF Rows

LEMMA CacheTableTypes ==
    ASSUME TypeInv, NEW s \in Session, NEW t \in Table, NEW rows \in Rows,
           CacheTable(s, t, rows)
    PROVE  TxnOK' /\ registered' \in [Session -> SUBSET {"stmt", "trx"}]
BY DEF TypeInv, TxnOK, ControlOK, CacheTable, Scopes

LEMMA ExecuteTypes ==
    ASSUME TypeInv, NEW s \in Session, NEW t \in Table, CanExecute(s, t),
           NEW list \in Seq(Statement), Len(list) >= Len(statements[s]),
           NEW rows \in Rows, Execute(s, t, list, rows)
    PROVE  TypeInv'
<1>1. StoreOK' /\ LoopOK'
  BY Unchanged DEF Execute
<1>2. ControlOK' /\ TxnOK'
  BY DEF TypeInv, ControlOK, TxnOK, Execute
<1>3. ASSUME NEW r \in Session PROVE LoopOf(r)'
  <2>1. Len(list) \in Nat /\ Len(statements[s]) \in Nat
    BY DEF TypeInv, TxnOK
  <2>2. LoopOf(r) /\ pos[r] \in Nat
    BY DEF TypeInv, LoopOK
  <2>3. CASE r = s
    <3>1. phase[s] # "committing" /\ statements'[s] = list /\ phase'[s] # "committing"
      BY DEF Execute, CanExecute, TypeInv, ControlOK, TxnOK
    <3> QED  BY <2>1, <2>2, <2>3, <3>1 DEF Execute, LoopOf, loop
  <2>4. CASE r # s
    <3>1. statements'[r] = statements[r] /\ phase'[r] = phase[r]
      BY <2>4 DEF Execute, TypeInv, ControlOK, TxnOK
    <3> QED  BY <2>2, <3>1 DEF Execute, LoopOf, loop
  <2> QED  BY <2>3, <2>4
<1> QED  BY <1>1, <1>2, <1>3 DEF TypeInv

LEMMA CloseStatementTypes ==
    ASSUME TypeInv, NEW s \in Session, CloseStatement(s)
    PROVE  ControlOK'
BY DEF TypeInv, ControlOK, CloseStatement

LEMMA StartCommitTypes ==
    ASSUME TypeInv, NEW s \in Session, StartCommit(s)
    PROVE  ControlOK'
BY DEF TypeInv, ControlOK, StartCommit

LEMMA CloseTransactionTypes ==
    ASSUME TypeInv, NEW s \in Session, CloseTransaction(s)
    PROVE  ControlOK' /\ LoopOK'
BY NoRowsType DEF TypeInv, ControlOK, LoopOK, CloseTransaction

LEMMA DiscardTypes ==
    ASSUME TypeInv, NEW s \in Session, Discard(s)
    PROVE  TxnOK'
BY NoRowsType, NoKeysType, EmptyList DEF TypeInv, TxnOK, Discard

(* What a call of the blockchain does to the rows that are exact.           *)
LEMMA ChangedRows ==
    ASSUME exact \in [Session -> [Table -> SUBSET Key]],
           NEW s \in Session, NEW t \in Table, NEW k \in Key, Changed(s, t, k)
    PROVE  /\ exact' \in [Session -> [Table -> SUBSET Key]]
           /\ \A u \in Table : \A c \in exact'[s][u] :
                 (u = t /\ c = k) \/ c \in exact[s][u]
           /\ \A r \in Session : r # s =>
                 \A u \in Table : \A c \in exact'[r][u] :
                    c \in exact[r][u] /\ ~(u = t /\ c = k)
<1>1. \A r \in Session :
         exact'[r] = [exact[r] EXCEPT ![t] = IF r = s THEN @ \cup {k} ELSE @ \ {k}]
  BY DEF Changed
<1>2. /\ exact'[s] \in [Table -> SUBSET Key]
      /\ \A u \in Table : \A c \in exact'[s][u] :
            (u = t /\ c = k) \/ c \in exact[s][u]
  <2>1. PICK X : X = exact[s][t] \cup {k}
    OBVIOUS
  <2>2. exact'[s] = [exact[s] EXCEPT ![t] = @ \cup {k}]
    BY <1>1
  <2>3. X \in SUBSET Key /\ exact'[s] = [exact[s] EXCEPT ![t] = X]
    BY <2>1, <2>2
  <2> QED  BY <2>1, <2>3
<1>3. ASSUME NEW r \in Session, r # s
      PROVE  /\ exact'[r] \in [Table -> SUBSET Key]
             /\ \A u \in Table : \A c \in exact'[r][u] :
                   c \in exact[r][u] /\ ~(u = t /\ c = k)
  <2>1. PICK X : X = exact[r][t] \ {k}
    OBVIOUS
  <2>2. exact'[r] = [exact[r] EXCEPT ![t] = @ \ {k}]
    BY <1>1, <1>3
  <2>3. X \in SUBSET Key /\ exact'[r] = [exact[r] EXCEPT ![t] = X]
    BY <2>1, <2>2
  <2> QED  BY <2>1, <2>3
<1>4. exact' = [r \in Session |-> exact'[r]]
  BY DEF Changed
<1>5. \A r \in Session : exact'[r] \in [Table -> SUBSET Key]
  BY <1>2, <1>3
<1>6. exact' \in [Session -> [Table -> SUBSET Key]]
  BY <1>4, <1>5
<1> QED  BY <1>2, <1>3, <1>6

LEMMA MissedRows ==
    ASSUME exact \in [Session -> [Table -> SUBSET Key]],
           NEW s \in Session, NEW t \in Table, NEW k \in Key, Missed(s, t, k)
    PROVE  /\ exact' \in [Session -> [Table -> SUBSET Key]]
           /\ k \notin exact'[s][t]
           /\ \A r \in Session, u \in Table : exact'[r][u] \subseteq exact[r][u]
<1>1. PICK X : X = exact[s][t] \ {k}
  OBVIOUS
<1>2. X \in SUBSET Key /\ exact' = [exact EXCEPT ![s][t] = X]
  BY <1>1 DEF Missed
<1> QED  BY <1>1, <1>2

LEMMA ChangedTypes ==
    ASSUME TypeInv, NEW s \in Session, NEW t \in Table, NEW k \in Key,
           Changed(s, t, k) \/ Missed(s, t, k),
           UNCHANGED <<statements, cached, tableCache, base, failed>>
    PROVE  TxnOK'
BY ChangedRows, MissedRows DEF TypeInv, TxnOK

LEMMA CrashTypes ==
    ASSUME TypeInv, Crash
    PROVE  TypeInv'
<1>1. StoreOK' /\ ControlOK' /\ TxnOK' /\ LoopOK'
  BY NoRowsType, NoKeysType, EmptyList, BoundsAssumption
     DEF TypeInv, StoreOK, ControlOK, TxnOK, LoopOK, Crash
<1>2. \A r \in Session : LoopOf(r)'
  BY EmptyList DEF Crash, LoopOf
<1> QED  BY <1>1, <1>2 DEF TypeInv
-----------------------------------------------------------------------------
LEMMA TypeInit == Init => TypeInv
<1> SUFFICES ASSUME Init
             PROVE  TypeInv
  OBVIOUS
<1>1. StoreOK /\ ControlOK /\ TxnOK /\ LoopOK
  BY NoRowsType, NoKeysType, EmptyList, BoundsAssumption
     DEF Init, StoreOK, ControlOK, TxnOK, LoopOK
<1>2. \A r \in Session : LoopOf(r)
  BY EmptyList DEF Init, LoopOf
<1> QED  BY <1>1, <1>2 DEF TypeInv

(* The statements of a session: they leave the chain and the locals of      *)
(* bc_commit alone.                                                         *)
LEMMA TypeStatement ==
    ASSUME TypeInv, NEW s \in Session, StatementStep(s)
    PROVE  TypeInv'
<1>1. CASE StartTransaction(s)
  <2>1. StoreOK' /\ TxnOK' /\ LoopOK'
    BY <1>1, Unchanged DEF StartTransaction
  <2>2. ControlOK'
    BY <1>1 DEF StartTransaction, TypeInv, ControlOK
  <2>3. \A r \in Session : LoopOf(r)'
    BY <1>1 DEF StartTransaction, TypeInv, LoopOf, txn, loop
  <2> QED  BY <2>1, <2>2, <2>3 DEF TypeInv
<1>2. ASSUME NEW t \in Table, external_lock(s, t)
      PROVE  TypeInv'
  <2>1. StoreOK' /\ LoopOK'
    BY <1>2, Unchanged DEF external_lock
  <2>2. TxnOK' /\ registered' \in [Session -> SUBSET {"stmt", "trx"}]
        /\ statements' = statements
    <3>1. CASE UNCHANGED <<registered, txn>>
      BY <3>1, Unchanged DEF TypeInv, ControlOK, txn
    <3>2. ASSUME NEW rows \in GetAll(t), CacheTable(s, t, rows)
          PROVE  TxnOK' /\ registered' \in [Session -> SUBSET {"stmt", "trx"}]
                 /\ statements' = statements
      <4>1. rows \in Rows
        BY NoRowsType DEF GetAll, TypeInv, StoreOK
      <4> QED  BY <3>2, <4>1, CacheTableTypes DEF CacheTable
    <3> QED  BY <1>2, <3>1, <3>2 DEF external_lock
  <2>3. ControlOK'
    <3>1. phase' \in [Session ->
             {"idle", "locking", "executing", "failed", "committing"}]
      BY <1>2 DEF external_lock, TypeInv, ControlOK
    <3>2. locked' \in [Session -> SUBSET Table] /\ mark' \in [Session -> Nat]
      BY <1>2 DEF external_lock, TypeInv, ControlOK, TxnOK
    <3> QED  BY <1>2, <2>2, <3>1, <3>2 DEF external_lock, TypeInv, ControlOK
  <2>4. ASSUME NEW r \in Session PROVE LoopOf(r)'
    <3>1. phase'[r] # "committing" <=> phase[r] # "committing"
      BY <1>2 DEF external_lock, TypeInv, ControlOK
    <3> QED  BY <1>2, <2>2, <3>1 DEF external_lock, TypeInv, LoopOf, loop
  <2> QED  BY <2>1, <2>2, <2>3, <2>4 DEF TypeInv
<1>3. ASSUME NEW t \in Table, NEW k \in Key, NEW v \in Value,
             write_row(s, t, k, v) \/ update_row(s, t, k, v)
      PROVE  TypeInv'
  <2>1. statements[s] \in Seq(Statement) /\ tableCache[s][t] \in Rows
    BY DEF TypeInv, TxnOK
  <2>2. Append(statements[s], Write(t, k, v)) \in Seq(Statement)
        /\ Len(Append(statements[s], Write(t, k, v))) >= Len(statements[s])
    BY <2>1, StatementTypes, AppendTypes
  <2>3. [tableCache[s][t] EXCEPT ![k] = v] \in Rows
    BY <2>1, SetRow
  <2> QED  BY <1>3, <2>2, <2>3, ExecuteTypes DEF write_row, update_row
<1>4. ASSUME NEW t \in Table, NEW k \in Key, delete_row(s, t, k)
      PROVE  TypeInv'
  <2>1. statements[s] \in Seq(Statement) /\ tableCache[s][t] \in Rows
    BY DEF TypeInv, TxnOK
  <2>2. Append(statements[s], Removal(t, k)) \in Seq(Statement)
        /\ Len(Append(statements[s], Removal(t, k))) >= Len(statements[s])
    BY <2>1, StatementTypes, AppendTypes
  <2>3. [tableCache[s][t] EXCEPT ![k] = NoValue] \in Rows
    BY <2>1, SetRow
  <2> QED  BY <1>4, <2>2, <2>3, ExecuteTypes DEF delete_row
<1>5. ASSUME NEW t \in Table, NEW k \in Key, NEW new \in Key, NEW v \in Value,
             update_row_key(s, t, k, new, v)
      PROVE  TypeInv'
  <2> DEFINE removed == [tableCache[s][t] EXCEPT ![k] = NoValue]
             list == Append(statements[s], Removal(t, k))
  <2>1. statements[s] \in Seq(Statement) /\ tableCache[s][t] \in Rows
    BY DEF TypeInv, TxnOK
  <2>2. list \in Seq(Statement) /\ Len(list) = Len(statements[s]) + 1
    BY <2>1, StatementTypes, AppendTypes
  <2>3. removed \in Rows /\ [removed EXCEPT ![new] = v] \in Rows
    BY <2>1, SetRow
  <2>4. Append(list, Write(t, new, v)) \in Seq(Statement)
        /\ Len(Append(list, Write(t, new, v))) = Len(list) + 1
    BY <2>2, StatementTypes, AppendTypes
  <2>5. Len(statements[s]) \in Nat
    BY <2>1
  <2>6. \/ Execute(s, t, Append(list, Write(t, new, v)), [removed EXCEPT ![new] = v])
        \/ Execute(s, t, list, removed)
    BY <1>5 DEF update_row_key
  <2>7. CanExecute(s, t)
    BY <1>5 DEF update_row_key
  <2> HIDE DEF removed, list
  <2>8. CASE Execute(s, t, list, removed)
    BY <2>2, <2>3, <2>5, <2>7, <2>8, ExecuteTypes
  <2>9. CASE Execute(s, t, Append(list, Write(t, new, v)), [removed EXCEPT ![new] = v])
    <3>1. Len(Append(list, Write(t, new, v))) >= Len(statements[s])
      BY <2>2, <2>4, <2>5
    <3> QED  BY <2>3, <2>4, <2>7, <2>9, <3>1, ExecuteTypes
  <2> QED  BY <2>6, <2>8, <2>9
<1>6. ASSUME NEW t \in Table, NEW k \in Key, write_row_duplicate(s, t, k)
      PROVE  TypeInv'
  <2>1. StoreOK' /\ TxnOK' /\ LoopOK'
    BY <1>6, Unchanged DEF write_row_duplicate
  <2>2. ControlOK'
    BY <1>6 DEF write_row_duplicate, TypeInv, ControlOK
  <2>3. \A r \in Session : LoopOf(r)'
    BY <1>6 DEF write_row_duplicate, CanExecute, TypeInv, ControlOK, LoopOf, txn, loop
  <2> QED  BY <2>1, <2>2, <2>3 DEF TypeInv
<1>7. CASE EndStatement(s)
  <2>1. StoreOK' /\ TxnOK' /\ LoopOK'
    BY <1>7, Unchanged DEF EndStatement
  <2>2. ControlOK'
    BY <1>7, StartCommitTypes, CloseStatementTypes DEF EndStatement
  <2>3. \A r \in Session : LoopOf(r)'
    BY <1>7 DEF EndStatement, StartCommit, CloseStatement, TypeInv, ControlOK, LoopOf, txn, loop
  <2> QED  BY <2>1, <2>2, <2>3 DEF TypeInv
<1>8. CASE RollbackStatement(s)
  <2>1. StoreOK' /\ LoopOK'
    BY <1>8, Unchanged DEF RollbackStatement
  <2>2. TxnOK'
    BY <1>8, Unchanged, DiscardTypes DEF RollbackStatement
  <2>3. ControlOK'
    BY <1>8, CloseStatementTypes DEF RollbackStatement
  <2>4. ASSUME NEW r \in Session PROVE LoopOf(r)'
    <3>1. r # s => statements'[r] = statements[r] /\ phase'[r] = phase[r]
      BY <1>8 DEF RollbackStatement, CloseStatement, Discard, TypeInv, ControlOK, TxnOK, txn
    <3>2. Len(statements'[r]) \in Nat
      BY <2>2 DEF TxnOK
    <3>3. LoopOf(r)
      BY DEF TypeInv
    <3>4. CASE r = s
      BY <1>8, <3>2, <3>3, <3>4 DEF RollbackStatement, LoopOf, loop
    <3>5. CASE r # s
      BY <1>8, <3>1, <3>3, <3>5 DEF RollbackStatement, LoopOf, loop
    <3> QED  BY <3>4, <3>5
  <2> QED  BY <2>1, <2>2, <2>3, <2>4 DEF TypeInv
<1>9. CASE Commit(s)
  <2>1. StoreOK' /\ TxnOK'
    BY <1>9, Unchanged DEF Commit
  <2>2. ControlOK' /\ LoopOK'
    BY <1>9, Unchanged, StartCommitTypes, CloseTransactionTypes DEF Commit
  <2>3. \A r \in Session : LoopOf(r)'
    BY <1>9 DEF Commit, StartCommit, CloseTransaction,
                TypeInv, ControlOK, TxnOK, LoopOK, LoopOf, txn, loop
  <2> QED  BY <2>1, <2>2, <2>3 DEF TypeInv
<1>10. CASE Rollback(s)
  <2>1. StoreOK'
    BY <1>10, Unchanged DEF Rollback
  <2>2. ControlOK' /\ LoopOK'
    BY <1>10, CloseTransactionTypes DEF Rollback
  <2>3. TxnOK'
    BY <1>10, Unchanged, DiscardTypes DEF Rollback
  <2>4. ASSUME NEW r \in Session PROVE LoopOf(r)'
    <3>1. r # s => statements'[r] = statements[r]
      BY <1>10 DEF Rollback, Discard, TypeInv, TxnOK, txn
    <3>2. Len(statements'[r]) \in Nat
      BY <2>3 DEF TxnOK
    <3>3. LoopOf(r)
      BY DEF TypeInv
    <3>4. CASE r = s
      BY <1>10, <3>2, <3>4 DEF Rollback, CloseTransaction, TypeInv, LoopOK, LoopOf
    <3>5. CASE r # s
      BY <1>10, <3>1, <3>3, <3>5
         DEF Rollback, CloseTransaction, TypeInv, ControlOK, LoopOK, LoopOf
    <3> QED  BY <3>4, <3>5
  <2> QED  BY <2>1, <2>2, <2>3, <2>4 DEF TypeInv
<1> QED
  BY <1>1, <1>2, <1>3, <1>4, <1>5, <1>6, <1>7, <1>8, <1>9, <1>10 DEF StatementStep

(* bc_commit: it leaves the sessions' controls alone until it returns. *)
LEMMA TypeCommit ==
    ASSUME TypeInv, NEW s \in Session, CommitStep(s)
    PROVE  TypeInv'
<1>1. /\ statements[s] \in Seq(Statement) /\ batch[s] \in [Table -> Rows]
      /\ pos[s] \in Nat \ {0} /\ LoopOf(s)
      /\ AtStatement(s) => Current(s) \in Statement /\ pos[s] + 1 <= Len(statements[s]) + 1
  <2>1. /\ statements[s] \in Seq(Statement) /\ batch[s] \in [Table -> Rows]
        /\ pos[s] \in Nat \ {0} /\ LoopOf(s)
    BY DEF TypeInv, TxnOK, LoopOK
  <2>2. ASSUME AtStatement(s)
        PROVE  Current(s) \in Statement /\ pos[s] + 1 <= Len(statements[s]) + 1
    BY <2>1, <2>2 DEF AtStatement, Current
  <2> QED  BY <2>1, <2>2
<1>2. CASE CommitWrite(s)
  <2> DEFINE w == Current(s)
  <2>1. StoreOK' /\ ControlOK' /\ TxnOK'
    BY <1>2, Unchanged DEF CommitWrite
  <2>2. w.table \in Table /\ w.key \in Key /\ w.value \in Value \cup {NoValue}
    BY <1>1, <1>2 DEF CommitWrite, Statement
  <2>3. Emplace(batch[s][w.table], w.key, w.value) \in Rows
    BY <1>1, <2>2, SetRow DEF Emplace
  <2>4. LoopOK'
    BY <1>2, <2>2, <2>3 DEF CommitWrite, Advance, TypeInv, LoopOK
  <2>5. ASSUME NEW r \in Session PROVE LoopOf(r)'
    BY <1>1, <1>2 DEF CommitWrite, Advance, AtStatement, TypeInv, LoopOK, LoopOf, control, txn
  <2> QED  BY <2>1, <2>4, <2>5 DEF TypeInv
<1>3. ASSUME NEW t \in Table, phase[s] = "committing", CallPut(s, t)
      PROVE  TypeInv'
  <2>1. StoreOK' /\ ControlOK' /\ TxnOK'
    BY <1>3, Unchanged DEF CallPut
  <2>2. LoopOK'
    BY <1>3 DEF CallPut, KeysOf, TypeInv, LoopOK
  <2>3. ASSUME NEW r \in Session PROVE LoopOf(r)'
    BY <1>3 DEF CallPut, TypeInv, LoopOK, LoopOf, control, txn
  <2> QED  BY <2>1, <2>2, <2>3 DEF TypeInv
<1>4. CASE CommitRemovePut(s)
  <2>1. Current(s).table \in Table /\ phase[s] = "committing"
    BY <1>1, <1>4 DEF CommitRemovePut, AtStatement, Statement
  <2> QED  BY <1>3, <1>4, <2>1 DEF CommitRemovePut
<1>5. CASE CommitRemove(s)
  <2> DEFINE t == Current(s).table
             k == Current(s).key
  <2>1. t \in Table /\ k \in Key
    BY <1>1, <1>5 DEF CommitRemove, Statement
  <2>2. TxnOK'
    BY <1>5, <2>1, ChangedTypes DEF CommitRemove
  <2>3. ControlOK'
    BY <1>5, Unchanged DEF CommitRemove
  <2>4. [chain[t] EXCEPT ![k] = NoValue] \in Rows
    BY <2>1, SetRow DEF TypeInv, StoreOK
  <2>5. chain' = [chain EXCEPT ![t] = [chain[t] EXCEPT ![k] = NoValue]] \/ chain' = chain
    BY <1>5, <2>1 DEF CommitRemove, TypeInv, StoreOK
  <2>6. chain' \in [Table -> Rows]
    <3> HIDE DEF t, k
    <3> QED  BY <2>1, <2>4, <2>5 DEF TypeInv, StoreOK
  <2>7. StoreOK'
    BY <1>5, <2>6 DEF CommitRemove, TypeInv, StoreOK
  <2>8. LoopOK'
    BY <1>5, <2>1, NoRowsType DEF CommitRemove, ClearBatch, Advance, TypeInv, LoopOK
  <2>9. ASSUME NEW r \in Session PROVE LoopOf(r)'
    <3>1. unsent[s] = {}
      BY <1>1, <1>5 DEF CommitRemove, BatchSent, LoopOf
    <3> QED
      BY <1>1, <1>5, <3>1
         DEF CommitRemove, Advance, AtStatement, TypeInv, LoopOK, LoopOf, control
  <2> QED  BY <2>2, <2>3, <2>7, <2>8, <2>9 DEF TypeInv
<1>6. CASE CommitNoAdapter(s)
  <2>1. StoreOK'
    BY <1>6, Unchanged DEF CommitNoAdapter
  <2>2. ControlOK' /\ LoopOK'
    BY <1>6, CloseTransactionTypes DEF CommitNoAdapter
  <2>3. TxnOK'
    BY <1>6, NoKeysType DEF CommitNoAdapter, TypeInv, TxnOK
  <2>4. ASSUME NEW r \in Session PROVE LoopOf(r)'
    <3>1. Len(statements[r]) \in Nat /\ LoopOf(r)
      BY DEF TypeInv, TxnOK
    <3>2. CASE r = s
      BY <1>6, <3>1, <3>2
         DEF CommitNoAdapter, CloseTransaction, TypeInv, ControlOK, LoopOK, LoopOf
    <3>3. CASE r # s
      BY <1>6, <3>1, <3>3
         DEF CommitNoAdapter, CloseTransaction, TypeInv, ControlOK, LoopOK, LoopOf
    <3> QED  BY <3>2, <3>3
  <2> QED  BY <2>1, <2>2, <2>3, <2>4 DEF TypeInv
<1>7. ASSUME NEW t \in Table, NEW k \in Key, put(s, t, k)
      PROVE  TypeInv'
  <2>1. TxnOK'
    BY <1>7, ChangedTypes DEF put
  <2>2. ControlOK'
    BY <1>7, Unchanged DEF put
  <2>3. [chain[t] EXCEPT ![k] = batch[s][t][k]] \in Rows
    BY <1>1, SetRow DEF TypeInv, StoreOK, Rows
  <2>4. chain' = [chain EXCEPT ![t] = [chain[t] EXCEPT ![k] = batch[s][t][k]]]
        \/ chain' = chain
    BY <1>7 DEF put, TypeInv, StoreOK
  <2>5. StoreOK'
    BY <1>7, <2>3, <2>4 DEF put, TypeInv, StoreOK
  <2>6. LoopOK'
    BY <1>7 DEF put, TypeInv, LoopOK
  <2>7. ASSUME NEW r \in Session PROVE LoopOf(r)'
    BY <1>7 DEF put, TypeInv, LoopOK, LoopOf, control
  <2> QED  BY <2>1, <2>2, <2>5, <2>6, <2>7 DEF TypeInv
<1>8. ASSUME NEW t \in Table, CommitFlush(s, t)
      PROVE  TypeInv'
  BY <1>3, <1>8 DEF CommitFlush, AtFlush
<1>9. ASSUME NEW t \in Table, CommitFlushed(s, t)
      PROVE  TypeInv'
  <2>1. StoreOK' /\ ControlOK' /\ TxnOK'
    BY <1>9, Unchanged DEF CommitFlushed
  <2>2. LoopOK'
    BY <1>9, NoRowsType DEF CommitFlushed, ClearBatch, TypeInv, LoopOK
  <2>3. ASSUME NEW r \in Session PROVE LoopOf(r)'
    BY <1>9 DEF CommitFlushed, AtFlush, TypeInv, LoopOK, LoopOf, control, txn
  <2> QED  BY <2>1, <2>2, <2>3 DEF TypeInv
<1>10. ASSUME NEW t \in Table, CommitCrash(s, t)
      PROVE  TypeInv'
  BY <1>10, CrashTypes DEF CommitCrash
<1>11. CASE CommitDone(s)
  <2>1. StoreOK'
    BY <1>11, Unchanged DEF CommitDone
  <2>2. ControlOK' /\ LoopOK' /\ TxnOK'
    BY <1>11, CloseTransactionTypes, DiscardTypes DEF CommitDone
  <2>3. ASSUME NEW r \in Session PROVE LoopOf(r)'
    <3>1. CASE r = s
      BY <1>11, <2>2, <3>1, EmptyList
         DEF CommitDone, CloseTransaction, Discard, TypeInv, ControlOK, TxnOK, LoopOK, LoopOf
    <3>2. CASE r # s
      BY <1>11, <3>2
         DEF CommitDone, CloseTransaction, Discard, TypeInv, ControlOK, TxnOK, LoopOK, LoopOf
    <3> QED  BY <3>1, <3>2
  <2> QED  BY <2>1, <2>2, <2>3 DEF TypeInv
<1> QED
  BY <1>2, <1>4, <1>5, <1>6, <1>7, <1>8, <1>9, <1>10, <1>11 DEF CommitStep

(* The number of sessions that have locked a table is a number. *)
LEMMA LockersFinite ==
    ASSUME NEW t \in Table
    PROVE  Cardinality({s \in Session : t \in locked[s]}) \in Nat
<1>1. IsFiniteSet({s \in Session : t \in locked[s]})
  BY SessionAssumption, FS_Subset
<1> QED  BY <1>1, FS_CardinalityType

LEMMA TypeStep == TypeInv /\ [Next]_vars => TypeInv'
<1> SUFFICES ASSUME TypeInv, [Next]_vars
             PROVE  TypeInv'
  OBVIOUS
<1>1. ASSUME NEW t \in Table, open(t) \/ close(t)
      PROVE  TypeInv'
  <2>1. ControlOK' /\ TxnOK' /\ LoopOK'
    BY <1>1, Unchanged DEF open, close
  <2>2. StoreOK'
    <3>1. CASE open(t)
      BY <3>1, BoundsAssumption DEF open, TypeInv, StoreOK
    <3>2. CASE close(t)
      <4>1. instances[t] > 0
        BY <3>2, LockersFinite DEF close, UnusedInstance, TypeInv, StoreOK
      <4> QED  BY <3>2, <4>1, BoundsAssumption DEF close, TypeInv, StoreOK
    <3> QED  BY <1>1, <3>1, <3>2
  <2>3. \A r \in Session : LoopOf(r)'
    BY <1>1 DEF open, close, TypeInv, LoopOf, control, txn, loop
  <2> QED  BY <2>1, <2>2, <2>3 DEF TypeInv
<1>2. CASE UNCHANGED vars
  <2>1. \A r \in Session : LoopOf(r)'
    BY <1>2 DEF vars, TypeInv, LoopOf, control, txn, loop
  <2> QED  BY <1>2, <2>1, Unchanged DEF vars, TypeInv
<1> QED
  BY <1>1, <1>2, TypeStatement, TypeCommit, CrashTypes DEF Next, ServerCrash

THEOREM TypeInvariance == Spec => []TypeInv
BY TypeInit, TypeStep, PTL DEF Spec

(* The variables of the server, the sessions, their transactions and the    *)
(* locals of bc_commit have their types; i stays within the list.           *)
THEOREM TypeCorrect == Spec => []TypeOK
BY TypeInvariance, TypeInvImplies, PTL
-----------------------------------------------------------------------------
(* CacheIsReplay needs one more fact to be inductive: a statement that can  *)
(* execute has copied the tables it has locked.                             *)
ReplayOf(s) ==
    /\ \A n \in DOMAIN statements[s] : statements[s][n].table \in cached[s]
    /\ \A t \in cached[s] :
          IsReplay(statements[s], t, base[s][t], tableCache[s][t])
    /\ phase[s] \in {"idle", "locking", "executing"} => locked[s] \subseteq cached[s]

(* A new statement decides its key on its table; the other keys, and the    *)
(* other tables, are what they were.                                        *)
LEMMA ReplayAppend ==
    ASSUME NEW list \in Seq(Statement), NEW e \in Statement, NEW t \in Table,
           NEW before, NEW rows \in Rows, IsReplay(list, t, before, rows)
    PROVE  /\ e.table = t =>
                 IsReplay(Append(list, e), t, before, [rows EXCEPT ![e.key] = e.value])
           /\ e.table # t => IsReplay(Append(list, e), t, before, rows)
<1> DEFINE more == Append(list, e)
<1>1. /\ DOMAIN list = 1..Len(list) /\ Len(list) \in Nat
      /\ DOMAIN more = 1..(Len(list) + 1)
      /\ \A n \in 1..Len(list) : more[n] = list[n]
      /\ more[Len(list) + 1] = e
  BY AppendProperties
<1> HIDE DEF more
<1>2. ASSUME NEW k \in Key, e.table # t \/ e.key # k
      PROVE  On(more, t, k) = On(list, t, k)
  BY <1>1, <1>2 DEF On
<1>3. ASSUME NEW k \in Key
      PROVE  \A n \in On(list, t, k) : more[n] = list[n]
  BY <1>1 DEF On
<1>4. ASSUME e.table = t
      PROVE  IsReplay(more, t, before, [rows EXCEPT ![e.key] = e.value])
  <2> DEFINE new == [rows EXCEPT ![e.key] = e.value]
  <2>1. e.key \in Key /\ new[e.key] = e.value
        /\ \A k \in Key : k # e.key => new[k] = rows[k]
    BY DEF Statement, Rows
  <2> HIDE DEF new
  <2> SUFFICES ASSUME NEW k \in Key
               PROVE  \/ On(more, t, k) = {} /\ new[k] = before[k]
                      \/ \E n \in On(more, t, k) :
                            /\ \A m \in On(more, t, k) : m <= n
                            /\ new[k] = more[n].value
    BY DEF IsReplay, new
  <2>2. CASE k = e.key
    <3>1. Len(list) + 1 \in On(more, t, k)
      BY <1>1, <1>4, <2>2 DEF On
    <3>2. \A m \in On(more, t, k) : m <= Len(list) + 1
      BY <1>1 DEF On
    <3> QED  BY <1>1, <2>1, <2>2, <3>1, <3>2
  <2>3. CASE k # e.key
    BY <1>2, <1>3, <2>1, <2>3 DEF IsReplay
  <2> QED  BY <2>2, <2>3
<1>5. ASSUME e.table # t
      PROVE  IsReplay(more, t, before, rows)
  BY <1>2, <1>3, <1>5 DEF IsReplay
<1> QED  BY <1>4, <1>5 DEF more

(* A session that a step does not concern. *)
LEMMA SameReplay ==
    ASSUME NEW r \in Session, ReplayOf(r),
           statements'[r] = statements[r], tableCache'[r] = tableCache[r],
           cached'[r] = cached[r], base'[r] = base[r],
           phase'[r] = phase[r], locked'[r] = locked[r]
    PROVE  ReplayOf(r)'
BY DEF ReplayOf

(* A row operation that lists the statement e does to the copy what e says. *)
LEMMA ReplayExecute ==
    ASSUME TypeInv, \A r \in Session : ReplayOf(r),
           NEW s \in Session, NEW t \in Table, CanExecute(s, t),
           NEW list, NEW rows, Execute(s, t, list, rows),
           \A n \in DOMAIN list : list[n].table \in cached[s],
           IsReplay(list, t, base[s][t], rows),
           \A u \in cached[s] \ {t} :
              IsReplay(list, u, base[s][u], tableCache[s][u])
    PROVE  \A r \in Session : ReplayOf(r)'
<1> SUFFICES ASSUME NEW r \in Session PROVE ReplayOf(r)'
  OBVIOUS
<1>1. /\ statements' = [statements EXCEPT ![s] = list]
      /\ tableCache' = [tableCache EXCEPT ![s][t] = rows]
      /\ phase' = [phase EXCEPT ![s] = "executing"]
      /\ UNCHANGED <<cached, base, locked>>
  BY DEF Execute
<1>2. CASE r = s
  <2>1. /\ statements'[s] = list
        /\ tableCache'[s][t] = rows
        /\ \A u \in Table : u # t => tableCache'[s][u] = tableCache[s][u]
    BY <1>1 DEF TypeInv, TxnOK
  <2>2. cached[s] \subseteq Table /\ locked[s] \subseteq cached[s]
    BY DEF TypeInv, TxnOK, ReplayOf, CanExecute
  <2>3. ASSUME NEW u \in cached[s]
        PROVE  IsReplay(list, u, base[s][u], tableCache'[s][u])
    BY <2>1, <2>2, <2>3
  <2> QED  BY <1>1, <1>2, <2>1, <2>2, <2>3 DEF ReplayOf
<1>3. CASE r # s
  <2>1. /\ statements'[r] = statements[r] /\ tableCache'[r] = tableCache[r]
        /\ phase'[r] = phase[r]
    BY <1>1, <1>3 DEF TypeInv, TxnOK, ControlOK
  <2> QED  BY <1>1, <2>1, SameReplay
<1> QED  BY <1>2, <1>3

(* The same for a list grown by one statement. *)
LEMMA ReplayOne ==
    ASSUME NEW s \in Session, TypeInv, NEW t \in cached[s], NEW k \in Key,
           NEW list \in Seq(Statement), NEW rows \in Rows,
           NEW e \in Statement, e.table = t, e.key = k,
           \A n \in DOMAIN list : list[n].table \in cached[s],
           IsReplay(list, t, base[s][t], rows),
           \A u \in cached[s] \ {t} :
              IsReplay(list, u, base[s][u], tableCache[s][u])
    PROVE  /\ \A n \in DOMAIN Append(list, e) : Append(list, e)[n].table \in cached[s]
           /\ IsReplay(Append(list, e), t, base[s][t], [rows EXCEPT ![k] = e.value])
           /\ \A u \in cached[s] \ {t} :
                 IsReplay(Append(list, e), u, base[s][u], tableCache[s][u])
<1>1. cached[s] \subseteq Table /\ \A u \in Table : tableCache[s][u] \in Rows
  BY DEF TypeInv, TxnOK
<1>2. \A n \in DOMAIN Append(list, e) : Append(list, e)[n].table \in cached[s]
  <2>1. /\ DOMAIN list = 1..Len(list) /\ Len(list) \in Nat
        /\ DOMAIN Append(list, e) = 1..(Len(list) + 1)
        /\ \A n \in 1..Len(list) : Append(list, e)[n] = list[n]
        /\ Append(list, e)[Len(list) + 1] = e
    BY AppendProperties
  <2> QED  BY <2>1
<1>3. IsReplay(Append(list, e), t, base[s][t], [rows EXCEPT ![k] = e.value])
  BY <1>1, ReplayAppend
<1>4. ASSUME NEW u \in cached[s] \ {t}
      PROVE  IsReplay(Append(list, e), u, base[s][u], tableCache[s][u])
  BY <1>1, ReplayAppend
<1> QED  BY <1>2, <1>3, <1>4

(* A transaction that is gone: nothing cached, nothing listed. *)
LEMMA ReplayNothing ==
    ASSUME NEW r \in Session, statements[r] = <<>>, cached[r] = {}, locked[r] = {}
    PROVE  ReplayOf(r)
BY DEF ReplayOf

LEMMA ReplayCrash == Crash => \A r \in Session : ReplayOf(r)'
BY DEF Crash, ReplayOf

LEMMA ReplayDiscard ==
    ASSUME TypeInv, \A r \in Session : ReplayOf(r), NEW s \in Session, Discard(s),
           \A r \in Session : r # s => phase'[r] = phase[r] /\ locked'[r] = locked[r],
           locked'[s] = {}
    PROVE  \A r \in Session : ReplayOf(r)'
<1> SUFFICES ASSUME NEW r \in Session PROVE ReplayOf(r)'
  OBVIOUS
<1>1. CASE r = s
  <2>1. statements'[s] = <<>> /\ cached'[s] = {}
    BY DEF Discard, TypeInv, TxnOK
  <2> QED  BY <1>1, <2>1 DEF ReplayOf
<1>2. CASE r # s
  <2>1. /\ statements'[r] = statements[r] /\ tableCache'[r] = tableCache[r]
        /\ cached'[r] = cached[r] /\ base'[r] = base[r]
    BY <1>2 DEF Discard, TypeInv, TxnOK
  <2> QED  BY <1>2, <2>1, SameReplay
<1> QED  BY <1>1, <1>2

LEMMA ReplayInit == Init => \A r \in Session : ReplayOf(r)
BY ReplayNothing DEF Init

LEMMA ReplayStatement ==
    ASSUME TypeInv, \A r \in Session : ReplayOf(r),
           NEW s \in Session, StatementStep(s)
    PROVE  \A r \in Session : ReplayOf(r)'
<1>1. /\ statements[s] \in Seq(Statement) /\ cached[s] \subseteq Table
      /\ \A t \in Table : tableCache[s][t] \in Rows
      /\ ReplayOf(s)
  BY DEF TypeInv, TxnOK
<1>2. CASE StartTransaction(s)
  BY <1>2, SameReplay DEF StartTransaction, txn
<1>3. ASSUME NEW t \in Table, external_lock(s, t)
      PROVE  \A r \in Session : ReplayOf(r)'
  <2> SUFFICES ASSUME NEW r \in Session PROVE ReplayOf(r)'
    OBVIOUS
  <2>1. CASE r # s
    <3>1. phase'[r] = phase[r] /\ locked'[r] = locked[r]
      BY <1>3, <2>1 DEF external_lock, TypeInv, ControlOK
    <3>2. /\ statements'[r] = statements[r] /\ tableCache'[r] = tableCache[r]
          /\ cached'[r] = cached[r] /\ base'[r] = base[r]
      BY <1>3, <2>1 DEF external_lock, CacheTable, TypeInv, TxnOK, txn
    <3> QED  BY <3>1, <3>2, SameReplay
  <2>2. locked[s] \subseteq cached[s]
    BY <1>1, <1>3 DEF external_lock, ReplayOf
  <2>3. locked'[s] = locked[s] \cup {t}
    BY <1>3 DEF external_lock, TypeInv, ControlOK
  <2>4. CASE r = s /\ UNCHANGED txn /\ t \in cached[s]
    <3>1. locked'[s] \subseteq cached[s]
      BY <2>2, <2>3, <2>4
    <3> QED  BY <1>1, <2>4, <3>1 DEF txn, ReplayOf
  <2>5. CASE r = s /\ UNCHANGED txn /\ phase' = [phase EXCEPT ![s] = "failed"]
    <3>1. phase'[s] = "failed"
      BY <2>5 DEF TypeInv, ControlOK
    <3> QED  BY <1>1, <2>5, <3>1 DEF txn, ReplayOf
  <2>6. ASSUME r = s, t \notin cached[s], NEW rows, CacheTable(s, t, rows)
        PROVE  ReplayOf(r)'
    <3>1. /\ statements' = statements /\ cached'[s] = cached[s] \cup {t}
          /\ tableCache'[s][t] = rows /\ base'[s][t] = rows
          /\ \A u \in Table : u # t => tableCache'[s][u] = tableCache[s][u]
                                       /\ base'[s][u] = base[s][u]
      BY <2>6 DEF CacheTable, TypeInv, TxnOK
    <3>2. \A k \in Key : On(statements[s], t, k) = {}
      BY <1>1, <2>6 DEF ReplayOf, On
    <3>3. IsReplay(statements[s], t, rows, rows)
      BY <3>2 DEF IsReplay
    <3>4. \A u \in cached[s] \cup {t} :
             IsReplay(statements[s], u, base'[s][u], tableCache'[s][u])
      BY <1>1, <2>6, <3>1, <3>3 DEF ReplayOf
    <3> QED  BY <1>1, <2>2, <2>3, <2>6, <3>1, <3>4 DEF ReplayOf
  <2> QED  BY <1>3, <2>1, <2>4, <2>5, <2>6 DEF external_lock
<1>4. ASSUME NEW t \in Table, CanExecute(s, t)
      PROVE  /\ t \in cached[s]
             /\ \A n \in DOMAIN statements[s] : statements[s][n].table \in cached[s]
             /\ IsReplay(statements[s], t, base[s][t], tableCache[s][t])
             /\ \A u \in cached[s] \ {t} :
                   IsReplay(statements[s], u, base[s][u], tableCache[s][u])
  BY <1>1, <1>4 DEF CanExecute, ReplayOf
<1>5. ASSUME NEW t \in Table, NEW k \in Key, NEW v \in Value,
             write_row(s, t, k, v) \/ update_row(s, t, k, v)
      PROVE  \A r \in Session : ReplayOf(r)'
  <2> DEFINE e == Write(t, k, v)
             list == Append(statements[s], e)
             rows == [tableCache[s][t] EXCEPT ![k] = v]
  <2>1. CanExecute(s, t) /\ Execute(s, t, list, rows)
    BY <1>5 DEF write_row, update_row
  <2>2. e \in Statement /\ e.table = t /\ e.key = k /\ e.value = v
    BY StatementTypes DEF Write
  <2> HIDE DEF e
  <2>3. /\ \A n \in DOMAIN list : list[n].table \in cached[s]
        /\ IsReplay(list, t, base[s][t], [tableCache[s][t] EXCEPT ![k] = e.value])
        /\ \A u \in cached[s] \ {t} :
              IsReplay(list, u, base[s][u], tableCache[s][u])
    BY <1>1, <1>4, <2>1, <2>2, ReplayOne
  <2>4. IsReplay(list, t, base[s][t], rows)
    BY <2>2, <2>3
  <2> HIDE DEF list, rows
  <2> QED  BY <2>1, <2>3, <2>4, ReplayExecute
<1>6. ASSUME NEW t \in Table, NEW k \in Key, delete_row(s, t, k)
      PROVE  \A r \in Session : ReplayOf(r)'
  <2> DEFINE e == Removal(t, k)
             list == Append(statements[s], e)
             rows == [tableCache[s][t] EXCEPT ![k] = NoValue]
  <2>1. CanExecute(s, t) /\ Execute(s, t, list, rows)
    BY <1>6 DEF delete_row
  <2>2. e \in Statement /\ e.table = t /\ e.key = k /\ e.value = NoValue
    BY StatementTypes DEF Removal
  <2> HIDE DEF e
  <2>3. /\ \A n \in DOMAIN list : list[n].table \in cached[s]
        /\ IsReplay(list, t, base[s][t], [tableCache[s][t] EXCEPT ![k] = e.value])
        /\ \A u \in cached[s] \ {t} :
              IsReplay(list, u, base[s][u], tableCache[s][u])
    BY <1>1, <1>4, <2>1, <2>2, ReplayOne
  <2>4. IsReplay(list, t, base[s][t], rows)
    BY <2>2, <2>3
  <2> HIDE DEF list, rows
  <2> QED  BY <2>1, <2>3, <2>4, ReplayExecute
<1>7. ASSUME NEW t \in Table, NEW k \in Key, NEW new \in Key, NEW v \in Value,
             update_row_key(s, t, k, new, v)
      PROVE  \A r \in Session : ReplayOf(r)'
  <2> DEFINE e == Removal(t, k)
             w == Write(t, new, v)
             removed == [tableCache[s][t] EXCEPT ![k] = NoValue]
             list == Append(statements[s], e)
             list2 == Append(list, w)
             rows2 == [removed EXCEPT ![new] = v]
  <2>1. CanExecute(s, t)
        /\ (Execute(s, t, list, removed) \/ Execute(s, t, list2, rows2))
    BY <1>7 DEF update_row_key
  <2>2. /\ e \in Statement /\ e.table = t /\ e.key = k /\ e.value = NoValue
        /\ w \in Statement /\ w.table = t /\ w.key = new /\ w.value = v
    BY StatementTypes DEF Removal, Write
  <2> HIDE DEF e, w
  <2>3. /\ \A n \in DOMAIN list : list[n].table \in cached[s]
        /\ IsReplay(list, t, base[s][t], [tableCache[s][t] EXCEPT ![k] = e.value])
        /\ \A u \in cached[s] \ {t} :
              IsReplay(list, u, base[s][u], tableCache[s][u])
    BY <1>1, <1>4, <2>1, <2>2, ReplayOne
  <2>4. IsReplay(list, t, base[s][t], removed)
    BY <2>2, <2>3
  <2>5. list \in Seq(Statement) /\ removed \in Rows
    BY <1>1, <2>2, AppendTypes, SetRow
  <2> HIDE DEF list, removed
  <2>6. /\ \A n \in DOMAIN list2 : list2[n].table \in cached[s]
        /\ IsReplay(list2, t, base[s][t], [removed EXCEPT ![new] = w.value])
        /\ \A u \in cached[s] \ {t} :
              IsReplay(list2, u, base[s][u], tableCache[s][u])
    BY <1>4, <2>1, <2>2, <2>3, <2>4, <2>5, ReplayOne
  <2>7. IsReplay(list2, t, base[s][t], rows2)
    BY <2>2, <2>6
  <2> HIDE DEF list2, rows2
  <2>8. CASE Execute(s, t, list, removed)
    BY <2>1, <2>3, <2>4, <2>8, ReplayExecute
  <2>9. CASE Execute(s, t, list2, rows2)
    BY <2>1, <2>6, <2>7, <2>9, ReplayExecute
  <2> QED  BY <2>1, <2>8, <2>9
<1>8. ASSUME UNCHANGED txn,
             \A r \in Session : r # s => phase'[r] = phase[r] /\ locked'[r] = locked[r],
             phase'[s] \in {"failed", "committing"} \/ locked'[s] = {}
      PROVE  \A r \in Session : ReplayOf(r)'
  <2> SUFFICES ASSUME NEW r \in Session PROVE ReplayOf(r)'
    OBVIOUS
  <2>1. CASE r = s
    BY <1>1, <1>8, <2>1 DEF txn, ReplayOf
  <2>2. CASE r # s
    BY <1>8, <2>2, SameReplay DEF txn
  <2> QED  BY <2>1, <2>2
<1>9. ASSUME NEW t \in Table, NEW k \in Key, write_row_duplicate(s, t, k)
      PROVE  \A r \in Session : ReplayOf(r)'
  BY <1>8, <1>9 DEF write_row_duplicate, TypeInv, ControlOK
<1>10. CASE EndStatement(s)
  BY <1>8, <1>10 DEF EndStatement, StartCommit, CloseStatement, TypeInv, ControlOK
<1>11. CASE Commit(s)
  BY <1>8, <1>11 DEF Commit, StartCommit, CloseTransaction, TypeInv, ControlOK
<1>12. ASSUME Discard(s),
              \A r \in Session : r # s => phase'[r] = phase[r] /\ locked'[r] = locked[r],
              locked'[s] = {}
       PROVE  \A r \in Session : ReplayOf(r)'
  BY <1>12, ReplayDiscard
<1>13. CASE RollbackStatement(s)
  <2>1. /\ \A r \in Session : r # s => phase'[r] = phase[r] /\ locked'[r] = locked[r]
        /\ locked'[s] = {}
    BY <1>13 DEF RollbackStatement, CloseStatement, TypeInv, ControlOK
  <2> QED  BY <1>8, <1>12, <1>13, <2>1 DEF RollbackStatement
<1>14. CASE Rollback(s)
  <2>1. /\ \A r \in Session : r # s => phase'[r] = phase[r] /\ locked'[r] = locked[r]
        /\ locked'[s] = {}
    BY <1>14 DEF Rollback, CloseTransaction, TypeInv, ControlOK
  <2> QED  BY <1>8, <1>12, <1>14, <2>1 DEF Rollback
<1> QED
  BY <1>2, <1>3, <1>5, <1>6, <1>7, <1>9, <1>10, <1>11, <1>13, <1>14 DEF StatementStep

LEMMA ReplayCommit ==
    ASSUME TypeInv, \A r \in Session : ReplayOf(r),
           NEW s \in Session, CommitStep(s)
    PROVE  \A r \in Session : ReplayOf(r)'
<1>1. ASSUME UNCHANGED <<statements, cached, tableCache, base, control>>
      PROVE  \A r \in Session : ReplayOf(r)'
  BY <1>1, SameReplay DEF control
<1>2. CASE CommitNoAdapter(s)
  <2> SUFFICES ASSUME NEW r \in Session PROVE ReplayOf(r)'
    OBVIOUS
  <2>1. CASE r = s
    <3>1. locked'[s] = {} /\ ReplayOf(s)
      BY <1>2 DEF CommitNoAdapter, CloseTransaction, TypeInv, ControlOK
    <3> QED  BY <1>2, <2>1, <3>1 DEF CommitNoAdapter, ReplayOf
  <2>2. CASE r # s
    <3>1. phase'[r] = phase[r] /\ locked'[r] = locked[r]
      BY <1>2, <2>2 DEF CommitNoAdapter, CloseTransaction, TypeInv, ControlOK
    <3> QED  BY <1>2, <3>1, SameReplay DEF CommitNoAdapter
  <2> QED  BY <2>1, <2>2
<1>3. CASE CommitDone(s)
  <2>1. /\ \A r \in Session : r # s => phase'[r] = phase[r] /\ locked'[r] = locked[r]
        /\ locked'[s] = {}
    BY <1>3 DEF CommitDone, CloseTransaction, TypeInv, ControlOK
  <2> QED  BY <1>3, <2>1, ReplayDiscard DEF CommitDone
<1>4. ASSUME NEW t \in Table, CommitCrash(s, t)
      PROVE  \A r \in Session : ReplayOf(r)'
  BY <1>4, ReplayCrash DEF CommitCrash
<1> QED
  BY <1>1, <1>2, <1>3, <1>4
     DEF CommitStep, CommitWrite, CommitRemovePut, CommitFlush, CallPut,
         CommitRemove, put, CommitFlushed, txn

LEMMA ReplayStep ==
    TypeInv /\ (\A r \in Session : ReplayOf(r)) /\ [Next]_vars
        => (\A r \in Session : ReplayOf(r))'
<1> SUFFICES ASSUME TypeInv, \A r \in Session : ReplayOf(r), [Next]_vars
             PROVE  \A r \in Session : ReplayOf(r)'
  OBVIOUS
<1>1. CASE UNCHANGED <<control, txn>>
  BY <1>1, SameReplay DEF control, txn
<1> QED
  BY <1>1, ReplayStatement, ReplayCommit, ReplayCrash
     DEF Next, ServerCrash, open, close, vars

(* What a session reads in its table cache is its list of statements        *)
(* applied to the rows it copied, for any number of sessions and tables and *)
(* lists of any length, also after failed statements and failed commits.    *)
THEOREM CacheReplays == Spec => []CacheIsReplay
<1>1. Spec => [](\A r \in Session : ReplayOf(r))
  BY ReplayInit, ReplayStep, TypeInvariance, PTL DEF Spec
<1>2. (\A r \in Session : ReplayOf(r)) => CacheIsReplay
  BY DEF ReplayOf, CacheIsReplay
<1> QED  BY <1>1, <1>2, PTL
-----------------------------------------------------------------------------
(* BufferedIsRegistered is inductive with one more fact: a session between  *)
(* two statements is in no statement's scope.                               *)
RegisteredOf(s) ==
    /\ phase[s] = "idle" => "stmt" \notin registered[s]
    /\ cached[s] # {} /\ ~failed[s] =>
          (IF mode[s] = "transaction" THEN "trx" ELSE "stmt") \in registered[s]

Status(s) == <<mode[s], registered[s], phase[s], cached[s], failed[s]>>

LEMMA SameStatus ==
    ASSUME NEW r \in Session, RegisteredOf(r), UNCHANGED Status(r)
    PROVE  RegisteredOf(r)'
BY DEF RegisteredOf, Status

(* A session's statements leave the status of the others. *)
LEMMA StatusStatement ==
    ASSUME TypeInv, NEW s \in Session, StatementStep(s),
           NEW r \in Session, r # s
    PROVE  UNCHANGED Status(r)
<1> USE DEF TypeInv, ControlOK, TxnOK, control, txn, Status
<1>1. CASE StartTransaction(s)
  BY <1>1 DEF StartTransaction
<1>2. ASSUME NEW t \in Table, external_lock(s, t)
      PROVE  UNCHANGED Status(r)
  BY <1>2 DEF external_lock, CacheTable
<1>3. ASSUME NEW t \in Table, NEW list, NEW rows, Execute(s, t, list, rows)
      PROVE  UNCHANGED Status(r)
  BY <1>3 DEF Execute
<1>4. ASSUME NEW t \in Table, NEW k \in Key, write_row_duplicate(s, t, k)
      PROVE  UNCHANGED Status(r)
  BY <1>4 DEF write_row_duplicate
<1>5. CASE EndStatement(s)
  BY <1>5 DEF EndStatement, StartCommit, CloseStatement
<1>6. CASE RollbackStatement(s)
  BY <1>6 DEF RollbackStatement, CloseStatement, Discard
<1>7. CASE Commit(s)
  BY <1>7 DEF Commit, StartCommit, CloseTransaction
<1>8. CASE Rollback(s)
  BY <1>8 DEF Rollback, CloseTransaction, Discard
<1> QED
  BY <1>1, <1>2, <1>3, <1>4, <1>5, <1>6, <1>7, <1>8
     DEF StatementStep, write_row, update_row, update_row_key, delete_row

LEMMA RegisteredStatement ==
    ASSUME TypeInv, NEW s \in Session, RegisteredOf(s), StatementStep(s)
    PROVE  RegisteredOf(s)'
<1> USE DEF TypeInv, ControlOK, TxnOK, control, txn, RegisteredOf
<1>1. CASE StartTransaction(s)
  BY <1>1 DEF StartTransaction
<1>2. ASSUME NEW t \in Table, external_lock(s, t)
      PROVE  RegisteredOf(s)'
  <2>1. phase'[s] # "idle" /\ mode' = mode
    BY <1>2 DEF external_lock
  <2>2. CASE UNCHANGED <<registered, txn>>
    BY <2>1, <2>2
  <2>3. ASSUME NEW rows, CacheTable(s, t, rows) PROVE RegisteredOf(s)'
    BY <2>1, <2>3 DEF CacheTable, Scopes
  <2> QED  BY <1>2, <2>2, <2>3 DEF external_lock
<1>3. ASSUME NEW t \in Table, NEW list, NEW rows, Execute(s, t, list, rows)
      PROVE  RegisteredOf(s)'
  BY <1>3 DEF Execute
<1>4. ASSUME NEW t \in Table, NEW k \in Key, write_row_duplicate(s, t, k)
      PROVE  RegisteredOf(s)'
  BY <1>4 DEF write_row_duplicate
<1>5. CASE EndStatement(s)
  <2>1. CASE StartCommit(s)
    BY <1>5, <2>1 DEF EndStatement, StartCommit
  <2>2. CASE ~EndsWithStatement(s) /\ CloseStatement(s)
    BY <1>5, <2>2 DEF EndStatement, EndsWithStatement, CloseStatement
  <2> QED  BY <1>5, <2>1, <2>2 DEF EndStatement
<1>6. CASE RollbackStatement(s)
  <2>1. CASE Discard(s)
    BY <1>6, <2>1 DEF RollbackStatement, CloseStatement, Discard
  <2>2. CASE ~EndsWithStatement(s) /\ UNCHANGED txn
    BY <1>6, <2>2 DEF RollbackStatement, EndsWithStatement, CloseStatement
  <2> QED  BY <1>6, <2>1, <2>2 DEF RollbackStatement
<1>7. CASE Commit(s)
  BY <1>7 DEF Commit, StartCommit, CloseTransaction
<1>8. CASE Rollback(s)
  BY <1>8 DEF Rollback, CloseTransaction, Discard
<1> QED
  BY <1>1, <1>2, <1>3, <1>4, <1>5, <1>6, <1>7, <1>8
     DEF StatementStep, write_row, update_row, update_row_key, delete_row

LEMMA RegisteredCommit ==
    ASSUME TypeInv, \A r \in Session : RegisteredOf(r),
           NEW s \in Session, CommitStep(s)
    PROVE  \A r \in Session : RegisteredOf(r)'
<1> SUFFICES ASSUME NEW r \in Session PROVE RegisteredOf(r)'
  OBVIOUS
<1>1. CASE UNCHANGED <<control, cached, failed>>
  BY <1>1, SameStatus DEF Status, control
<1>2. ASSUME CloseTransaction(s), cached'[s] = {} \/ failed'[s],
             \A q \in Session : q # s => /\ cached'[q] = cached[q]
                                         /\ failed'[q] = failed[q]
      PROVE  RegisteredOf(r)'
  <2>1. CASE r = s
    BY <1>2, <2>1 DEF CloseTransaction, TypeInv, ControlOK, RegisteredOf
  <2>2. CASE r # s
    BY <1>2, <2>2, SameStatus DEF CloseTransaction, TypeInv, ControlOK, Status
  <2> QED  BY <2>1, <2>2
<1>3. CASE CommitNoAdapter(s)
  BY <1>2, <1>3 DEF CommitNoAdapter, TypeInv, TxnOK
<1>4. CASE CommitDone(s)
  BY <1>2, <1>4 DEF CommitDone, Discard, TypeInv, TxnOK
<1>5. ASSUME NEW t \in Table, CommitCrash(s, t)
      PROVE  RegisteredOf(r)'
  BY <1>5 DEF CommitCrash, Crash, RegisteredOf
<1> QED
  BY <1>1, <1>3, <1>4, <1>5
     DEF CommitStep, CommitWrite, CommitRemovePut, CommitFlush, CallPut,
         CommitRemove, put, CommitFlushed, txn

LEMMA RegisteredStep ==
    TypeInv /\ (\A r \in Session : RegisteredOf(r)) /\ [Next]_vars
        => (\A r \in Session : RegisteredOf(r))'
<1> SUFFICES ASSUME TypeInv, \A r \in Session : RegisteredOf(r), [Next]_vars,
                    NEW r \in Session
             PROVE  RegisteredOf(r)'
  OBVIOUS
<1>1. CASE UNCHANGED <<control, txn>>
  BY <1>1, SameStatus DEF control, txn, Status
<1>2. ASSUME NEW s \in Session, StatementStep(s) PROVE RegisteredOf(r)'
  BY <1>2, RegisteredStatement, StatusStatement, SameStatus
<1>3. CASE Crash
  BY <1>3 DEF Crash, RegisteredOf
<1> QED
  BY <1>1, <1>2, <1>3, RegisteredCommit DEF Next, ServerCrash, open, close, vars

(* Whatever a session has copied or buffered, the server will call the      *)
(* engine at the end of its scope, so that it is committed or discarded;    *)
(* the only exception is a transaction whose bc_commit has returned 1.      *)
THEOREM BufferedRegistered == Spec => []BufferedIsRegistered
<1>1. Init => \A r \in Session : RegisteredOf(r)
  BY DEF Init, RegisteredOf
<1>2. (\A r \in Session : RegisteredOf(r)) => BufferedIsRegistered
  BY DEF RegisteredOf, BufferedIsRegistered
<1> QED  BY <1>1, <1>2, RegisteredStep, TypeInvariance, PTL DEF Spec
-----------------------------------------------------------------------------
(* BatchIsTail is inductive once every listed write is known to have a      *)
(* value: a key without one would not show in the batch.                    *)
ValuesOf(s) ==
    \A n \in DOMAIN statements[s] :
        statements[s][n].type = "WRITE" => statements[s][n].value \in Value

IsTail(s, t) ==
    /\ KeysOf(batch[s][t]) = {statements[s][n].key : n \in Unflushed(s, t)}
    /\ \A k \in KeysOf(batch[s][t]) : \E n \in Unflushed(s, t) :
          statements[s][n].key = k /\ statements[s][n].value = batch[s][t][k]

TailOf(s) ==
    /\ ValuesOf(s)
    /\ phase[s] = "committing" =>
          \A t \in Table :
             \/ pos[s] > Len(statements[s]) /\ batch[s][t] = NoRows
             \/ IsTail(s, t)

Progress(s) == <<statements[s], phase[s], pos[s], batch[s]>>

LEMMA SameProgress ==
    ASSUME NEW r \in Session, TailOf(r), UNCHANGED Progress(r)
    PROVE  TailOf(r)'
BY DEF TailOf, ValuesOf, IsTail, KeysOf, Unflushed, Progress

(* Before its first turn the loop has passed nothing and batched nothing.   *)
LEMMA TailAtStart ==
    ASSUME NEW r \in Session, ValuesOf(r)',
           phase'[r] = "committing" => pos'[r] = 1 /\ batch'[r] = NoTables
    PROVE  TailOf(r)'
<1> SUFFICES ASSUME phase'[r] = "committing", NEW t \in Table
             PROVE  IsTail(r, t)'
  BY DEF TailOf
<1>1. Unflushed(r, t)' = {}
  BY DEF Unflushed
<1>2. KeysOf(batch'[r][t]) = {}
  BY DEF KeysOf, NoTables, NoRows
<1> QED  BY <1>1, <1>2 DEF IsTail

(* A step of a session leaves the commits of the others alone. *)
LEMMA ProgressStatement ==
    ASSUME TypeInv, NEW s \in Session, StatementStep(s),
           NEW r \in Session, r # s
    PROVE  UNCHANGED Progress(r)
<1> USE DEF TypeInv, ControlOK, TxnOK, LoopOK, control, txn, loop, Progress
<1>1. CASE StartTransaction(s)
  BY <1>1 DEF StartTransaction
<1>2. ASSUME NEW t \in Table, external_lock(s, t)
      PROVE  UNCHANGED Progress(r)
  BY <1>2 DEF external_lock, CacheTable
<1>3. ASSUME NEW t \in Table, NEW list, NEW rows, Execute(s, t, list, rows)
      PROVE  UNCHANGED Progress(r)
  BY <1>3 DEF Execute
<1>4. ASSUME NEW t \in Table, NEW k \in Key, write_row_duplicate(s, t, k)
      PROVE  UNCHANGED Progress(r)
  BY <1>4 DEF write_row_duplicate
<1>5. CASE EndStatement(s)
  BY <1>5 DEF EndStatement, StartCommit, CloseStatement
<1>6. CASE RollbackStatement(s)
  BY <1>6 DEF RollbackStatement, CloseStatement, Discard
<1>7. CASE Commit(s)
  BY <1>7 DEF Commit, StartCommit, CloseTransaction
<1>8. CASE Rollback(s)
  BY <1>8 DEF Rollback, CloseTransaction, Discard
<1> QED
  BY <1>1, <1>2, <1>3, <1>4, <1>5, <1>6, <1>7, <1>8
     DEF StatementStep, write_row, update_row, update_row_key, delete_row

LEMMA ValuesAppend ==
    ASSUME NEW list \in Seq(Statement), NEW e \in Statement,
           \A n \in DOMAIN list : list[n].type = "WRITE" => list[n].value \in Value,
           e.type = "WRITE" => e.value \in Value
    PROVE  \A n \in DOMAIN Append(list, e) :
              Append(list, e)[n].type = "WRITE" => Append(list, e)[n].value \in Value
<1>1. \A n \in DOMAIN Append(list, e) :
         \/ n \in DOMAIN list /\ Append(list, e)[n] = list[n]
         \/ Append(list, e)[n] = e
  BY AppendProperties
<1> QED  BY <1>1

(* A statement appends writes with a value, or removals. *)
LEMMA ValuesStatement ==
    ASSUME TypeInv, NEW s \in Session, ValuesOf(s), StatementStep(s)
    PROVE  ValuesOf(s)'
<1>1. statements[s] \in Seq(Statement)
  BY DEF TypeInv, TxnOK
<1>2. ASSUME UNCHANGED statements PROVE ValuesOf(s)'
  BY <1>2 DEF ValuesOf
<1>3. ASSUME Discard(s) PROVE ValuesOf(s)'
  <2>1. statements'[s] = <<>>
    BY <1>3 DEF Discard, TypeInv, TxnOK
  <2> QED  BY <2>1 DEF ValuesOf
<1>4. ASSUME NEW t \in Table, NEW list, NEW rows, Execute(s, t, list, rows),
             \A n \in DOMAIN list : list[n].type = "WRITE" => list[n].value \in Value
      PROVE  ValuesOf(s)'
  <2>1. statements'[s] = list
    BY <1>4 DEF Execute, TypeInv, TxnOK
  <2> QED  BY <1>4, <2>1 DEF ValuesOf
<1>5. ASSUME NEW t \in Table, NEW k \in Key, NEW v \in Value,
             write_row(s, t, k, v) \/ update_row(s, t, k, v)
      PROVE  ValuesOf(s)'
  <2> DEFINE e == Write(t, k, v)
             list == Append(statements[s], e)
  <2>1. \E rows : Execute(s, t, list, rows)
    BY <1>5 DEF write_row, update_row
  <2>2. e \in Statement /\ e.value \in Value
    BY StatementTypes DEF Write
  <2> HIDE DEF e
  <2>3. \A n \in DOMAIN list : list[n].type = "WRITE" => list[n].value \in Value
    BY <1>1, <2>2, ValuesAppend DEF ValuesOf
  <2> HIDE DEF list
  <2> QED  BY <1>4, <2>1, <2>3
<1>6. ASSUME NEW t \in Table, NEW k \in Key
      PROVE  LET list == Append(statements[s], Removal(t, k))
             IN  /\ list \in Seq(Statement)
                 /\ \A n \in DOMAIN list :
                       list[n].type = "WRITE" => list[n].value \in Value
  <2> DEFINE e == Removal(t, k)
  <2>1. e \in Statement /\ e.type # "WRITE"
    BY StatementTypes DEF Removal
  <2> HIDE DEF e
  <2>2. /\ Append(statements[s], e) \in Seq(Statement)
        /\ \A n \in DOMAIN Append(statements[s], e) :
              Append(statements[s], e)[n].type = "WRITE"
                 => Append(statements[s], e)[n].value \in Value
    BY <1>1, <2>1, AppendTypes, ValuesAppend DEF ValuesOf
  <2> QED  BY <2>2 DEF e
<1>7. ASSUME NEW t \in Table, NEW k \in Key, delete_row(s, t, k)
      PROVE  ValuesOf(s)'
  BY <1>4, <1>6, <1>7 DEF delete_row
<1>8. ASSUME NEW t \in Table, NEW k \in Key, NEW new \in Key, NEW v \in Value,
             update_row_key(s, t, k, new, v)
      PROVE  ValuesOf(s)'
  <2> DEFINE list == Append(statements[s], Removal(t, k))
             e == Write(t, new, v)
             list2 == Append(list, e)
  <2>1. (\E rows : Execute(s, t, list, rows)) \/ (\E rows : Execute(s, t, list2, rows))
    BY <1>8 DEF update_row_key
  <2>2. list \in Seq(Statement)
        /\ \A n \in DOMAIN list : list[n].type = "WRITE" => list[n].value \in Value
    BY <1>6
  <2>3. e \in Statement /\ e.value \in Value
    BY StatementTypes DEF Write
  <2> HIDE DEF list, e
  <2>4. \A n \in DOMAIN list2 : list2[n].type = "WRITE" => list2[n].value \in Value
    BY <2>2, <2>3, ValuesAppend
  <2> HIDE DEF list2
  <2> QED  BY <1>4, <2>1, <2>2, <2>4
<1> QED
  BY <1>2, <1>3, <1>5, <1>7, <1>8
     DEF StatementStep, StartTransaction, external_lock, CacheTable,
         write_row_duplicate, EndStatement, RollbackStatement, Commit, Rollback, txn

LEMMA TailStatement ==
    ASSUME TypeInv, NEW s \in Session, TailOf(s), StatementStep(s)
    PROVE  TailOf(s)'
<1>1. ValuesOf(s)'
  BY ValuesStatement DEF TailOf
<1>2. phase[s] # "committing" /\ pos[s] = 1 /\ batch[s] = NoTables
  BY DEF StatementStep, StartTransaction, external_lock, write_row, update_row,
         update_row_key, delete_row, CanExecute, write_row_duplicate,
         EndStatement, RollbackStatement, Commit, Rollback, TypeInv, LoopOf
<1>3. phase'[s] = "committing" => UNCHANGED loop
  BY DEF StatementStep, StartTransaction, external_lock, write_row, update_row,
         update_row_key, delete_row, Execute, write_row_duplicate,
         EndStatement, RollbackStatement, Commit, Rollback, CloseTransaction,
         TypeInv, ControlOK
<1> QED  BY <1>1, <1>2, <1>3, TailAtStart DEF loop

LEMMA TailBecomes ==
    ASSUME NEW r \in Session, NEW t \in Table, NEW rows, NEW U,
           statements' = statements, batch'[r][t] = rows, Unflushed(r, t)' = U,
           KeysOf(rows) = {statements[r][n].key : n \in U},
           \A k \in KeysOf(rows) : \E n \in U :
              statements[r][n].key = k /\ statements[r][n].value = rows[k]
    PROVE  IsTail(r, t)'
<1>1. KeysOf(batch[r][t])' = KeysOf(rows)
  BY DEF KeysOf
<1> QED  BY <1>1 DEF IsTail

(* A turn of the loop for a write: its key joins the batch of its table. *)
LEMMA TailWrite ==
    ASSUME TypeInv, NEW s \in Session, TailOf(s), CommitWrite(s)
    PROVE  TailOf(s)'
<1> PICK w : w = statements[s][pos[s]]
  OBVIOUS
<1> PICK n0 : n0 = pos[s]
  OBVIOUS
<1>1. /\ n0 \in Nat \ {0} /\ n0 \in DOMAIN statements[s] /\ n0 <= Len(statements[s])
      /\ statements[s] \in Seq(Statement)
      /\ w \in Statement /\ w.type = "WRITE" /\ w.value \in Value
      /\ statements' = statements /\ phase' = phase
      /\ pos'[s] = n0 + 1
      /\ batch'[s] = [batch[s] EXCEPT ![w.table] = Emplace(batch[s][w.table], w.key, w.value)]
      /\ batch[s] \in [Table -> Rows]
  BY DEF CommitWrite, AtStatement, Current, Advance, TypeInv, TxnOK, LoopOK,
         TailOf, ValuesOf, control, txn
<1>2. \A t \in Table : IsTail(s, t)
  BY <1>1 DEF CommitWrite, AtStatement, TailOf, TypeInv, TxnOK, LoopOK
<1>3. w.table \in Table /\ w.key \in Key /\ w.value # NoValue
  BY <1>1, NoValueAssumption DEF Statement
<1>4. Unflushed(s, w.table)' = Unflushed(s, w.table) \cup {n0}
  BY <1>1 DEF Unflushed
<1>5. \A t \in Table \ {w.table} : Unflushed(s, t)' = Unflushed(s, t)
  BY <1>1 DEF Unflushed
<1>6. ASSUME NEW t \in Table \ {w.table} PROVE IsTail(s, t)'
  <2> PICK U, rows : U = Unflushed(s, t) /\ rows = batch[s][t]
    OBVIOUS
  <2>1. /\ statements' = statements
        /\ batch'[s][t] = rows
        /\ Unflushed(s, t)' = U
    BY <1>1, <1>5
  <2>2. /\ KeysOf(rows) = {statements[s][n].key : n \in U}
        /\ \A k \in KeysOf(rows) : \E n \in U :
              statements[s][n].key = k /\ statements[s][n].value = rows[k]
    BY <1>2 DEF IsTail
  <2> QED  BY ONLY <2>1, <2>2, TailBecomes
<1>7. IsTail(s, w.table)'
  <2> DEFINE old == batch[s][w.table]
             rows == batch'[s][w.table]
  <2>1. rows = Emplace(old, w.key, w.value) /\ old \in Rows
    BY <1>1, <1>3
  <2>2. \A k \in Key : rows[k] = IF k = w.key /\ old[k] = NoValue
                                 THEN w.value ELSE old[k]
    BY <2>1 DEF Emplace, Rows
  <2>3. KeysOf(rows) = KeysOf(old) \cup {w.key}
    BY <1>3, <2>2 DEF KeysOf
  <2>4. IsTail(s, w.table)
    BY <1>2, <1>3
  <2> HIDE DEF old, rows
  <2>5. KeysOf(rows) = {statements[s][n].key : n \in Unflushed(s, w.table) \cup {n0}}
    BY <2>3, <2>4 DEF IsTail, old
  <2>6. ASSUME NEW k \in KeysOf(rows)
        PROVE  \E n \in Unflushed(s, w.table) \cup {n0} :
                  statements[s][n].key = k /\ statements[s][n].value = rows[k]
    <3>1. CASE k \in KeysOf(old)
      BY <2>2, <2>4, <3>1 DEF IsTail, KeysOf, old
    <3>2. CASE k \notin KeysOf(old)
      BY <2>2, <2>3, <3>2 DEF KeysOf
    <3> QED  BY <3>1, <3>2
  <2> PICK U : U = Unflushed(s, w.table) \cup {n0}
    OBVIOUS
  <2>7. /\ statements' = statements
        /\ batch'[s][w.table] = rows
        /\ Unflushed(s, w.table)' = U
    BY <1>1, <1>4 DEF rows
  <2>8. KeysOf(rows) = {statements[s][n].key : n \in U}
    BY <2>5
  <2>9. \A k \in KeysOf(rows) : \E n \in U :
           statements[s][n].key = k /\ statements[s][n].value = rows[k]
    BY <2>6
  <2> HIDE DEF rows
  <2> QED  BY ONLY <1>3, <2>7, <2>8, <2>9, TailBecomes
<1>8. ValuesOf(s)'
  BY <1>1 DEF TailOf, ValuesOf
<1> QED  BY <1>6, <1>7, <1>8 DEF TailOf

(* A turn for a removal: the batch of its table is empty after it. *)
LEMMA TailRemove ==
    ASSUME TypeInv, NEW s \in Session, TailOf(s), CommitRemove(s)
    PROVE  TailOf(s)'
<1> PICK c : c = statements[s][pos[s]]
  OBVIOUS
<1> PICK n0 : n0 = pos[s]
  OBVIOUS
<1>1. /\ n0 \in Nat \ {0} /\ n0 \in DOMAIN statements[s] /\ n0 <= Len(statements[s])
      /\ statements[s] \in Seq(Statement)
      /\ c \in Statement /\ c.type = "REMOVE"
      /\ statements' = statements /\ phase' = phase
      /\ pos'[s] = n0 + 1
      /\ batch'[s] = [batch[s] EXCEPT ![c.table] = NoRows]
      /\ batch[s] \in [Table -> Rows]
  BY DEF CommitRemove, AtStatement, Current, Advance, ClearBatch,
         TypeInv, TxnOK, LoopOK, control
<1>2. \A t \in Table : IsTail(s, t)
  BY <1>1 DEF CommitRemove, AtStatement, TailOf, TypeInv, TxnOK, LoopOK
<1>3. Unflushed(s, c.table)' = {}
  BY <1>1 DEF Unflushed
<1>4. \A t \in Table \ {c.table} : Unflushed(s, t)' = Unflushed(s, t)
  BY <1>1 DEF Unflushed
<1>5. ASSUME NEW t \in Table \ {c.table} PROVE IsTail(s, t)'
  BY <1>1, <1>2, <1>4 DEF IsTail, KeysOf
<1>6. IsTail(s, c.table)'
  <2>1. c.table \in Table
    BY <1>1 DEF Statement
  <2>2. batch'[s][c.table] = NoRows
    BY <1>1, <2>1
  <2>3. KeysOf(NoRows) = {}
    BY DEF KeysOf, NoRows
  <2> QED  BY <1>3, <2>2, <2>3 DEF IsTail, KeysOf
<1>7. ValuesOf(s)'
  BY <1>1 DEF TailOf, ValuesOf
<1> QED  BY <1>5, <1>6, <1>7 DEF TailOf

(* The second loop empties the batch of the table it has sent. *)
LEMMA TailFlushed ==
    ASSUME TypeInv, NEW s \in Session, TailOf(s), NEW t \in Table, CommitFlushed(s, t)
    PROVE  TailOf(s)'
<1>1. /\ statements' = statements /\ phase' = phase /\ pos' = pos
      /\ pos[s] > Len(statements[s])
      /\ batch'[s] = [batch[s] EXCEPT ![t] = NoRows]
      /\ batch[s] \in [Table -> Rows]
  BY DEF CommitFlushed, AtFlush, ClearBatch, TypeInv, TxnOK, LoopOK, control, txn
<1>2. ASSUME NEW u \in Table, phase[s] = "committing"
      PROVE  \/ pos[s] > Len(statements[s]) /\ batch'[s][u] = NoRows
             \/ IsTail(s, u)'
  <2>1. CASE u = t
    BY <1>1, <2>1
  <2>2. CASE u # t
    <3>1. Unflushed(s, u)' = Unflushed(s, u) /\ batch'[s][u] = batch[s][u]
      BY <1>1, <2>2 DEF Unflushed
    <3> QED  BY <1>1, <1>2, <3>1 DEF TailOf, IsTail, KeysOf
  <2> QED  BY <2>1, <2>2
<1>3. ValuesOf(s)'
  BY <1>1 DEF TailOf, ValuesOf
<1> QED  BY <1>1, <1>2, <1>3 DEF TailOf

LEMMA TailCommit ==
    ASSUME TypeInv, \A r \in Session : TailOf(r), NEW s \in Session, CommitStep(s)
    PROVE  \A r \in Session : TailOf(r)'
<1> SUFFICES ASSUME NEW r \in Session PROVE TailOf(r)'
  OBVIOUS
<1>1. CASE UNCHANGED <<statements, phase, pos, batch>>
  BY <1>1, SameProgress DEF Progress
<1>2. CASE CommitWrite(s)
  <2>1. r # s => UNCHANGED Progress(r)
    BY <1>2 DEF CommitWrite, Advance, control, txn, Progress, TypeInv, LoopOK
  <2> QED  BY <1>2, <2>1, TailWrite, SameProgress
<1>3. CASE CommitRemove(s)
  <2>1. r # s => UNCHANGED Progress(r)
    BY <1>3 DEF CommitRemove, Advance, control, Progress, TypeInv, LoopOK
  <2> QED  BY <1>3, <2>1, TailRemove, SameProgress
<1>4. ASSUME NEW t \in Table, CommitFlushed(s, t) PROVE TailOf(r)'
  <2>1. r # s => UNCHANGED Progress(r)
    BY <1>4 DEF CommitFlushed, control, txn, Progress, TypeInv, LoopOK
  <2> QED  BY <1>4, <2>1, TailFlushed, SameProgress
<1>5. ASSUME CloseTransaction(s), ValuesOf(r)',
             r # s => statements'[r] = statements[r]
      PROVE  TailOf(r)'
  <2>1. r = s => phase'[r] # "committing"
    BY <1>5 DEF CloseTransaction, TypeInv, ControlOK
  <2>2. r # s => UNCHANGED Progress(r)
    BY <1>5 DEF CloseTransaction, Progress, TypeInv, ControlOK, LoopOK
  <2> QED  BY <1>5, <2>1, <2>2, TailAtStart, SameProgress
<1>6. CASE CommitNoAdapter(s)
  <2>1. ValuesOf(r)'
    BY <1>6 DEF CommitNoAdapter, TailOf, ValuesOf
  <2> QED  BY <1>5, <1>6, <2>1 DEF CommitNoAdapter
<1>7. CASE CommitDone(s)
  <2>1. statements'[r] = IF r = s THEN <<>> ELSE statements[r]
    BY <1>7 DEF CommitDone, Discard, TypeInv, TxnOK
  <2>2. ValuesOf(r)'
    BY <2>1 DEF TailOf, ValuesOf
  <2> QED  BY <1>5, <1>7, <2>1, <2>2 DEF CommitDone
<1>8. ASSUME NEW t \in Table, CommitCrash(s, t) PROVE TailOf(r)'
  BY <1>8 DEF CommitCrash, Crash, TailOf, ValuesOf
<1> QED
  BY <1>1, <1>2, <1>3, <1>4, <1>6, <1>7, <1>8
     DEF CommitStep, CommitRemovePut, CommitFlush, CallPut, put, control, txn

LEMMA TailStep ==
    TypeInv /\ (\A r \in Session : TailOf(r)) /\ [Next]_vars
        => (\A r \in Session : TailOf(r))'
<1> SUFFICES ASSUME TypeInv, \A r \in Session : TailOf(r), [Next]_vars,
                    NEW r \in Session
             PROVE  TailOf(r)'
  OBVIOUS
<1>1. CASE UNCHANGED <<control, txn, loop>>
  BY <1>1, SameProgress DEF control, txn, loop, Progress
<1>2. ASSUME NEW s \in Session, StatementStep(s) PROVE TailOf(r)'
  BY <1>2, TailStatement, ProgressStatement, SameProgress
<1>3. CASE Crash
  BY <1>3 DEF Crash, TailOf, ValuesOf
<1> QED
  BY <1>1, <1>2, <1>3, TailCommit DEF Next, ServerCrash, open, close, vars

LEMMA TailInit == Init => \A r \in Session : TailOf(r)
BY DEF Init, TailOf, ValuesOf

(* While bc_commit walks a list of any length over any number of tables,    *)
(* the batch of a table holds the keys written since its last removal, and  *)
(* no other: a write never moves across a removal of its table.             *)
THEOREM BatchTail == Spec => []BatchIsTail
<1>1. (\A r \in Session : TailOf(r)) => BatchIsTail
  BY DEF TailOf, IsTail, BatchIsTail
<1> QED  BY <1>1, TailInit, TailStep, TypeInvariance, PTL DEF Spec
-----------------------------------------------------------------------------
(* What bc_commit leaves in the contracts.                                 *)

(* The statements on a key of t whose effect bc_commit has put into the     *)
(* contract: those it has passed, but for the writes still in the batch.    *)
Settled(s, t, k) ==
    {n \in 1..(pos[s] - 1) :
        /\ statements[s][n].table = t
        /\ statements[s][n].key = k
        /\ \/ pos[s] > Len(statements[s]) /\ batch[s][t] = NoRows
           \/ n \notin Unflushed(s, t)}

(* The key whose row of the batch the running put has stored already.       *)
Sent(s, t, k) == putting[s] = {t} /\ k \in KeysOf(batch[s][t]) \ unsent[s]

StoredOf(s, t, k) ==
    IF Sent(s, t, k)
    THEN chain[t][k] = batch[s][t][k]
    ELSE Decides(statements[s], Settled(s, t, k), base[s][t][k], chain[t][k])

RemovalsOf(s) ==
    \A n \in DOMAIN statements[s] :
        statements[s][n].type = "REMOVE" => statements[s][n].value = NoValue

(* The inductive invariant.  Outside bc_commit nothing is settled or sent,  *)
(* and the last conjunct says that an exact row is still in the contract as *)
(* external_lock copied it.                                                 *)
CommitOf(s) ==
    /\ RemovalsOf(s)
    /\ \A t \in Table : putting[s] = {t} => unsent[s] \subseteq KeysOf(batch[s][t])
    /\ AtStatement(s) /\ putting[s] # {} => Current(s).type = "REMOVE"
    /\ \A t \in Table : \A k \in exact[s][t] : StoredOf(s, t, k)

Commits(s) ==
    <<statements[s], phase[s], pos[s], batch[s], putting[s], unsent[s],
      cached[s], base[s]>>
-----------------------------------------------------------------------------
(* A session that a step does not concern, but for the rows it changed.     *)
LEMMA SameCommit ==
    ASSUME NEW r \in Session, CommitOf(r), UNCHANGED Commits(r),
           \A t \in Table : \A k \in exact'[r][t] :
              k \in exact[r][t] /\ chain'[t][k] = chain[t][k]
    PROVE  CommitOf(r)'
<1>1. UNCHANGED <<statements[r], phase[r], pos[r], batch[r], putting[r],
                  unsent[r], cached[r], base[r]>>
  BY DEF Commits
<1>2. \A t, k : Settled(r, t, k)' = Settled(r, t, k)
  BY <1>1 DEF Settled, Unflushed
<1>3. \A t, k : Sent(r, t, k)' = Sent(r, t, k)
  BY <1>1 DEF Sent, KeysOf
<1>4. ASSUME NEW t \in Table, NEW k \in exact'[r][t] PROVE StoredOf(r, t, k)'
  <2>1. StoredOf(r, t, k) /\ chain'[t][k] = chain[t][k]
    BY DEF CommitOf
  <2> QED  BY <1>1, <1>2, <1>3, <2>1 DEF StoredOf, Decides
<1> QED
  BY <1>1, <1>4 DEF CommitOf, RemovalsOf, AtStatement, Current, KeysOf

(* Before its first turn, or without a commit: nothing settled or sent.     *)
LEMMA CommitAtStart ==
    ASSUME NEW r \in Session, RemovalsOf(r)',
           pos'[r] = 1, putting'[r] = {},
           \A t \in Table : \A k \in exact'[r][t] : chain'[t][k] = base'[r][t][k]
    PROVE  CommitOf(r)'
<1>1. \A t, k : Settled(r, t, k)' = {} /\ ~Sent(r, t, k)'
  BY DEF Settled, Sent
<1> QED  BY <1>1 DEF CommitOf, StoredOf, Decides

(* What CommitAtStart asks of a session that is not committing.             *)
LEMMA CommitOutside ==
    ASSUME NEW r \in Session, TypeInv, CommitOf(r), phase[r] # "committing"
    PROVE  /\ pos[r] = 1 /\ putting[r] = {}
           /\ \A t \in Table : \A k \in exact[r][t] : chain[t][k] = base[r][t][k]
<1>1. pos[r] = 1 /\ putting[r] = {}
  BY DEF TypeInv, LoopOf
<1>2. \A t, k : Settled(r, t, k) = {} /\ ~Sent(r, t, k)
  BY <1>1 DEF Settled, Sent
<1> QED  BY <1>1, <1>2 DEF CommitOf, StoredOf, Decides
-----------------------------------------------------------------------------
(* The statements of a session leave the commits and the copies of the      *)
(* others alone, and the chain.                                             *)
LEMMA OthersStatement ==
    ASSUME TypeInv, NEW s \in Session, StatementStep(s),
           NEW r \in Session, r # s
    PROVE  UNCHANGED Commits(r) /\ exact'[r] = exact[r]
<1> USE DEF TypeInv, ControlOK, TxnOK, LoopOK, control, txn, loop, Commits
<1>1. CASE StartTransaction(s)
  BY <1>1 DEF StartTransaction
<1>2. ASSUME NEW t \in Table, external_lock(s, t)
      PROVE  UNCHANGED Commits(r) /\ exact'[r] = exact[r]
  BY <1>2 DEF external_lock, CacheTable
<1>3. ASSUME NEW t \in Table, NEW list, NEW rows, Execute(s, t, list, rows)
      PROVE  UNCHANGED Commits(r) /\ exact'[r] = exact[r]
  BY <1>3 DEF Execute
<1>4. ASSUME NEW t \in Table, NEW k \in Key, write_row_duplicate(s, t, k)
      PROVE  UNCHANGED Commits(r) /\ exact'[r] = exact[r]
  BY <1>4 DEF write_row_duplicate
<1>5. CASE EndStatement(s)
  BY <1>5 DEF EndStatement, StartCommit, CloseStatement
<1>6. CASE RollbackStatement(s)
  BY <1>6 DEF RollbackStatement, CloseStatement, Discard
<1>7. CASE Commit(s)
  BY <1>7 DEF Commit, StartCommit, CloseTransaction
<1>8. CASE Rollback(s)
  BY <1>8 DEF Rollback, CloseTransaction, Discard
<1> QED
  BY <1>1, <1>2, <1>3, <1>4, <1>5, <1>6, <1>7, <1>8
     DEF StatementStep, write_row, update_row, update_row_key, delete_row

LEMMA ChainStatement ==
    ASSUME NEW s \in Session, StatementStep(s)
    PROVE  chain' = chain
BY DEF StatementStep, StartTransaction, external_lock, write_row, update_row,
       update_row_key, delete_row, Execute, write_row_duplicate, EndStatement,
       RollbackStatement, Commit, Rollback, store

LEMMA RemovalsAppend ==
    ASSUME NEW list \in Seq(Statement), NEW e \in Statement,
           \A n \in DOMAIN list : list[n].type = "REMOVE" => list[n].value = NoValue,
           e.type = "REMOVE" => e.value = NoValue
    PROVE  \A n \in DOMAIN Append(list, e) :
              Append(list, e)[n].type = "REMOVE" => Append(list, e)[n].value = NoValue
<1>1. \A n \in DOMAIN Append(list, e) :
         \/ n \in DOMAIN list /\ Append(list, e)[n] = list[n]
         \/ Append(list, e)[n] = e
  BY AppendProperties
<1> QED  BY <1>1

(* A listed removal carries no value.                                       *)
LEMMA RemovalsStatement ==
    ASSUME TypeInv, NEW s \in Session, RemovalsOf(s), StatementStep(s)
    PROVE  RemovalsOf(s)'
<1> DEFINE Bare(list) ==
              \A n \in DOMAIN list : list[n].type = "REMOVE" => list[n].value = NoValue
<1>1. statements[s] \in Seq(Statement) /\ Bare(statements[s])
  BY DEF TypeInv, TxnOK, RemovalsOf
<1>2. ASSUME UNCHANGED statements PROVE RemovalsOf(s)'
  BY <1>2 DEF RemovalsOf
<1>3. ASSUME Discard(s) PROVE RemovalsOf(s)'
  <2>1. statements'[s] = <<>>
    BY <1>3 DEF Discard, TypeInv, TxnOK
  <2> QED  BY <2>1 DEF RemovalsOf
<1>4. ASSUME NEW t \in Table, NEW list, NEW rows, Execute(s, t, list, rows), Bare(list)
      PROVE  RemovalsOf(s)'
  <2>1. statements'[s] = list
    BY <1>4 DEF Execute, TypeInv, TxnOK
  <2> QED  BY <1>4, <2>1 DEF RemovalsOf
<1>5. ASSUME NEW list \in Seq(Statement), Bare(list),
             NEW t \in Table, NEW k \in Key
      PROVE  /\ Append(list, Removal(t, k)) \in Seq(Statement)
             /\ Bare(Append(list, Removal(t, k)))
             /\ \A v \in Value : Bare(Append(list, Write(t, k, v)))
  <2>1. /\ Removal(t, k) \in Statement /\ Removal(t, k).value = NoValue
        /\ \A v \in Value : Write(t, k, v) \in Statement
                            /\ Write(t, k, v).type # "REMOVE"
    BY StatementTypes DEF Removal, Write
  <2>2. Bare(Append(list, Removal(t, k)))
    BY <1>5, <2>1, RemovalsAppend
  <2>3. ASSUME NEW v \in Value PROVE Bare(Append(list, Write(t, k, v)))
    BY <1>5, <2>1, RemovalsAppend
  <2> QED  BY <2>1, <2>2, <2>3, AppendTypes
<1> HIDE DEF Bare
<1>6. ASSUME NEW t \in Table, NEW k \in Key, NEW v \in Value,
             write_row(s, t, k, v) \/ update_row(s, t, k, v)
      PROVE  RemovalsOf(s)'
  BY <1>1, <1>4, <1>5, <1>6 DEF write_row, update_row
<1>7. ASSUME NEW t \in Table, NEW k \in Key, delete_row(s, t, k)
      PROVE  RemovalsOf(s)'
  BY <1>1, <1>4, <1>5, <1>7 DEF delete_row
<1>8. ASSUME NEW t \in Table, NEW k \in Key, NEW new \in Key, NEW v \in Value,
             update_row_key(s, t, k, new, v)
      PROVE  RemovalsOf(s)'
  <2> DEFINE list == Append(statements[s], Removal(t, k))
             list2 == Append(list, Write(t, new, v))
  <2>1. (\E rows : Execute(s, t, list, rows)) \/ (\E rows : Execute(s, t, list2, rows))
    BY <1>8 DEF update_row_key
  <2>2. list \in Seq(Statement) /\ Bare(list)
    BY <1>1, <1>5
  <2> HIDE DEF list
  <2>3. Bare(list2)
    BY <1>5, <2>2
  <2> HIDE DEF list2
  <2> QED  BY <1>4, <2>1, <2>2, <2>3
<1> QED
  BY <1>2, <1>3, <1>6, <1>7, <1>8
     DEF StatementStep, StartTransaction, external_lock, CacheTable,
         write_row_duplicate, EndStatement, RollbackStatement, Commit, Rollback, txn

(* What a statement does to the copies: an exact row of them is the row     *)
(* that the contract holds.                                                 *)
LEMMA ExactStatement ==
    ASSUME TypeInv, NEW s \in Session, CommitOf(s), StatementStep(s)
    PROVE  \A t \in Table : \A k \in exact'[s][t] : chain[t][k] = base'[s][t][k]
<1>1. /\ phase[s] # "committing"
      /\ \A t \in Table : \A k \in exact[s][t] : chain[t][k] = base[s][t][k]
  <2>1. phase[s] # "committing"
    BY DEF StatementStep, StartTransaction, external_lock, write_row, update_row,
           update_row_key, delete_row, CanExecute, write_row_duplicate,
           EndStatement, RollbackStatement, Commit, Rollback
  <2> QED  BY <2>1, CommitOutside
<1>2. ASSUME UNCHANGED <<exact, base>>
      PROVE  \A t \in Table : \A k \in exact'[s][t] : chain[t][k] = base'[s][t][k]
  BY <1>1, <1>2
<1>3. ASSUME Discard(s) PROVE \A t \in Table : exact'[s][t] = {}
  BY <1>3 DEF Discard, NoKeys, TypeInv, TxnOK
<1>4. ASSUME NEW t \in Table, NEW rows, CacheTable(s, t, rows), t \notin cached[s]
      PROVE  \A u \in Table : \A k \in exact'[s][u] : chain[u][k] = base'[s][u][k]
  <2>1. /\ base'[s][t] = rows
        /\ exact'[s][t] = {k \in Key : rows[k] = chain[t][k]}
        /\ \A u \in Table \ {t} : /\ base'[s][u] = base[s][u]
                                  /\ exact'[s][u] = exact[s][u]
    BY <1>4 DEF CacheTable, TypeInv, TxnOK
  <2> QED  BY <1>1, <2>1
<1> QED
  BY <1>2, <1>3, <1>4
     DEF StatementStep, StartTransaction, external_lock, write_row, update_row,
         update_row_key, delete_row, Execute, write_row_duplicate, EndStatement,
         RollbackStatement, Commit, Rollback, txn

LEMMA CommitStatement ==
    ASSUME TypeInv, NEW s \in Session, CommitOf(s), StatementStep(s)
    PROVE  CommitOf(s)'
<1>1. phase[s] # "committing"
  BY DEF StatementStep, StartTransaction, external_lock, write_row, update_row,
         update_row_key, delete_row, CanExecute, write_row_duplicate,
         EndStatement, RollbackStatement, Commit, Rollback
<1>2. pos[s] = 1 /\ putting[s] = {}
  BY <1>1, CommitOutside
<1>3. pos'[s] = 1 /\ putting'[s] = {}
  BY <1>2 DEF StatementStep, StartTransaction, external_lock, write_row, update_row,
         update_row_key, delete_row, Execute, write_row_duplicate,
         EndStatement, RollbackStatement, Commit, Rollback, CloseTransaction,
         TypeInv, LoopOK, loop
<1>4. RemovalsOf(s)'
  BY RemovalsStatement DEF CommitOf
<1> QED  BY <1>3, <1>4, ExactStatement, ChainStatement, CommitAtStart
-----------------------------------------------------------------------------
(* All the statements on a key of t that bc_commit has passed.              *)
Passed(s, t, k) ==
    {n \in 1..(pos[s] - 1) : statements[s][n].table = t /\ statements[s][n].key = k}

(* Once the batch of t is empty or sent, the contract shows every statement *)
(* on t that the loop has passed: a key of the batch ends with a write.     *)
LEMMA BatchSettles ==
    ASSUME TypeInv, NEW s \in Session, TailOf(s), CommitOf(s),
           phase[s] = "committing", NEW t \in Table, NEW k, StoredOf(s, t, k),
           batch[s][t] = NoRows \/ (putting[s] = {t} /\ unsent[s] = {})
    PROVE  Decides(statements[s], Passed(s, t, k), base[s][t][k], chain[t][k])
<1> DEFINE P == Passed(s, t, k)
<1>1. /\ t \in Table /\ pos[s] \in Nat \ {0} /\ pos[s] <= Len(statements[s]) + 1
      /\ statements[s] \in Seq(Statement) /\ StoredOf(s, t, k)
  BY DEF TypeInv, TxnOK, LoopOK, LoopOf
<1>2. ASSUME Settled(s, t, k) = P, ~Sent(s, t, k)
      PROVE  Decides(statements[s], P, base[s][t][k], chain[t][k])
  BY <1>1, <1>2 DEF StoredOf
<1>3. CASE pos[s] > Len(statements[s]) /\ batch[s][t] = NoRows
  <2>1. Settled(s, t, k) = P
    BY <1>3 DEF Settled, Passed
  <2>2. ~Sent(s, t, k)
    BY <1>3 DEF Sent, KeysOf, NoRows
  <2> QED  BY <1>2, <2>1, <2>2
<1>4. CASE IsTail(s, t) /\ ~(pos[s] > Len(statements[s]) /\ batch[s][t] = NoRows)
  <2>1. CASE k \notin KeysOf(batch[s][t])
    <3>1. \A n \in P : n \notin Unflushed(s, t)
      BY <1>4, <2>1 DEF IsTail, Passed
    <3>2. Settled(s, t, k) = P
      BY <3>1 DEF Settled, Passed
    <3>3. ~Sent(s, t, k)
      BY <2>1 DEF Sent
    <3> QED  BY <1>2, <3>2, <3>3
  <2>2. CASE k \in KeysOf(batch[s][t])
    <3>1. chain[t][k] = batch[s][t][k] /\ batch[s][t][k] # NoValue
      <4>1. batch[s][t] # NoRows
        BY <2>2 DEF KeysOf, NoRows
      <4>2. Sent(s, t, k)
        BY <2>2, <4>1 DEF Sent
      <4> QED  BY <1>1, <2>2, <4>2 DEF StoredOf, KeysOf
    <3>2. PICK u \in Unflushed(s, t) :
             statements[s][u].key = k /\ statements[s][u].value = batch[s][t][k]
      BY <1>4, <2>2 DEF IsTail
    <3>3. u \in P /\ \A m \in u..(pos[s] - 1) :
             ~(statements[s][m].table = t /\ statements[s][m].type = "REMOVE")
      BY <3>2 DEF Unflushed, Passed
    <3>4. ASSUME NEW n \in P, \A m \in P : m <= n
          PROVE  statements[s][n].value # NoValue
      <4>1. u <= n /\ n \in 1..(pos[s] - 1) /\ u \in 1..(pos[s] - 1)
        BY <3>3, <3>4 DEF Passed
      <4>2. n \in DOMAIN statements[s] /\ n \in u..(pos[s] - 1)
        BY <1>1, <4>1
      <4>3. statements[s][n].type # "REMOVE"
        BY <3>3, <4>2 DEF Passed
      <4>4. statements[s][n] \in Statement
        BY <1>1, <4>2, ElementOfSeq
      <4>5. statements[s][n].type = "WRITE"
        BY <4>3, <4>4 DEF Statement
      <4> QED  BY <4>2, <4>5, NoValueAssumption DEF TailOf, ValuesOf
    <3>5. ASSUME NEW n \in P, \A m \in P : m = n
          PROVE  chain[t][k] = statements[s][n].value
      BY <3>1, <3>2, <3>3, <3>5
    <3> QED  BY <3>1, <3>3, <3>4, <3>5 DEF Decides
  <2> QED  BY <2>1, <2>2
<1> QED  BY <1>1, <1>3, <1>4 DEF TailOf

(* A turn of the loop leaves the tables alone that its statement is not on. *)
LEMMA SettledElsewhere ==
    ASSUME TypeInv, NEW s \in Session, TailOf(s), AtStatement(s),
           statements' = statements, pos' = [pos EXCEPT ![s] = @ + 1],
           NEW t \in Table, t # Current(s).table, batch'[s][t] = batch[s][t],
           NEW k \in Key
    PROVE  Settled(s, t, k)' = Settled(s, t, k)
<1>1. /\ pos[s] \in Nat \ {0} /\ pos'[s] = pos[s] + 1
      /\ ~(pos[s] > Len(statements[s])) /\ statements[s] \in Seq(Statement)
  BY DEF TypeInv, TxnOK, LoopOK, AtStatement
<1>2. statements[s][pos[s]].table # t
  BY DEF Current
<1>3. \A n \in 1..(pos[s] - 1) : n \in Unflushed(s, t)' <=> n \in Unflushed(s, t)
  BY <1>1, <1>2 DEF Unflushed
<1>4. batch[s][t] = NoRows => Unflushed(s, t) = {}
  <2> SUFFICES ASSUME batch[s][t] = NoRows PROVE Unflushed(s, t) = {}
    OBVIOUS
  <2>1. KeysOf(batch[s][t]) = {statements[s][n].key : n \in Unflushed(s, t)}
    BY <1>1 DEF TailOf, IsTail, AtStatement
  <2>2. KeysOf(batch[s][t]) = {}
    BY DEF KeysOf, NoRows
  <2> QED  BY <2>1, <2>2
<1>5. \A n : n \in Settled(s, t, k)' <=> n \in Settled(s, t, k)
  BY <1>1, <1>2, <1>3, <1>4 DEF Settled
<1> QED  BY <1>5

(* A turn for a write: its key waits in the batch, nothing is settled.      *)
LEMMA CommitOfWrite ==
    ASSUME TypeInv, NEW s \in Session, TailOf(s), CommitOf(s), CommitWrite(s)
    PROVE  CommitOf(s)'
<1> PICK w : w = Current(s)
  OBVIOUS
<1>1. /\ AtStatement(s) /\ pos[s] \in DOMAIN statements[s]
      /\ pos[s] \in Nat \ {0} /\ ~(pos[s] > Len(statements[s]))
      /\ statements[s] \in Seq(Statement)
      /\ statements[s][pos[s]] = w /\ w \in Statement /\ w.type = "WRITE"
      /\ w.value \in Value
      /\ UNCHANGED <<statements, phase, putting, unsent, cached, exact, chain, base>>
      /\ pos' = [pos EXCEPT ![s] = @ + 1] /\ pos'[s] = pos[s] + 1
      /\ batch[s] \in [Table -> Rows]
      /\ batch'[s] = [batch[s] EXCEPT ![w.table] = Emplace(batch[s][w.table], w.key, w.value)]
  BY DEF CommitWrite, AtStatement, Current, Advance, TypeInv, TxnOK, LoopOK,
         TailOf, ValuesOf, control, txn, store
<1>2. putting[s] = {}
  BY <1>1 DEF CommitOf, AtStatement, Current
<1>3. /\ w.table \in Table /\ w.key \in Key
      /\ w.value # NoValue
  BY <1>1, NoValueAssumption DEF TypeInv, TxnOK, Statement
<1>4. batch'[s][w.table] # NoRows
  <2>1. batch[s][w.table] \in Rows
    BY <1>1, <1>3
  <2>2. Emplace(batch[s][w.table], w.key, w.value)[w.key] # NoValue
    BY <1>3, <2>1 DEF Emplace, Rows
  <2> QED  BY <1>1, <1>3, <2>2 DEF NoRows
<1>5. ASSUME NEW t \in Table, NEW k \in Key
      PROVE  Settled(s, t, k)' = Settled(s, t, k)
  <2>1. CASE t # w.table
    <3>1. batch'[s][t] = batch[s][t]
      BY <1>1, <1>3, <2>1
    <3> QED  BY <1>1, <1>3, <2>1, <3>1, SettledElsewhere
  <2>2. CASE t = w.table
    <3>1. Unflushed(s, t)' = Unflushed(s, t) \cup {pos[s]}
      BY <1>1, <2>2 DEF Unflushed
    <3>2. \A n : n \in Settled(s, t, k)' <=> n \in Settled(s, t, k)
      BY <1>1, <1>4, <2>2, <3>1 DEF Settled
    <3> QED  BY <3>2
  <2> QED  BY <2>1, <2>2
<1>6. ASSUME NEW t \in Table, NEW k \in exact'[s][t] PROVE StoredOf(s, t, k)'
  <2>1. k \in Key /\ StoredOf(s, t, k)
    BY <1>1, <1>6 DEF CommitOf, TypeInv, TxnOK
  <2> QED  BY <1>1, <1>2, <1>5, <2>1 DEF StoredOf, Sent, Decides
<1> QED  BY <1>1, <1>2, <1>6 DEF CommitOf, RemovalsOf

(* The adapter's put is called: no key of the batch has been sent yet.      *)
LEMMA CommitOfCall ==
    ASSUME TypeInv, NEW s \in Session, CommitOf(s),
           phase[s] = "committing", NEW u \in Table, CallPut(s, u),
           AtStatement(s) => Current(s).type = "REMOVE"
    PROVE  CommitOf(s)'
<1>1. /\ putting[s] = {}
      /\ putting'[s] = {u} /\ unsent'[s] = KeysOf(batch[s][u])
      /\ UNCHANGED <<statements, phase, pos, batch, cached, exact, chain, base>>
  BY DEF CallPut, TypeInv, LoopOK, control, txn, store
<1>2. \A t, k : Settled(s, t, k)' = Settled(s, t, k)
  BY <1>1 DEF Settled, Unflushed
<1>3. \A t, k : ~Sent(s, t, k) /\ ~Sent(s, t, k)'
  BY <1>1 DEF Sent, KeysOf
<1>4. \A t \in Table : \A k \in exact'[s][t] : StoredOf(s, t, k)'
  BY <1>1, <1>2, <1>3 DEF CommitOf, StoredOf, Decides
<1>5. \A t \in Table : putting'[s] = {t} => unsent'[s] \subseteq KeysOf(batch'[s][t])
  BY <1>1 DEF KeysOf
<1> QED
  BY <1>1, <1>4, <1>5 DEF CommitOf, RemovalsOf, AtStatement, Current, KeysOf

(* One key of the batch is stored, or its row is not exact any more.        *)
LEMMA CommitOfPut ==
    ASSUME TypeInv, NEW s \in Session, CommitOf(s),
           NEW u \in Table, NEW c \in Key, put(s, u, c)
    PROVE  CommitOf(s)'
<1>1. /\ putting[s] = {u} /\ c \in unsent[s] /\ unsent'[s] = unsent[s] \ {c}
      /\ UNCHANGED <<statements, phase, pos, batch, putting, cached, base>>
      /\ \A t \in Table : \A k \in exact'[s][t] :
            k \in Key /\ ((t = u /\ k = c) \/ k \in exact[s][t])
      /\ chain \in [Table -> Rows]
      /\ \/ chain' = [chain EXCEPT ![u][c] = batch[s][u][c]]
         \/ chain' = chain /\ c \notin exact'[s][u]
  BY DEF put, Changed, Missed, TypeInv, StoreOK, TxnOK, LoopOK, control
<1>2. \A t, k : Settled(s, t, k)' = Settled(s, t, k)
  BY <1>1 DEF Settled, Unflushed
<1>3. c \in KeysOf(batch[s][u])
  BY <1>1 DEF CommitOf
<1>4. ASSUME NEW t \in Table, NEW k \in exact'[s][t] PROVE StoredOf(s, t, k)'
  <2>2. CASE t = u /\ k = c
    <3>1. chain' = [chain EXCEPT ![u][c] = batch[s][u][c]]
      BY <1>1, <2>2
    <3>2. chain'[u][c] = batch[s][u][c]
      BY <1>1, <3>1 DEF Rows
    <3>3. Sent(s, u, c)'
      BY <1>1, <1>3 DEF Sent, KeysOf
    <3> QED  BY <1>1, <2>2, <3>2, <3>3 DEF StoredOf
  <2>3. CASE ~(t = u /\ k = c)
    <3>1. k \in Key /\ StoredOf(s, t, k)
      BY <1>1, <2>3 DEF CommitOf
    <3>2. chain'[t][k] = chain[t][k]
      BY <1>1, <2>3, <3>1 DEF Rows
    <3>3. Sent(s, t, k)' <=> Sent(s, t, k)
      BY <1>1, <2>3 DEF Sent, KeysOf
    <3> QED  BY <1>1, <1>2, <3>1, <3>2, <3>3 DEF StoredOf, Decides
  <2> QED  BY <2>2, <2>3
<1> QED
  BY <1>1, <1>4 DEF CommitOf, RemovalsOf, AtStatement, Current, KeysOf

(* A turn for a removal settles all that the loop has passed on its table.  *)
LEMMA CommitOfRemove ==
    ASSUME TypeInv, NEW s \in Session, TailOf(s), CommitOf(s), CommitRemove(s)
    PROVE  CommitOf(s)'
<1> PICK c : c = Current(s)
  OBVIOUS
<1>1. /\ AtStatement(s) /\ phase[s] = "committing"
      /\ pos[s] \in DOMAIN statements[s]
      /\ pos[s] \in Nat \ {0} /\ ~(pos[s] > Len(statements[s]))
      /\ statements[s] \in Seq(Statement)
      /\ statements[s][pos[s]] = c /\ c \in Statement /\ c.type = "REMOVE"
      /\ c.table \in Table /\ c.key \in Key /\ c.value = NoValue
      /\ UNCHANGED <<statements, phase, unsent, cached, base>>
      /\ putting'[s] = {} /\ (putting[s] = {} \/ putting[s] = {c.table})
      /\ pos' = [pos EXCEPT ![s] = @ + 1] /\ pos'[s] = pos[s] + 1
      /\ batch[s] \in [Table -> Rows]
      /\ batch'[s] = [batch[s] EXCEPT ![c.table] = NoRows]
      /\ \A t \in Table : \A k \in exact'[s][t] :
            k \in Key /\ ((t = c.table /\ k = c.key) \/ k \in exact[s][t])
      /\ chain \in [Table -> Rows]
      /\ \/ chain' = [chain EXCEPT ![c.table][c.key] = NoValue]
         \/ chain' = chain /\ c.key \notin exact'[s][c.table]
  <2>1. /\ AtStatement(s) /\ phase[s] = "committing"
        /\ pos[s] \in DOMAIN statements[s]
        /\ pos[s] \in Nat \ {0} /\ ~(pos[s] > Len(statements[s]))
        /\ statements[s] \in Seq(Statement)
        /\ statements[s][pos[s]] = c /\ c.type = "REMOVE"
    BY DEF CommitRemove, AtStatement, Current, TypeInv, TxnOK, LoopOK
  <2>2. c \in Statement
    BY <2>1, ElementOfSeq
  <2>3. c.table \in Table /\ c.key \in Key /\ c.value = NoValue
    BY <2>1, <2>2 DEF Statement, CommitOf, RemovalsOf
  <2>4. /\ UNCHANGED <<statements, phase, unsent, cached, base>>
        /\ putting'[s] = {} /\ (putting[s] = {} \/ putting[s] = {c.table})
        /\ pos' = [pos EXCEPT ![s] = @ + 1] /\ pos'[s] = pos[s] + 1
        /\ batch[s] \in [Table -> Rows]
        /\ batch'[s] = [batch[s] EXCEPT ![c.table] = NoRows]
    BY DEF CommitRemove, BatchSent, ClearBatch, Advance, TypeInv, LoopOK, control
  <2>5. /\ \A t \in Table : \A k \in exact'[s][t] :
              k \in Key /\ ((t = c.table /\ k = c.key) \/ k \in exact[s][t])
        /\ chain \in [Table -> Rows]
        /\ \/ chain' = [chain EXCEPT ![c.table][c.key] = NoValue]
           \/ chain' = chain /\ c.key \notin exact'[s][c.table]
    <3>1. \/ Changed(s, c.table, c.key) /\ chain' = [chain EXCEPT ![c.table][c.key] = NoValue]
          \/ Missed(s, c.table, c.key) /\ chain' = chain
      BY DEF CommitRemove
    <3>2. exact \in [Session -> [Table -> SUBSET Key]] /\ chain \in [Table -> Rows]
      BY DEF TypeInv, StoreOK, TxnOK
    <3> DEFINE u == c.table
               d == c.key
    <3> HIDE DEF u, d
    <3>3. u \in Table /\ d \in Key
      BY <2>3 DEF u, d
    <3>4. \/ Changed(s, u, d) /\ chain' = [chain EXCEPT ![u][d] = NoValue]
          \/ Missed(s, u, d) /\ chain' = chain
      BY <3>1 DEF u, d
    <3>5. CASE Changed(s, u, d) /\ chain' = [chain EXCEPT ![u][d] = NoValue]
      <4>1. \A t \in Table : \A k \in exact'[s][t] :
               k \in Key /\ ((t = u /\ k = d) \/ k \in exact[s][t])
        BY <3>2, <3>3, <3>5, ChangedRows
      <4> QED  BY <3>2, <3>5, <4>1 DEF u, d
    <3>6. CASE Missed(s, u, d) /\ chain' = chain
      <4>1. /\ \A t \in Table : \A k \in exact'[s][t] :
                  k \in Key /\ ((t = u /\ k = d) \/ k \in exact[s][t])
            /\ d \notin exact'[s][u]
        BY <3>2, <3>3, <3>6, MissedRows
      <4> QED  BY <3>2, <3>6, <4>1 DEF u, d
    <3> QED  BY <3>4, <3>5, <3>6
  <2> QED  BY <2>1, <2>2, <2>3, <2>4, <2>5
<1>2. batch[s][c.table] = NoRows \/ (putting[s] = {c.table} /\ unsent[s] = {})
  BY <1>1 DEF CommitRemove, BatchSent
<1>3. \A t, k : ~Sent(s, t, k)'
  BY <1>1 DEF Sent
<1>4. ASSUME NEW t \in Table, NEW k \in exact'[s][t], t # c.table
      PROVE  StoredOf(s, t, k)'
  <2>1. batch'[s][t] = batch[s][t] /\ chain'[t] = chain[t] /\ k \in Key
    BY <1>1, <1>4
  <2>2. Settled(s, t, k)' = Settled(s, t, k)
    <3>1. statements' = statements /\ pos' = [pos EXCEPT ![s] = @ + 1]
          /\ AtStatement(s)
      BY <1>1
    <3> QED  BY <1>4, <2>1, <3>1, SettledElsewhere
  <2>3. ~Sent(s, t, k)
    BY <1>1, <1>4 DEF Sent
  <2>4. StoredOf(s, t, k)
    BY <1>1, <1>4 DEF CommitOf
  <2> QED  BY <1>1, <1>3, <2>1, <2>2, <2>3, <2>4 DEF StoredOf, Decides
<1>5. ASSUME NEW k \in exact'[s][c.table]
      PROVE  StoredOf(s, c.table, k)'
  <2> DEFINE t == c.table
  <2>1. Unflushed(s, t)' = {}
    BY <1>1 DEF Unflushed
  <2>2. Settled(s, t, k)' = Passed(s, t, k) \cup (IF k = c.key THEN {pos[s]} ELSE {})
    BY <1>1, <2>1 DEF Settled, Passed
  <2>3. chain'[t][k] = IF k = c.key THEN NoValue ELSE chain[t][k]
    BY <1>1, <1>5 DEF Rows
  <2>4. Decides(statements[s], Settled(s, t, k)', base[s][t][k], chain'[t][k])
    <3>1. CASE k = c.key
      <4>1. \A n \in Passed(s, t, k) : n < pos[s]
        BY <1>1 DEF Passed
      <4>2. \A n \in Settled(s, t, k)' :
               (\A m \in Settled(s, t, k)' : m <= n) => n = pos[s]
        <5> SUFFICES ASSUME NEW n \in Settled(s, t, k)',
                            \A m \in Settled(s, t, k)' : m <= n
                     PROVE  n = pos[s]
          OBVIOUS
        <5>1. pos[s] <= n
          BY <2>2, <3>1
        <5>2. n = pos[s] \/ n \in Passed(s, t, k)
          BY <2>2, <3>1
        <5>3. Passed(s, t, k) \subseteq Nat
          BY <1>1 DEF Passed
        <5> QED  BY <1>1, <4>1, <5>1, <5>2, <5>3
      <4>3. pos[s] \in Settled(s, t, k)'
        BY <2>2, <3>1
      <4> QED  BY <1>1, <2>3, <3>1, <4>2, <4>3 DEF Decides
    <3>2. CASE k # c.key
      <4>1. Decides(statements[s], Passed(s, t, k), base[s][t][k], chain[t][k])
        <5>1. StoredOf(s, t, k)
          BY <1>1, <1>5, <3>2 DEF CommitOf
        <5> QED  BY <1>1, <1>2, <5>1, BatchSettles
      <4>2. Settled(s, t, k)' = Passed(s, t, k) /\ chain'[t][k] = chain[t][k]
        BY <2>2, <2>3, <3>2
      <4> QED  BY <4>1, <4>2
    <3> QED  BY <3>1, <3>2
  <2> HIDE DEF t
  <2>5. StoredOf(s, t, k)'
    BY <1>1, <1>3, <2>4 DEF StoredOf, Decides
  <2> QED  BY <2>5 DEF t
<1>6. \A t \in Table : \A k \in exact'[s][t] : StoredOf(s, t, k)'
  BY <1>4, <1>5
<1> QED  BY <1>1, <1>6 DEF CommitOf, RemovalsOf

(* The second loop settles the rest of a table.                             *)
LEMMA CommitOfFlushed ==
    ASSUME TypeInv, NEW s \in Session, TailOf(s), CommitOf(s),
           NEW u \in Table, CommitFlushed(s, u)
    PROVE  CommitOf(s)'
<1>1. /\ AtFlush(s) /\ phase[s] = "committing"
      /\ pos[s] \in Nat /\ pos[s] = Len(statements[s]) + 1
      /\ statements[s] \in Seq(Statement)
      /\ UNCHANGED <<statements, phase, pos, unsent, cached, exact, chain, base>>
      /\ putting[s] = {u} /\ unsent[s] = {} /\ putting'[s] = {}
      /\ batch[s] \in [Table -> Rows]
      /\ batch'[s] = [batch[s] EXCEPT ![u] = NoRows]
  BY DEF CommitFlushed, AtFlush, ClearBatch, TypeInv, TxnOK, LoopOK, control, txn, store
<1>2. \A t, k : ~Sent(s, t, k)'
  BY <1>1 DEF Sent
<1>3. ASSUME NEW t \in Table, NEW k \in exact'[s][t] PROVE StoredOf(s, t, k)'
  <2>0. StoredOf(s, t, k)
    BY <1>1 DEF CommitOf
  <2>1. CASE t = u
    <3>1. Settled(s, t, k)' = Passed(s, t, k)
      BY <1>1, <2>1 DEF Settled, Passed
    <3>2. Decides(statements[s], Passed(s, t, k), base[s][t][k], chain[t][k])
      BY <1>1, <2>0, <2>1, BatchSettles
    <3> QED  BY <1>1, <1>2, <3>1, <3>2 DEF StoredOf, Decides
  <2>2. CASE t # u
    <3>1. batch'[s][t] = batch[s][t] /\ ~Sent(s, t, k)
      BY <1>1, <2>2 DEF Sent
    <3>2. Settled(s, t, k)' = Settled(s, t, k)
      BY <1>1, <3>1 DEF Settled, Unflushed
    <3> QED  BY <1>1, <1>2, <2>0, <3>1, <3>2 DEF StoredOf, Decides
  <2> QED  BY <2>1, <2>2
<1> QED
  BY <1>1, <1>3 DEF CommitOf, RemovalsOf, AtStatement, Current

(* bc_commit of s returns, with nothing left that is exact.                 *)
LEMMA CommitOfClose ==
    ASSUME TypeInv, NEW s \in Session, CommitOf(s), CloseTransaction(s),
           exact'[s] = NoKeys, statements'[s] = statements[s] \/ statements'[s] = <<>>
    PROVE  CommitOf(s)'
<1>1. pos'[s] = 1 /\ putting'[s] = {}
  BY DEF CloseTransaction, TypeInv, LoopOK
<1>2. RemovalsOf(s)'
  BY DEF CommitOf, RemovalsOf
<1>3. \A t \in Table : exact'[s][t] = {}
  BY DEF NoKeys
<1> QED  BY <1>1, <1>2, <1>3, CommitAtStart

(* A step of the commit of s: the rows it changes are not exact for the     *)
(* others any more.                                                         *)
LEMMA OthersCommit ==
    ASSUME TypeInv, NEW s \in Session, CommitStep(s), ~Crash,
           NEW r \in Session, r # s
    PROVE  /\ UNCHANGED Commits(r)
           /\ \A t \in Table : \A k \in exact'[r][t] :
                 k \in exact[r][t] /\ chain'[t][k] = chain[t][k]
<1> DEFINE Kept == \A u \in Table : \A c \in exact'[r][u] :
                     c \in exact[r][u] /\ chain'[u][c] = chain[u][c]
<1>0. ASSUME NEW t \in Table, NEW k \in Key, NEW v,
             \/ Changed(s, t, k) /\ chain' = [chain EXCEPT ![t][k] = v]
             \/ Missed(s, t, k) /\ chain' = chain
      PROVE  Kept
  <2>1. exact \in [Session -> [Table -> SUBSET Key]] /\ chain \in [Table -> Rows]
    BY DEF TypeInv, StoreOK, TxnOK
  <2>2. ASSUME NEW u \in Table, NEW c \in exact'[r][u],
               Changed(s, t, k), chain' = [chain EXCEPT ![t][k] = v]
        PROVE  c \in exact[r][u] /\ chain'[u][c] = chain[u][c]
    <3>1. c \in exact[r][u] /\ ~(u = t /\ c = k)
      BY <2>1, <2>2, ChangedRows
    <3>2. c \in Key
      BY <2>1, <3>1
    <3> QED  BY <2>1, <2>2, <3>1, <3>2 DEF Rows
  <2>3. ASSUME NEW u \in Table, NEW c \in exact'[r][u],
               Missed(s, t, k), chain' = chain
        PROVE  c \in exact[r][u] /\ chain'[u][c] = chain[u][c]
    <3>1. exact'[r][u] \subseteq exact[r][u]
      BY <2>1, <2>3, MissedRows
    <3> QED  BY <2>3, <3>1
  <2> QED  BY <1>0, <2>2, <2>3
<1> USE DEF TypeInv, StoreOK, ControlOK, TxnOK, LoopOK, store, control, txn, Commits
<1>1. CASE CommitWrite(s)
  BY <1>1 DEF CommitWrite, Advance
<1>2. ASSUME NEW t \in Table, CallPut(s, t)
      PROVE  UNCHANGED Commits(r) /\ Kept
  BY <1>2 DEF CallPut
<1>3. CASE CommitRemove(s)
  <2>1. UNCHANGED Commits(r)
    BY <1>3 DEF CommitRemove, Advance
  <2>2. Kept
    <3> DEFINE t == Current(s).table
               k == Current(s).key
    <3>1. t \in Table /\ k \in Key
      <4>1. pos[s] \in 1..Len(statements[s]) /\ statements[s] \in Seq(Statement)
        BY <1>3 DEF CommitRemove, AtStatement
      <4>2. statements[s][pos[s]] \in Statement
        BY <4>1, ElementOfSeq
      <4> QED  BY <4>2 DEF Current, Statement
    <3>2. \/ Changed(s, t, k) /\ chain' = [chain EXCEPT ![t][k] = NoValue]
          \/ Missed(s, t, k) /\ chain' = chain
      BY <1>3 DEF CommitRemove
    <3> HIDE DEF t, k
    <3> QED  BY <1>0, <3>1, <3>2
  <2> QED  BY <2>1, <2>2
<1>4. ASSUME NEW t \in Table, NEW k \in Key, put(s, t, k)
      PROVE  UNCHANGED Commits(r) /\ Kept
  <2>1. UNCHANGED Commits(r)
    BY <1>4 DEF put
  <2>2. \/ Changed(s, t, k) /\ chain' = [chain EXCEPT ![t][k] = batch[s][t][k]]
        \/ Missed(s, t, k) /\ chain' = chain
    BY <1>4 DEF put
  <2>3. Kept
    BY <1>0, <2>2
  <2> QED  BY <2>1, <2>3
<1>5. ASSUME NEW t \in Table, CommitFlushed(s, t)
      PROVE  UNCHANGED Commits(r) /\ Kept
  BY <1>5 DEF CommitFlushed
<1>6. CASE CommitNoAdapter(s)
  BY <1>6 DEF CommitNoAdapter, CloseTransaction
<1>7. CASE CommitDone(s)
  BY <1>7 DEF CommitDone, CloseTransaction, Discard
<1>8. CASE CommitRemovePut(s)
  <2>1. Current(s).table \in Table /\ CallPut(s, Current(s).table)
    <3>1. pos[s] \in 1..Len(statements[s]) /\ statements[s] \in Seq(Statement)
      BY <1>8 DEF CommitRemovePut, AtStatement
    <3>2. statements[s][pos[s]] \in Statement
      BY <3>1, ElementOfSeq
    <3> QED  BY <1>8, <3>2 DEF CommitRemovePut, Current, Statement
  <2> QED  BY <1>2, <2>1
<1> HIDE DEF Commits
<1> QED
  BY <1>1, <1>2, <1>3, <1>4, <1>5, <1>6, <1>7, <1>8
     DEF CommitStep, CommitFlush, CommitCrash

LEMMA CommitCommit ==
    ASSUME TypeInv, \A r \in Session : TailOf(r), \A r \in Session : CommitOf(r),
           NEW s \in Session, CommitStep(s), ~Crash
    PROVE  \A r \in Session : CommitOf(r)'
<1> SUFFICES ASSUME NEW r \in Session PROVE CommitOf(r)'
  OBVIOUS
<1>1. CASE r # s
  BY <1>1, OthersCommit, SameCommit
<1>2. CASE r = s
  <2>1. CASE CommitRemovePut(s)
    <3>1. /\ phase[s] = "committing" /\ Current(s).type = "REMOVE"
          /\ Current(s).table \in Table /\ CallPut(s, Current(s).table)
      <4>1. pos[s] \in 1..Len(statements[s]) /\ statements[s] \in Seq(Statement)
        BY <2>1 DEF CommitRemovePut, AtStatement, TypeInv, TxnOK, LoopOK
      <4>2. statements[s][pos[s]] \in Statement
        BY <4>1, ElementOfSeq
      <4> QED  BY <2>1, <4>2 DEF CommitRemovePut, AtStatement, Current, Statement
    <3> QED  BY <1>2, <3>1, CommitOfCall
  <2>2. ASSUME NEW t \in Table, CommitFlush(s, t) PROVE CommitOf(s)'
    <3>1. phase[s] = "committing" /\ ~AtStatement(s) /\ CallPut(s, t)
      BY <2>2 DEF CommitFlush, AtFlush, AtStatement, TypeInv, TxnOK
    <3> QED  BY <3>1, CommitOfCall
  <2>3. CASE CommitNoAdapter(s)
    <3>1. exact'[s] = NoKeys /\ statements' = statements /\ CloseTransaction(s)
      BY <2>3 DEF CommitNoAdapter, TypeInv, TxnOK
    <3> QED  BY <1>2, <3>1, CommitOfClose
  <2>4. CASE CommitDone(s)
    <3>1. exact'[s] = NoKeys /\ statements'[s] = <<>> /\ CloseTransaction(s)
      BY <2>4 DEF CommitDone, Discard, TypeInv, TxnOK
    <3> QED  BY <1>2, <3>1, CommitOfClose
  <2> QED
    BY <1>2, <2>1, <2>2, <2>3, <2>4, CommitOfWrite, CommitOfRemove, CommitOfPut,
       CommitOfFlushed DEF CommitStep, CommitCrash
<1> QED  BY <1>1, <1>2

LEMMA CommitOfCrash == Crash => \A r \in Session : CommitOf(r)'
<1> SUFFICES ASSUME Crash, NEW r \in Session PROVE CommitOf(r)'
  OBVIOUS
<1>1. /\ statements'[r] = <<>> /\ pos'[r] = 1 /\ putting'[r] = {}
      /\ \A t \in Table : exact'[r][t] = {}
  BY DEF Crash, NoKeys
<1>2. RemovalsOf(r)'
  BY <1>1 DEF RemovalsOf
<1> QED  BY <1>1, <1>2, CommitAtStart

LEMMA CommitNext ==
    TypeInv /\ (\A r \in Session : TailOf(r)) /\ (\A r \in Session : CommitOf(r))
      /\ [Next]_vars
        => (\A r \in Session : CommitOf(r))'
<1> SUFFICES ASSUME TypeInv, \A r \in Session : TailOf(r),
                    \A r \in Session : CommitOf(r), [Next]_vars
             PROVE  \A r \in Session : CommitOf(r)'
  OBVIOUS
<1>1. CASE UNCHANGED <<chain, control, txn, loop>>
  BY <1>1, SameCommit DEF control, txn, loop, Commits
<1>2. ASSUME NEW s \in Session, StatementStep(s)
      PROVE  \A r \in Session : CommitOf(r)'
  <2>1. ASSUME NEW r \in Session, r # s PROVE CommitOf(r)'
    BY <1>2, <2>1, OthersStatement, ChainStatement, SameCommit
  <2>2. CommitOf(s)'
    BY <1>2, CommitStatement
  <2> QED  BY <2>1, <2>2
<1> QED
  BY <1>1, <1>2, CommitCommit, CommitOfCrash
     DEF Next, ServerCrash, open, close, vars, store

LEMMA CommitInit == Init => \A r \in Session : CommitOf(r)
<1> SUFFICES ASSUME Init, NEW r \in Session PROVE CommitOf(r)
  OBVIOUS
<1>1. /\ statements[r] = <<>> /\ pos[r] = 1 /\ putting[r] = {} /\ phase[r] = "idle"
      /\ \A t \in Table : exact[r][t] = {}
  BY NoKeysType DEF Init
<1> QED  BY <1>1 DEF CommitOf, RemovalsOf, AtStatement

(* A set with one element at most has no second one.                        *)
LEMMA AtMostOne ==
    ASSUME NEW S, IsFiniteSet(S), Cardinality(S) <= 1, NEW m \in S, NEW n \in S
    PROVE  m = n
<1>1. /\ Cardinality(S \ {n}) = Cardinality(S) - 1 /\ IsFiniteSet(S \ {n})
      /\ Cardinality(S \ {n}) \in Nat /\ Cardinality(S) \in Nat
  BY FS_RemoveElement, FS_CardinalityType
<1>2. Cardinality(S \ {n}) = 0
  BY <1>1
<1>3. S \ {n} = {}
  BY <1>1, <1>2, FS_EmptySet
<1> QED  BY <1>3

LEMMA OnFinite ==
    ASSUME NEW list \in Seq(Statement), NEW t, NEW k
    PROVE  IsFiniteSet(On(list, t, k))
<1>1. On(list, t, k) \subseteq 1..Len(list)
  BY DEF On
<1> QED  BY <1>1, FS_Interval, FS_Subset

(* When nothing waits any more, the contract and the table cache are both   *)
(* what the whole list makes of the copy.                                   *)
LEMMA CommittedIsReplay ==
    ASSUME TypeInv, NEW s \in Session, CommitOf(s), ReplayOf(s), Committed(s),
           NEW t \in cached[s], NEW k \in exact[s][t]
    PROVE  /\ chain[t][k] = NoValue <=> tableCache[s][t][k] = NoValue
           /\ Cardinality(On(statements[s], t, k)) <= 1
                 => chain[t][k] = tableCache[s][t][k]
<1> DEFINE S == On(statements[s], t, k)
<1>1. /\ t \in Table /\ k \in Key /\ statements[s] \in Seq(Statement)
      /\ pos[s] \in Nat /\ pos[s] = Len(statements[s]) + 1 /\ batch[s][t] = NoRows
  BY DEF CommitOf, TypeInv, TxnOK, LoopOK, Committed, AtFlush, NoTables
<1>2. Settled(s, t, k) = S
  BY <1>1 DEF Settled, On
<1>3. ~Sent(s, t, k)
  BY <1>1 DEF Sent, KeysOf, NoRows
<1>4. Decides(statements[s], S, base[s][t][k], chain[t][k])
  BY <1>1, <1>2, <1>3 DEF CommitOf, StoredOf
<1>5. \/ S = {} /\ tableCache[s][t][k] = base[s][t][k]
      \/ \E n \in S : /\ \A m \in S : m <= n
                      /\ tableCache[s][t][k] = statements[s][n].value
  BY <1>1 DEF ReplayOf, IsReplay
<1>6. CASE S = {}
  BY <1>4, <1>5, <1>6 DEF Decides
<1>7. CASE S # {}
  <2>1. PICK n \in S : /\ \A m \in S : m <= n
                       /\ tableCache[s][t][k] = statements[s][n].value
    BY <1>5, <1>7
  <2>2. ASSUME Cardinality(S) <= 1 PROVE \A m \in S : m = n
    BY <1>1, <2>2, AtMostOne, OnFinite
  <2> HIDE DEF S
  <2>3. /\ chain[t][k] = NoValue <=> statements[s][n].value = NoValue
        /\ (\A m \in S : m = n) => chain[t][k] = statements[s][n].value
    BY <1>4, <2>1 DEF Decides
  <2> QED  BY <2>1, <2>2, <2>3 DEF S
<1> QED  BY <1>6, <1>7

(* The greatest number of a set of positions, or 0.                         *)
LEMMA LastOf ==
    ASSUME NEW p \in Nat, NEW R, R \subseteq 1..p
    PROVE  \E n \in 0..p : (\A m \in R : m <= n) /\ (n = 0 \/ n \in R)
<1> DEFINE S == {n \in Nat : \A m \in R : m <= n}
<1>1. S \subseteq Nat /\ p \in S
  OBVIOUS
<1>2. PICK n \in S : \A l \in S : n <= l
  <2> DEFINE less == OpToRel(<, Nat)
  <2>1. IsWellFoundedOn(less, Nat)
    BY NatLessThanWellFounded
  <2> HIDE DEF less, S
  <2>2. \E x \in S : \A y \in S : <<y, x>> \notin less
    BY ONLY <2>1, WFMin, <1>1
  <2>3. \A x, y \in Nat : <<y, x>> \notin less => x <= y
    BY DEF less, OpToRel
  <2> QED  BY <1>1, <2>2, <2>3
<1>3. n \in 0..p /\ \A m \in R : m <= n
  BY <1>1, <1>2
<1>4. ASSUME n # 0, n \notin R PROVE FALSE
  <2>1. n - 1 \in Nat /\ \A m \in R : m <= n - 1
    BY <1>3, <1>4
  <2>2. n - 1 \in S
    BY <2>1
  <2> QED  BY <1>2, <1>3, <2>2
<1> QED  BY <1>3, <1>4

(* Where the loop is, a row shows the statements up to the last removal that *)
(* it has passed on the table; or, when its put has returned already, up to *)
(* the write whose value the batch has kept.                                *)
LEMMA PrefixOf ==
    ASSUME TypeInv, NEW s \in Session, TailOf(s), CommitOf(s),
           NEW t \in cached[s], NEW k \in exact[s][t]
    PROVE  \E n \in 0..(pos[s] - 1) :
              /\ \A m \in 1..(pos[s] - 1) :
                    statements[s][m].table = t /\ statements[s][m].type = "REMOVE"
                        => m <= n
              /\ Decides(statements[s], {m \in On(statements[s], t, k) : m <= n},
                         base[s][t][k], chain[t][k])
<1> DEFINE list == statements[s]
           UpTo(n) == {m \in On(list, t, k) : m <= n}
<1>1. /\ t \in Table /\ k \in Key /\ StoredOf(s, t, k)
      /\ pos[s] \in Nat \ {0} /\ pos[s] <= Len(list) + 1
      /\ list \in Seq(Statement)
  BY DEF TypeInv, TxnOK, LoopOK, LoopOf, CommitOf
<1>2. \A n \in DOMAIN list : list[n].type = "WRITE" \/ list[n].type = "REMOVE"
  <2> SUFFICES ASSUME NEW n \in DOMAIN list
               PROVE  list[n].type = "WRITE" \/ list[n].type = "REMOVE"
    OBVIOUS
  <2>1. list[n] \in Statement
    BY <1>1, ElementOfSeq
  <2> QED  BY <2>1 DEF Statement
<1>3. CASE Sent(s, t, k)
  <2>1. phase[s] = "committing" /\ batch[s][t][k] # NoValue /\ IsTail(s, t)
    BY <1>1, <1>3 DEF Sent, KeysOf, NoRows, TypeInv, LoopOf, TailOf
  <2>2. PICK u \in Unflushed(s, t) : list[u].key = k /\ list[u].value = batch[s][t][k]
    BY <1>1, <2>1 DEF IsTail, KeysOf
  <2>3. /\ u \in 0..(pos[s] - 1) /\ u \in UpTo(u)
        /\ \A m \in u..(pos[s] - 1) : ~(list[m].table = t /\ list[m].type = "REMOVE")
    BY <1>1, <2>2 DEF Unflushed, On
  <2>4. \A m \in 1..(pos[s] - 1) :
           list[m].table = t /\ list[m].type = "REMOVE" => m <= u
    BY <1>1, <2>3
  <2>5. \A n \in UpTo(u) : n \in Nat /\ n <= u
    BY <1>1 DEF On
  <2>6. \A n \in UpTo(u) : (\A m \in UpTo(u) : m <= n) => n = u
    BY <2>3, <2>5
  <2>7. chain[t][k] = list[u].value /\ list[u].value # NoValue
    BY <1>1, <1>3, <2>1, <2>2 DEF StoredOf
  <2> HIDE DEF UpTo, list
  <2>8. Decides(list, UpTo(u), base[s][t][k], chain[t][k])
    BY <2>3, <2>6, <2>7 DEF Decides
  <2> QED  BY <2>3, <2>4, <2>8 DEF UpTo, list
<1>4. CASE ~Sent(s, t, k)
  <2>1. Decides(list, Settled(s, t, k), base[s][t][k], chain[t][k])
    BY <1>1, <1>4 DEF StoredOf
  <2>2. ASSUME NEW n \in 0..(pos[s] - 1), Settled(s, t, k) = UpTo(n),
               \A m \in 1..(pos[s] - 1) :
                  list[m].table = t /\ list[m].type = "REMOVE" => m <= n
        PROVE  \E l \in 0..(pos[s] - 1) :
                  /\ \A m \in 1..(pos[s] - 1) :
                        list[m].table = t /\ list[m].type = "REMOVE" => m <= l
                  /\ Decides(list, UpTo(l), base[s][t][k], chain[t][k])
    <3> HIDE DEF UpTo
    <3> QED  BY <2>1, <2>2
  <2>3. CASE phase[s] # "committing"
    <3>1. pos[s] = 1
      BY <2>3 DEF TypeInv, LoopOf
    <3>2. Settled(s, t, k) = UpTo(0)
      BY <1>1, <3>1 DEF Settled, On
    <3> QED  BY <2>2, <3>1, <3>2
  <2>4. CASE pos[s] > Len(list) /\ batch[s][t] = NoRows
    <3>1. PICK n \in 0..(pos[s] - 1) : n = pos[s] - 1
      BY <1>1
    <3>2. Settled(s, t, k) = UpTo(n)
      BY <1>1, <2>4, <3>1 DEF Settled, On
    <3>3. \A m \in 1..(pos[s] - 1) : m <= n
      BY <1>1, <3>1
    <3> QED  BY <2>2, <3>2, <3>3
  <2>5. CASE ~(pos[s] > Len(list) /\ batch[s][t] = NoRows)
    <3>1. PICK n \in 0..(pos[s] - 1) :
             /\ \A m \in 1..(pos[s] - 1) :
                   list[m].table = t /\ list[m].type = "REMOVE" => m <= n
             /\ n = 0 \/ (list[n].table = t /\ list[n].type = "REMOVE")
      <4> DEFINE R == {m \in 1..(pos[s] - 1) :
                         list[m].table = t /\ list[m].type = "REMOVE"}
      <4>1. pos[s] - 1 \in Nat /\ R \subseteq 1..(pos[s] - 1)
        BY <1>1
      <4> HIDE DEF R
      <4>2. PICK p \in Nat : p = pos[s] - 1
        BY <4>1
      <4>3. PICK n \in 0..p : (\A m \in R : m <= n) /\ (n = 0 \/ n \in R)
        BY <4>1, <4>2, LastOf
      <4> QED  BY <4>2, <4>3 DEF R
    <3>2. \A m \in 1..(pos[s] - 1) :
             list[m].table = t => (m \notin Unflushed(s, t) <=> m <= n)
      BY <1>1, <1>2, <3>1 DEF Unflushed
    <3>3. Settled(s, t, k) = UpTo(n)
      BY <1>1, <2>5, <3>1, <3>2 DEF Settled, On
    <3> QED  BY <2>2, <3>1, <3>3
  <2> QED  BY <2>3, <2>4, <2>5
<1> QED  BY <1>3, <1>4

(* Whether bc_commit goes on, returns or is cut off, no row is anything but *)
(* a prefix of the transaction's statements on it.                          *)
THEOREM CommitsPrefix == Spec => []PrefixApplied
<1>1. Spec => [](\A r \in Session : TailOf(r))
  BY TailInit, TailStep, TypeInvariance, PTL DEF Spec
<1>2. Spec => [](\A r \in Session : CommitOf(r))
  BY <1>1, CommitInit, CommitNext, TypeInvariance, PTL DEF Spec
<1>3. TypeInv /\ (\A r \in Session : TailOf(r)) /\ (\A r \in Session : CommitOf(r))
         => PrefixApplied
  <2> SUFFICES ASSUME TypeInv, \A r \in Session : TailOf(r),
                      \A r \in Session : CommitOf(r)
               PROVE  PrefixApplied
    OBVIOUS
  <2> QED  BY PrefixOf DEF PrefixApplied
<1> QED  BY <1>1, <1>2, <1>3, TypeInvariance, PTL

(* When bc_commit has sent everything, a row that no other session changed, *)
(* and whose last call succeeded, is stored if and only if the table cache  *)
(* has it, and as it is there if the list has one statement on it at most;  *)
(* whatever calls on other rows failed, and whoever committed to them.      *)
THEOREM CommitStoresKeys == Spec => []CommittedKeys
<1>1. Spec => [](\A r \in Session : ReplayOf(r))
  BY ReplayInit, ReplayStep, TypeInvariance, PTL DEF Spec
<1>2. Spec => [](\A r \in Session : TailOf(r))
  BY TailInit, TailStep, TypeInvariance, PTL DEF Spec
<1>3. Spec => [](\A r \in Session : CommitOf(r))
  BY <1>2, CommitInit, CommitNext, TypeInvariance, PTL DEF Spec
<1>4. TypeInv /\ (\A r \in Session : ReplayOf(r)) /\ (\A r \in Session : CommitOf(r))
         => CommittedKeys
  <2> SUFFICES ASSUME TypeInv, \A r \in Session : ReplayOf(r),
                      \A r \in Session : CommitOf(r)
               PROVE  CommittedKeys
    OBVIOUS
  <2> QED  BY CommittedIsReplay DEF CommittedKeys
<1> QED  BY <1>1, <1>3, <1>4, TypeInvariance, PTL
=============================================================================
