--------------------------- MODULE StorageEngine ---------------------------
(***************************************************************************)
(* The BlockchainDB storage engine (src/engine/): MySQL sessions that run  *)
(* statements on tables kept in blockchain contracts.  A statement works   *)
(* on the session's Transaction object: it copies each table once into a   *)
(* table cache, applies its row operations to that copy and appends them   *)
(* to a list.  bc_commit replays the list on the contracts through the     *)
(* adapters of bc_adapter_map, which all sessions share without a lock.    *)
(*                                                                         *)
(* What the MySQL server does around the handler is external: a statement  *)
(* locks its tables, runs its row operations and ends with a statement     *)
(* commit or, when one of them failed, a statement rollback; an engine is  *)
(* called only if it registered in that scope; and the registrations of a  *)
(* scope are cleared when it ends, whatever the engine returned.           *)
(*                                                                         *)
(* A Transaction object with no table and no statement is the same as      *)
(* none, and an empty write batch the same as none: the code treats them   *)
(* alike.                                                                  *)
(***************************************************************************)
EXTENDS Integers, Sequences, FiniteSets

CONSTANTS
    Session, Table, Key, Value,
    NoValue,        \* what a row map holds for an absent key
    MaxStatements,  \* bound: length of a transaction's list of statements
    MaxOpen,        \* bound: instances of a table in the server's table cache
    NetworkFails    \* whether a call to the blockchain can fail

ASSUME NoValueAssumption == NoValue \notin Value
ASSUME SessionAssumption == IsFiniteSet(Session)
ASSUME BoundsAssumption == MaxStatements \in Nat /\ MaxOpen \in Nat
ASSUME NetworkAssumption == NetworkFails \in BOOLEAN

VARIABLES
    chain,          \* [Table -> Rows]: what the contracts store
    instances,      \* [Table -> 0..MaxOpen]: open instances of each table
    adapterMap,     \* the tables with an entry in bc_adapter_map
    \* The server's view of each session.
    mode,           \* "transaction" when OPTION_BEGIN is set
    registered,     \* the scopes trans_register_ha was called for
    phase,          \* where the session's current statement or commit is
    locked,         \* the tables of the current statement
    \* The Transaction object of each session.
    statements,     \* its list
    cached,         \* the tables in its table_cache
    tableCache,     \* their rows
    \* The local variables of bc_commit.
    pos,            \* i + 1; 1 when the session is not committing
    batch,          \* write_batch_map
    putting,        \* the table whose adapter is executing a put
    unsent,         \* the keys of that batch that have not been sent
    \* History: nothing the engine does depends on these.
    base,           \* the rows external_lock first put into the table cache
    exact,          \* the rows that are in the contract as this session
                    \* copied them or as its last call on them, which
                    \* succeeded, left them; no other session changed them
    failed,         \* bc_commit has returned 1 for this transaction
    mark            \* Len(statements) when the current statement began

store == <<chain, instances, adapterMap>>
control == <<mode, registered, phase, locked, mark>>
txn == <<statements, cached, tableCache, base, exact, failed>>
loop == <<pos, batch, putting, unsent>>
vars == <<store, control, txn, loop>>

Rows == [Key -> Value \cup {NoValue}]
NoRows == [k \in Key |-> NoValue]
KeysOf(rows) == {k \in Key : rows[k] # NoValue}

\* The value of a REMOVE is the empty BYTES(nullptr, 0).
Statement ==
    [type : {"WRITE", "REMOVE"}, table : Table, key : Key,
     value : Value \cup {NoValue}]
Write(t, k, v) == [type |-> "WRITE", table |-> t, key |-> k, value |-> v]
Removal(t, k) == [type |-> "REMOVE", table |-> t, key |-> k, value |-> NoValue]

TypeOK ==
    /\ chain \in [Table -> Rows]
    /\ instances \in [Table -> 0..MaxOpen]
    /\ adapterMap \subseteq Table
    /\ mode \in [Session -> {"autocommit", "transaction"}]
    /\ registered \in [Session -> SUBSET {"stmt", "trx"}]
    /\ phase \in [Session ->
                    {"idle", "locking", "executing", "failed", "committing"}]
    /\ locked \in [Session -> SUBSET Table]
    /\ statements \in [Session -> Seq(Statement)]
    /\ cached \in [Session -> SUBSET Table]
    /\ tableCache \in [Session -> [Table -> Rows]]
    /\ pos \in [Session -> Nat \ {0}]
    /\ batch \in [Session -> [Table -> Rows]]
    /\ putting \in [Session -> SUBSET Table]
    /\ unsent \in [Session -> SUBSET Key]
    /\ base \in [Session -> [Table -> Rows]]
    /\ exact \in [Session -> [Table -> SUBSET Key]]
    /\ failed \in [Session -> BOOLEAN]
    /\ mark \in [Session -> Nat]
    /\ \A s \in Session :
          /\ pos[s] <= Len(statements[s]) + 1
          /\ putting[s] # {} => phase[s] = "committing"
          /\ unsent[s] # {} => putting[s] # {}

NoTables == [t \in Table |-> NoRows]
NoKeys == [t \in Table |-> {}]

Init ==
    /\ chain = NoTables
    /\ instances = [t \in Table |-> 0]
    /\ adapterMap = {}
    /\ mode = [s \in Session |-> "autocommit"]
    /\ registered = [s \in Session |-> {}]
    /\ phase = [s \in Session |-> "idle"]
    /\ locked = [s \in Session |-> {}]
    /\ statements = [s \in Session |-> <<>>]
    /\ cached = [s \in Session |-> {}]
    /\ tableCache = [s \in Session |-> NoTables]
    /\ pos = [s \in Session |-> 1]
    /\ batch = [s \in Session |-> NoTables]
    /\ putting = [s \in Session |-> {}]
    /\ unsent = [s \in Session |-> {}]
    /\ base = [s \in Session |-> NoTables]
    /\ exact = [s \in Session |-> NoKeys]
    /\ failed = [s \in Session |-> FALSE]
    /\ mark = [s \in Session |-> 0]
-----------------------------------------------------------------------------
(* Instances of a table, opened and closed by the server's table cache. *)

UnusedInstance(t) == Cardinality({s \in Session : t \in locked[s]}) < instances[t]

\* emplace keeps the adapter an earlier instance of the table put there.
open(t) ==
    /\ instances[t] < MaxOpen
    /\ instances' = [instances EXCEPT ![t] = @ + 1]
    /\ adapterMap' = adapterMap \cup {t}
    /\ UNCHANGED <<chain, control, txn, loop>>

\* The entry goes with the first instance that closes, whoever else has the
\* table open or is inside a call of the adapter.
close(t) ==
    /\ UnusedInstance(t)
    /\ instances' = [instances EXCEPT ![t] = @ - 1]
    /\ adapterMap' = adapterMap \ {t}
    /\ UNCHANGED <<chain, control, txn, loop>>
-----------------------------------------------------------------------------
(* A statement. *)

\* BEGIN.
StartTransaction(s) ==
    /\ phase[s] = "idle"
    /\ mode[s] = "autocommit"
    /\ mode' = [mode EXCEPT ![s] = "transaction"]
    /\ UNCHANGED <<store, registered, phase, locked, mark, txn, loop>>

\* The results of get_all other than -1.  Its code 1 (no answer it can parse)
\* comes with no rows and is not looked at; without an adapter it is not called.
GetAll(t) ==
    IF t \in adapterMap
    THEN {chain[t]} \cup (IF NetworkFails THEN {NoRows} ELSE {})
    ELSE {NoRows}

\* trans_register_ha for the statement, and for the transaction if there is one
\* (wrongly: for the statement only).
Scopes_Statement(s) == {"stmt"}
Scopes(s) == {"stmt"} \cup (IF mode[s] = "transaction" THEN {"trx"} ELSE {})

\* The first lock a transaction takes on a table: the copy, then registration.
CacheTable(s, t, rows) ==
    /\ cached' = [cached EXCEPT ![s] = @ \cup {t}]
    /\ tableCache' = [tableCache EXCEPT ![s][t] = rows]
    /\ registered' = [registered EXCEPT ![s] = @ \cup Scopes(s)]
    /\ base' = [base EXCEPT ![s][t] = rows]
    /\ exact' = [exact EXCEPT ![s][t] = {k \in Key : rows[k] = chain[t][k]}]
    /\ UNCHANGED <<statements, failed>>

\* external_lock with a lock type other than F_UNLCK.
external_lock(s, t) ==
    /\ phase[s] \in {"idle", "locking"}
    /\ t \notin locked[s]
    /\ UnusedInstance(t)
    /\ locked' = [locked EXCEPT ![s] = @ \cup {t}]
    /\ mark' = [mark EXCEPT ![s] =
                  IF phase[s] = "idle" THEN Len(statements[s]) ELSE @]
    /\ \/ /\ t \in cached[s]
          /\ phase' = [phase EXCEPT ![s] = "locking"]
          /\ UNCHANGED <<registered, txn>>
       \/ /\ t \notin cached[s]
          /\ phase' = [phase EXCEPT ![s] = "locking"]
          /\ \E rows \in GetAll(t) : CacheTable(s, t, rows)
       \/ /\ t \notin cached[s]          \* get_all returned -1
          /\ t \in adapterMap /\ NetworkFails
          /\ phase' = [phase EXCEPT ![s] = "failed"]
          /\ UNCHANGED <<registered, txn>>
    /\ UNCHANGED <<store, mode, loop>>

CanExecute(s, t) ==
    /\ phase[s] \in {"locking", "executing"}
    /\ t \in locked[s]

\* The end of a row operation: list the new statements, change the copy.
Execute(s, t, list, rows) ==
    /\ Len(list) <= MaxStatements
    /\ statements' = [statements EXCEPT ![s] = list]
    /\ tableCache' = [tableCache EXCEPT ![s][t] = rows]
    /\ phase' = [phase EXCEPT ![s] = "executing"]
    /\ UNCHANGED <<store, mode, registered, locked, mark,
                   cached, base, exact, failed, loop>>

write_row(s, t, k, v) ==
    /\ CanExecute(s, t)
    /\ tableCache[s][t][k] = NoValue
    /\ Execute(s, t, Append(statements[s], Write(t, k, v)),
               [tableCache[s][t] EXCEPT ![k] = v])

\* HA_ERR_WRONG_COMMAND for a key the copy holds: the statement fails.
write_row_duplicate(s, t, k) ==
    /\ CanExecute(s, t)
    /\ tableCache[s][t][k] # NoValue
    /\ phase' = [phase EXCEPT ![s] = "failed"]
    /\ UNCHANGED <<store, mode, registered, locked, mark, txn, loop>>

\* The key stays the same.  The server skips rows that do not change.
update_row(s, t, k, v) ==
    /\ CanExecute(s, t)
    /\ tableCache[s][t][k] \notin {NoValue, v}
    /\ Execute(s, t, Append(statements[s], Write(t, k, v)),
               [tableCache[s][t] EXCEPT ![k] = v])

\* Wrongly: without the erase from the copy.
delete_row_Unerased(s, t, k) ==
    /\ CanExecute(s, t)
    /\ tableCache[s][t][k] # NoValue
    /\ Execute(s, t, Append(statements[s], Removal(t, k)), tableCache[s][t])

delete_row(s, t, k) ==
    /\ CanExecute(s, t)
    /\ tableCache[s][t][k] # NoValue
    /\ Execute(s, t, Append(statements[s], Removal(t, k)),
               [tableCache[s][t] EXCEPT ![k] = NoValue])

\* update_row when the key changes: delete_row, then write_row, whose error
\* for a key the copy holds is not looked at.
update_row_key(s, t, k, new, v) ==
    LET removed == [tableCache[s][t] EXCEPT ![k] = NoValue]
        list == Append(statements[s], Removal(t, k))
    IN  /\ CanExecute(s, t)
        /\ new # k
        /\ tableCache[s][t][k] # NoValue
        /\ \/ /\ removed[new] = NoValue
              /\ Execute(s, t, Append(list, Write(t, new, v)),
                         [removed EXCEPT ![new] = v])
           \/ /\ removed[new] # NoValue
              /\ Execute(s, t, list, removed)
-----------------------------------------------------------------------------
(* The end of a statement and of a transaction. *)

\* delete txn.
Discard(s) ==
    /\ statements' = [statements EXCEPT ![s] = <<>>]
    /\ cached' = [cached EXCEPT ![s] = {}]
    /\ tableCache' = [tableCache EXCEPT ![s] = NoTables]
    /\ base' = [base EXCEPT ![s] = NoTables]
    /\ exact' = [exact EXCEPT ![s] = NoKeys]
    /\ failed' = [failed EXCEPT ![s] = FALSE]

\* The server closes the statement's tables and forgets its registration.
CloseStatement(s) ==
    /\ phase' = [phase EXCEPT ![s] = "idle"]
    /\ locked' = [locked EXCEPT ![s] = {}]
    /\ registered' = [registered EXCEPT ![s] = @ \ {"stmt"}]
    /\ mark' = [mark EXCEPT ![s] = 0]
    /\ UNCHANGED mode

\* The transaction ends: its locals go, and so do its registrations.
CloseTransaction(s) ==
    /\ phase' = [phase EXCEPT ![s] = "idle"]
    /\ locked' = [locked EXCEPT ![s] = {}]
    /\ registered' = [registered EXCEPT ![s] = {}]
    /\ mark' = [mark EXCEPT ![s] = 0]
    /\ mode' = [mode EXCEPT ![s] = "autocommit"]
    /\ pos' = [pos EXCEPT ![s] = 1]
    /\ batch' = [batch EXCEPT ![s] = NoTables]
    /\ putting' = [putting EXCEPT ![s] = {}]
    /\ unsent' = [unsent EXCEPT ![s] = {}]

\* bc_commit is entered and does not return at once.
StartCommit(s) ==
    /\ phase' = [phase EXCEPT ![s] = "committing"]
    /\ UNCHANGED <<mode, registered, locked, mark>>

\* The engine is called at the end of the statement, and outside a transaction.
EndsWithStatement(s) == mode[s] = "autocommit" /\ "stmt" \in registered[s]

\* bc_commit(thd, false): "Statement commit but in a transaction so nothing
\* to do", or the commit of an autocommit statement.
EndStatement(s) ==
    /\ phase[s] \in {"locking", "executing"}
    /\ IF EndsWithStatement(s) THEN StartCommit(s) ELSE CloseStatement(s)
    /\ UNCHANGED <<store, txn, loop>>

\* bc_rollback(thd, false), after a statement that failed.
RollbackStatement(s) ==
    /\ phase[s] = "failed"
    /\ CloseStatement(s)
    /\ IF EndsWithStatement(s) THEN Discard(s) ELSE UNCHANGED txn
    /\ UNCHANGED <<store, loop>>

\* COMMIT: bc_commit(thd, true) if the engine registered.
Commit(s) ==
    /\ phase[s] = "idle"
    /\ mode[s] = "transaction"
    /\ \/ /\ "trx" \in registered[s]
          /\ StartCommit(s)
          /\ UNCHANGED loop
       \/ /\ "trx" \notin registered[s]
          /\ CloseTransaction(s)
    /\ UNCHANGED <<store, txn>>

\* ROLLBACK: bc_rollback(thd, true) if the engine registered.
Rollback(s) ==
    /\ phase[s] = "idle"
    /\ mode[s] = "transaction"
    /\ CloseTransaction(s)
    /\ IF "trx" \in registered[s] THEN Discard(s) ELSE UNCHANGED txn
    /\ UNCHANGED store
-----------------------------------------------------------------------------
(* The loops of bc_commit. *)

AtStatement(s) == phase[s] = "committing" /\ pos[s] <= Len(statements[s])
AtFlush(s) == phase[s] = "committing" /\ pos[s] = Len(statements[s]) + 1
Current(s) == statements[s][pos[s]]

\* std::map::emplace: a key that is in the batch keeps its value.
Emplace(rows, k, v) == IF rows[k] = NoValue THEN [rows EXCEPT ![k] = v] ELSE rows

\* i++ (wrongly: by two).
Advance_Skips(s) == pos' = [pos EXCEPT ![s] = @ + 2]
Advance(s) == pos' = [pos EXCEPT ![s] = @ + 1]

\* table_it->second.clear(), and two wrong ways of it: none, and that of the
\* whole write_batch_map.
ClearBatch_Keeps(b, t) == b
ClearBatch_All(b, t) == NoTables
ClearBatch(b, t) == [b EXCEPT ![t] = NoRows]

CommitWrite(s) ==
    LET w == Current(s)
    IN  /\ AtStatement(s)
        /\ w.type = "WRITE"
        /\ w.table \in adapterMap
        /\ batch' = [batch EXCEPT ![s][w.table] = Emplace(@, w.key, w.value)]
        /\ Advance(s)
        /\ UNCHANGED <<store, control, txn, putting, unsent>>

\* The adapter's put is called for the batch of table t.
CallPut(s, t) ==
    /\ putting[s] = {}
    /\ t \in adapterMap
    /\ batch[s][t] # NoRows
    /\ putting' = [putting EXCEPT ![s] = {t}]
    /\ unsent' = [unsent EXCEPT ![s] = KeysOf(batch[s][t])]
    /\ UNCHANGED <<store, control, txn, pos, batch>>

\* History: s has changed the row of k, and the copies of the others are stale;
\* or its call has failed, and the row is not what s meant it to be.
Changed(s, t, k) ==
    exact' = [r \in Session |->
        [exact[r] EXCEPT ![t] = IF r = s THEN @ \cup {k} ELSE @ \ {k}]]
Missed(s, t, k) == exact' = [exact EXCEPT ![s][t] = @ \ {k}]

\* Inside put: the Ethereum transaction of one key is mined, or it is not.
\* put keeps the keys it could not store, and nobody looks.
put(s, t, k) ==
    /\ putting[s] = {t}
    /\ k \in unsent[s]
    /\ unsent' = [unsent EXCEPT ![s] = @ \ {k}]
    /\ \/ /\ chain' = [chain EXCEPT ![t][k] = batch[s][t][k]]
          /\ Changed(s, t, k)
       \/ /\ NetworkFails
          /\ Missed(s, t, k)
          /\ UNCHANGED chain
    /\ UNCHANGED <<instances, adapterMap, control, statements, cached,
                   tableCache, base, failed, pos, batch, putting>>

CommitRemovePut(s) ==
    /\ AtStatement(s)
    /\ Current(s).type = "REMOVE"
    /\ CallPut(s, Current(s).table)

\* The batch of t is empty or put has returned; wrongly: in any case.
BatchSent_Unasked(s, t) == putting[s] = {} /\ t \in adapterMap
BatchSent(s, t) ==
    \/ putting[s] = {t} /\ unsent[s] = {}
    \/ putting[s] = {} /\ t \in adapterMap /\ batch[s][t] = NoRows

\* The remove itself, by the adapter found before the put: the contract
\* reverts it when the key is not stored, and it may fail like a put.
CommitRemove(s) ==
    LET t == Current(s).table
        k == Current(s).key
    IN  /\ AtStatement(s)
        /\ Current(s).type = "REMOVE"
        /\ BatchSent(s, t)
        /\ \/ /\ chain' = [chain EXCEPT ![t][k] = NoValue]
              /\ Changed(s, t, k)
           \/ /\ NetworkFails
              /\ Missed(s, t, k)
              /\ UNCHANGED chain
        /\ batch' = [batch EXCEPT ![s] = ClearBatch(@, t)]
        /\ putting' = [putting EXCEPT ![s] = {}]
        /\ Advance(s)
        /\ UNCHANGED <<instances, adapterMap, control, statements, cached,
                       tableCache, base, failed, unsent>>

\* A statement whose table has no adapter: return 1, the Transaction stays.
\* Wrongly: it waits for an adapter.
CommitNoAdapter_Waits(s) ==
    /\ AtStatement(s)
    /\ putting[s] = {}
    /\ Current(s).table \notin adapterMap
    /\ UNCHANGED vars

CommitNoAdapter(s) ==
    /\ AtStatement(s)
    /\ putting[s] = {}
    /\ Current(s).table \notin adapterMap
    /\ CloseTransaction(s)
    /\ exact' = [exact EXCEPT ![s] = NoKeys]
    /\ failed' = [failed EXCEPT ![s] = TRUE]
    /\ UNCHANGED <<store, statements, cached, tableCache, base>>

\* The second loop, one table after the other (in the order of their names;
\* nothing here depends on it).
CommitFlush(s, t) == AtFlush(s) /\ CallPut(s, t)

CommitFlushed(s, t) ==
    /\ AtFlush(s)
    /\ putting[s] = {t}
    /\ unsent[s] = {}
    /\ putting' = [putting EXCEPT ![s] = {}]
    /\ batch' = [batch EXCEPT ![s] = ClearBatch(@, t)]
    /\ UNCHANGED <<store, control, txn, pos, unsent>>

\* delete txn; return 0.
CommitDone(s) ==
    /\ AtFlush(s)
    /\ batch[s] = NoTables
    /\ CloseTransaction(s)
    /\ Discard(s)
    /\ UNCHANGED store

\* The server stops: what is on the chain stays, the rest is gone.
Crash ==
    /\ instances' = [t \in Table |-> 0]
    /\ adapterMap' = {}
    /\ mode' = [s \in Session |-> "autocommit"]
    /\ registered' = [s \in Session |-> {}]
    /\ phase' = [s \in Session |-> "idle"]
    /\ locked' = [s \in Session |-> {}]
    /\ statements' = [s \in Session |-> <<>>]
    /\ cached' = [s \in Session |-> {}]
    /\ tableCache' = [s \in Session |-> NoTables]
    /\ pos' = [s \in Session |-> 1]
    /\ batch' = [s \in Session |-> NoTables]
    /\ putting' = [s \in Session |-> {}]
    /\ unsent' = [s \in Session |-> {}]
    /\ base' = [s \in Session |-> NoTables]
    /\ exact' = [s \in Session |-> NoKeys]
    /\ failed' = [s \in Session |-> FALSE]
    /\ mark' = [s \in Session |-> 0]
    /\ UNCHANGED chain

\* The second loop uses the iterator find returned without comparing it with
\* end(): a table without an adapter takes the server down.
CommitCrash(s, t) ==
    /\ AtFlush(s)
    /\ putting[s] = {}
    /\ batch[s][t] # NoRows
    /\ t \notin adapterMap
    /\ Crash

\* A crash for another reason, an adapter closed while a call of it runs
\* (a use after free) among them.
ServerCrash == Crash
-----------------------------------------------------------------------------
CommitStep(s) ==
    \/ CommitWrite(s)
    \/ CommitRemovePut(s)
    \/ CommitRemove(s)
    \/ CommitNoAdapter(s)
    \/ \E t \in Table, k \in Key : put(s, t, k)
    \/ \E t \in Table : CommitFlush(s, t)
    \/ \E t \in Table : CommitFlushed(s, t)
    \/ \E t \in Table : CommitCrash(s, t)
    \/ CommitDone(s)

StatementStep(s) ==
    \/ StartTransaction(s)
    \/ \E t \in Table : external_lock(s, t)
    \/ \E t \in Table, k \in Key, v \in Value : write_row(s, t, k, v)
    \/ \E t \in Table, k \in Key : write_row_duplicate(s, t, k)
    \/ \E t \in Table, k \in Key, v \in Value : update_row(s, t, k, v)
    \/ \E t \in Table, k, new \in Key, v \in Value :
          update_row_key(s, t, k, new, v)
    \/ \E t \in Table, k \in Key : delete_row(s, t, k)
    \/ EndStatement(s)
    \/ RollbackStatement(s)
    \/ Commit(s)
    \/ Rollback(s)

Next ==
    \/ \E t \in Table : open(t)
    \/ \E t \in Table : close(t)
    \/ \E s \in Session : StatementStep(s)
    \/ \E s \in Session : CommitStep(s)
    \/ ServerCrash

Spec == Init /\ [][Next]_vars

\* A call of the blockchain returns: with an answer, or when the adapter has
\* polled for it long enough.  So bc_commit goes on.
Fairness == \A s \in Session : WF_vars(CommitStep(s))
FairSpec == Spec /\ Fairness
-----------------------------------------------------------------------------
(* What the engine keeps to. *)

\* The positions of a list that concern a row.
On(list, t, k) == {n \in DOMAIN list : list[n].table = t /\ list[n].key = k}

\* rows is what the list makes of the rows before on table t: the last
\* statement on a key decides.
IsReplay(list, t, before, rows) ==
    \A k \in Key :
        \/ On(list, t, k) = {} /\ rows[k] = before[k]
        \/ \E n \in On(list, t, k) :
              /\ \A m \in On(list, t, k) : m <= n
              /\ rows[k] = list[n].value

\* What a session reads in its table cache is what its list of statements
\* makes of the rows it copied, after any mix of row operations, failed
\* statements, statement rollbacks and failed commits: the list that bc_commit
\* replays and the copy that the statements see never drift apart.
CacheIsReplay ==
    \A s \in Session :
        /\ \A n \in DOMAIN statements[s] : statements[s][n].table \in cached[s]
        /\ \A t \in cached[s] :
              IsReplay(statements[s], t, base[s][t], tableCache[s][t])

\* The writes of table t among the statements bc_commit has passed that no
\* removal on t has followed yet.
Unflushed(s, t) ==
    {n \in 1..(pos[s] - 1) :
        /\ statements[s][n].table = t
        /\ statements[s][n].type = "WRITE"
        /\ \A m \in n..(pos[s] - 1) :
              ~(statements[s][m].table = t /\ statements[s][m].type = "REMOVE")}

\* "we batch W1 and W2 and send them together to the blockchain; then R1 is
\* executed.  Afterwards, W3-W5 are batched": while bc_commit walks the list,
\* the batch of a table holds the keys written since the last removal on that
\* table, and no other, each with a value that was written to it since.
BatchIsTail ==
    \A s \in Session, t \in Table :
        phase[s] = "committing" =>
            \/ pos[s] > Len(statements[s]) /\ batch[s][t] = NoRows
            \/ /\ KeysOf(batch[s][t]) = {statements[s][n].key : n \in Unflushed(s, t)}
               /\ \A k \in KeysOf(batch[s][t]) : \E n \in Unflushed(s, t) :
                     statements[s][n].key = k /\ statements[s][n].value = batch[s][t][k]

\* The last of the statements S decides whether the row is there, and an only
\* one its value: of two writes the batch may keep the first.
Decides(list, S, before, row) ==
    /\ S = {} => row = before
    /\ \A n \in S : (\A m \in S : m <= n) =>
          /\ row = NoValue <=> list[n].value = NoValue
          /\ (\A m \in S : m = n) => row = list[n].value

\* Wherever bc_commit is, and so wherever it stops (the server goes down, a
\* table has no adapter, an answer throws), a row whose last call succeeded and
\* that no other session changed shows a prefix of the transaction's statements
\* on it: one that reaches to the last removal on the table the loop has passed,
\* so that no write is later than its batch and no removal late at all.
PrefixApplied ==
    \A s \in Session : \A t \in cached[s] : \A k \in exact[s][t] :
        \E n \in 0..(pos[s] - 1) :
            /\ \A m \in 1..(pos[s] - 1) :
                  statements[s][m].table = t /\ statements[s][m].type = "REMOVE"
                      => m <= n
            /\ Decides(statements[s], {m \in On(statements[s], t, k) : m <= n},
                       base[s][t][k], chain[t][k])

Committed(s) == AtFlush(s) /\ batch[s] = NoTables

\* When bc_commit has sent everything, a row whose last call succeeded and that
\* no other session changed is stored if and only if it is in the table cache,
\* and as it is there if the transaction had one statement on it at most.  That
\* calls on other rows failed, or others commit to other rows, changes nothing.
CommittedKeys ==
    \A s \in Session : Committed(s) =>
        \A t \in cached[s] : \A k \in exact[s][t] :
            /\ chain[t][k] = NoValue <=> tableCache[s][t][k] = NoValue
            /\ Cardinality(On(statements[s], t, k)) <= 1
                  => chain[t][k] = tableCache[s][t][k]

\* A session that has copied a table or buffered a statement is registered in
\* the scope whose end calls the engine, so that its writes are applied or
\* discarded.  Not so after a bc_commit that returned 1: the server has dropped
\* the registration and external_lock does not renew it for a cached table.
BufferedIsRegistered ==
    \A s \in Session :
        cached[s] # {} /\ ~failed[s] =>
            (IF mode[s] = "transaction" THEN "trx" ELSE "stmt") \in registered[s]

\* A bc_commit that has begun ends, also if calls fail, adapters disappear and
\* other sessions go on: it returns 0 or 1, or the server stops.
CommitEnds ==
    \A s \in Session : phase[s] = "committing" ~> phase[s] # "committing"
-----------------------------------------------------------------------------
(* What its documentation and its messages say of it. *)

\* "the list of statements is executed and applied to the blockchain": a
\* row that no failed call and no other session concerns ends as it is in the
\* table cache.
CommittedRows ==
    \A s \in Session : Committed(s) =>
        \A t \in cached[s] : \A k \in exact[s][t] :
            chain[t][k] = tableCache[s][t][k]

\* "ROLLBACK: nothing to rollback": a statement that is rolled back inside a
\* transaction has buffered nothing.
NothingToRollback ==
    [][\A s \in Session :
          RollbackStatement(s) /\ mode[s] = "transaction"
              => Len(statements'[s]) = mark[s]]_vars
=============================================================================
