---------------------------- MODULE TableHandler ----------------------------
(***************************************************************************)
(* One open instance of a table (class ha_blockchain): its scan cursor,    *)
(* its positions and its row operations, on the copy of the table that the *)
(* session's Transaction holds.  rnd_init copies the rows of the cache to  *)
(* the vector all_items; rnd_next and rnd_pos read that vector, while      *)
(* write_row, update_row and delete_row change the cache.                  *)
(*                                                                         *)
(* External, as MySQL drives a handler: a statement locks the table (or    *)
(* LOCK TABLES has, and start_stmt begins each statement); it scans and    *)
(* changes the row it stands on, or it scans to collect positions, ends    *)
(* the scan and visits them after rnd_init(false), and nothing else        *)
(* changes the table between the two.  Statements end as in                *)
(* StorageEngine.tla: outside a transaction the Transaction is deleted.    *)
(***************************************************************************)
EXTENDS Integers, Sequences, FiniteSets, SequencesExt

CONSTANTS
    Key, Value,
    NoValue,        \* what the cache holds for an absent key
    MaxScans,       \* bound: calls of rnd_init without a rnd_end
    Modulus,        \* current_position is an unsigned integer: 2^64
    LockTables      \* whether the session may use LOCK TABLES

ASSUME KeyAssumption == IsFiniteSet(Key)
ASSUME ValueAssumption == NoValue \notin Value
ASSUME ScansAssumption == MaxScans \in Nat \ {0}
ASSUME ModulusAssumption == Modulus \in Nat /\ Modulus > MaxScans * Cardinality(Key) + 1
ASSUME LockAssumption == LockTables \in BOOLEAN

VARIABLES
    txn,            \* whether the session has a Transaction
    cache,          \* its table_cache of this table
    tablesLocked,   \* whether the session is inside LOCK TABLES
    up,             \* the server runs
    cursor,         \* "none" outside a statement; "idle", "scan", "collected"
                    \* or "visit" in one
    all_items,      \* the vector of rows
    current_position,
    refs,           \* the positions the server saved, each with its row
    record,         \* record[0] of the table
    here,           \* whether the server stands on the row in record[0]
    \* History.
    snapshot,       \* the rows of the table when the scan began
    seen,           \* the rows the scan has returned
    asked           \* the row that record[0] ought to hold

session == <<txn, cache, tablesLocked, up>>
items == <<all_items, current_position>>
history == <<snapshot, seen, asked>>
vars == <<session, cursor, items, refs, record, here, history>>

Row == [key : Key, value : Value]
NoRow == [key |-> "zeros", value |-> NoValue]       \* a buffer of zeros
Rows == [Key -> Value \cup {NoValue}]
KeysOf(c) == {k \in Key : c[k] # NoValue}
RowAt(c, k) == [key |-> k, value |-> c[k]]
RowsOf(c) == {RowAt(c, k) : k \in KeysOf(c)}
Offset == 0..(Modulus - 1)

TypeOK ==
    /\ txn \in BOOLEAN /\ tablesLocked \in BOOLEAN /\ up \in BOOLEAN
    /\ cache \in Rows
    /\ cursor \in {"none", "idle", "scan", "collected", "visit"}
    /\ all_items \in Seq(Row)
    /\ current_position \in Offset
    /\ refs \subseteq [pos : Offset, row : Row]
    /\ record \in Row \cup {NoRow}
    /\ here \in BOOLEAN
    /\ snapshot \subseteq Row
    /\ seen \in Seq(Row)
    /\ asked \in Row \cup {NoRow}

Init ==
    /\ txn = FALSE /\ tablesLocked = FALSE /\ up = TRUE
    /\ cache = [k \in Key |-> NoValue]
    /\ cursor = "none"
    /\ all_items = <<>> /\ current_position = 0
    /\ refs = {} /\ record = NoRow /\ here = FALSE
    /\ snapshot = {} /\ seen = <<>> /\ asked = NoRow

-----------------------------------------------------------------------------
(* Statements. *)

\* external_lock, when it makes the Transaction and copies the table: what the
\* contract holds is the business of others.  A later lock changes nothing.
\* Wrongly: the rows are copied into no Transaction.
Locked_NoTransaction == \/ txn /\ UNCHANGED <<txn, cache>>
                        \/ ~txn /\ cache' \in Rows /\ UNCHANGED txn
Locked == \/ txn /\ UNCHANGED <<txn, cache>>
          \/ ~txn /\ txn' = TRUE /\ cache' \in Rows

Statement ==
    /\ up /\ cursor = "none" /\ ~tablesLocked
    /\ Locked /\ cursor' = "idle"
    /\ UNCHANGED <<tablesLocked, up, items, refs, record, here, history>>

LockTable ==
    /\ up /\ cursor = "none" /\ LockTables /\ ~tablesLocked
    /\ Locked /\ tablesLocked' = TRUE
    /\ UNCHANGED <<up, cursor, items, refs, record, here, history>>

\* F_UNLCK: nothing.
UnlockTables ==
    /\ up /\ cursor = "none" /\ tablesLocked
    /\ tablesLocked' = FALSE
    /\ UNCHANGED <<txn, cache, up, cursor, items, refs, record, here, history>>

\* A statement inside LOCK TABLES begins without a lock.
start_stmt ==
    /\ up /\ cursor = "none" /\ tablesLocked
    /\ cursor' = "idle"
    /\ UNCHANGED <<session, items, refs, record, here, history>>

\* The statement commits and the Transaction goes, or a transaction goes on.
EndStatement ==
    /\ up /\ cursor = "idle"
    /\ cursor' = "none"
    /\ txn' \in {FALSE, txn}
    /\ refs' = {} /\ here' = FALSE
    /\ record' = NoRow /\ asked' = NoRow /\ snapshot' = {} /\ seen' = <<>>
    /\ UNCHANGED <<cache, tablesLocked, up, items>>

\* write_row, index_read, rnd_init and what may follow it use the Transaction's
\* pointer unseen.
NullTransaction ==
    /\ up /\ cursor = "idle" /\ ~txn
    /\ up' = FALSE
    /\ UNCHANGED <<txn, cache, tablesLocked, cursor, items, refs, record, here, history>>

Usable(at) == up /\ txn /\ cursor = at

-----------------------------------------------------------------------------
(* Scans and positions. *)

\* The rows of a map in its order: the same for the same rows.
Listed(c) == SetToSeq(RowsOf(c))

\* The current position is reset, the rows are appended.
rnd_init(next) ==
    /\ cursor' = next
    /\ current_position' = Modulus - 1
    /\ all_items' = all_items \o Listed(cache)
    /\ here' = FALSE
    /\ UNCHANGED <<session, record, asked>>

\* A table scan.
StartScan ==
    /\ Usable("idle") /\ rnd_init("scan")
    /\ snapshot' = RowsOf(cache) /\ seen' = <<>> /\ refs' = {}

\* "rnd_init() can be called two consecutive times without rnd_end() in
\* between": the scan of an inner table of a join starts again.
Rescan ==
    /\ Usable("scan") /\ refs = {} /\ snapshot = RowsOf(cache)
    /\ Len(all_items) + Cardinality(snapshot) <= MaxScans * Cardinality(snapshot)
    /\ rnd_init("scan")
    /\ snapshot' = RowsOf(cache) /\ seen' = <<>> /\ UNCHANGED refs

\* find_row: HA_ERR_END_OF_FILE and a buffer of zeros past the end.
find_row(p) == IF p < Len(all_items) THEN all_items[p + 1] ELSE NoRow

\* current_position + 1; the first one wraps (wrongly: it does not).
Next0_Unwrapped == current_position + 1
Next0 == (current_position + 1) % Modulus
AtEnd == current_position = Len(all_items)

\* Wrongly: the position is advanced after the row was fetched.
rnd_next_LateIncrement ==
    LET p == IF current_position = Modulus - 1 THEN 0 ELSE current_position IN
    /\ Usable("scan") /\ ~AtEnd
    /\ current_position' = p + 1
    /\ record' = find_row(p) /\ asked' = find_row(p)
    /\ here' = (p < Len(all_items))
    /\ seen' = IF p < Len(all_items) THEN Append(seen, find_row(p)) ELSE seen
    /\ UNCHANGED <<session, cursor, all_items, refs, snapshot>>

\* Wrongly: the first rnd_next takes the row after the first.
rnd_next_SkipsFirst ==
    LET p == IF current_position = Modulus - 1 THEN 1 ELSE Next0 IN
    /\ Usable("scan") /\ ~AtEnd
    /\ current_position' = IF p > Len(all_items) THEN Len(all_items) ELSE p
    /\ record' = find_row(p) /\ asked' = find_row(p)
    /\ here' = (p < Len(all_items))
    /\ seen' = IF p < Len(all_items) THEN Append(seen, find_row(p)) ELSE seen
    /\ UNCHANGED <<session, cursor, all_items, refs, snapshot>>

rnd_next ==
    /\ Usable("scan") /\ ~AtEnd
    /\ current_position' = Next0
    /\ record' = find_row(Next0) /\ asked' = find_row(Next0)
    /\ here' = (Next0 < Len(all_items))
    /\ seen' = IF Next0 < Len(all_items) THEN Append(seen, find_row(Next0)) ELSE seen
    /\ UNCHANGED <<session, cursor, all_items, refs, snapshot>>

\* A statement that collects positions changes no row meanwhile.
position ==
    /\ Usable("scan") /\ here /\ snapshot = RowsOf(cache)
    /\ refs' = refs \cup {[pos |-> current_position, row |-> record]}
    /\ UNCHANGED <<session, cursor, items, record, here, history>>

rnd_end ==
    /\ up /\ cursor \in {"scan", "visit"}
    /\ all_items' = <<>>
    /\ cursor' = IF cursor = "scan" /\ refs # {} THEN "collected" ELSE "idle"
    /\ here' = FALSE
    /\ UNCHANGED <<session, current_position, refs, record, history>>

\* rnd_init(false), before the positions are visited.
StartVisit ==
    /\ Usable("collected") /\ rnd_init("visit")
    /\ UNCHANGED <<refs, snapshot, seen>>

rnd_pos(p) ==
    /\ Usable("visit") /\ p \in refs
    /\ record' = find_row(p.pos) /\ asked' = p.row
    /\ here' = TRUE
    /\ refs' = refs \ {p}
    /\ UNCHANGED <<session, cursor, items, snapshot, seen>>

-----------------------------------------------------------------------------
(* Index reads and row operations. *)

\* A key that is not in the cache leaves zeros in the buffer; the result is 0.
\* For no exact match, or an index that begins neither with the first column nor as
\* the primary key does, HA_ERR_WRONG_COMMAND is returned before anything of this
\* state is touched: no step.
index_read(k) ==
    /\ Usable("idle")
    /\ record' = IF k \in KeysOf(cache) THEN RowAt(cache, k) ELSE NoRow
    /\ asked' = record'
    /\ here' = TRUE
    /\ UNCHANGED <<session, cursor, items, refs, snapshot, seen>>

Changed(c) ==
    /\ cache' = c
    /\ here' = FALSE
    /\ UNCHANGED <<txn, tablesLocked, up, cursor, items, refs, snapshot, seen>>

\* Rows come from outside: nothing is being read.
write_row(r) ==
    /\ Usable("idle")
    /\ r.key \notin KeysOf(cache)
    /\ Changed([cache EXCEPT ![r.key] = r.value])
    /\ record' = r /\ asked' = r

\* HA_ERR_WRONG_COMMAND: the statement ends here.
write_row_duplicate(r) ==
    /\ Usable("idle")
    /\ r.key \in KeysOf(cache)
    /\ record' = r /\ asked' = r /\ here' = FALSE
    /\ UNCHANGED <<session, cursor, items, refs, snapshot, seen>>

\* The row the server stands on may be changed; not while it collects positions,
\* and not in the inner table of a join.
CanChange == /\ up /\ txn /\ here /\ record # NoRow
             /\ \/ cursor = "scan" /\ refs = {} /\ Len(all_items) = Cardinality(snapshot)
                \/ cursor \in {"visit", "idle"}

\* The key stays: the new value is stored, and new_data, which is record[0],
\* is left with the old row that was copied there to compare the keys.
update_row(v) ==
    /\ CanChange
    /\ Changed([cache EXCEPT ![record.key] = v])
    /\ asked' = [record EXCEPT !.value = v]
    /\ UNCHANGED record

\* The key changes: delete_row, then write_row, whose result is not looked at
\* (wrongly: which replaces the row that has the new key).
Moved_Overwrites(r) == [cache EXCEPT ![record.key] = NoValue, ![r.key] = r.value]

Moved(r) == [cache EXCEPT ![record.key] = NoValue,
                          ![r.key] = IF @ = NoValue THEN r.value ELSE @]

update_row_key(r) ==
    /\ CanChange /\ r.key # record.key
    /\ Changed(Moved(r))
    /\ record' = r /\ asked' = r

delete_row ==
    /\ CanChange
    /\ Changed([cache EXCEPT ![record.key] = NoValue])
    /\ UNCHANGED <<record, asked>>

Next ==
    \/ Statement \/ LockTable \/ UnlockTables \/ start_stmt \/ EndStatement
    \/ NullTransaction
    \/ StartScan \/ Rescan \/ rnd_next \/ position \/ rnd_end \/ StartVisit
    \/ \E p \in refs : rnd_pos(p)
    \/ \E k \in Key : index_read(k)
    \/ \E r \in Row : write_row(r) \/ write_row_duplicate(r) \/ update_row_key(r)
    \/ \E v \in Value : update_row(v)
    \/ delete_row

Spec == Init /\ [][Next]_vars

-----------------------------------------------------------------------------
(* Properties *)

\* A scan that reached its end has returned every row the table had when it
\* began exactly once, though the statement updated and deleted rows and moved
\* them to other keys on the way (rnd_init takes a copy).  Not so a scan that was
\* started twice without rnd_end: RescanStartsOver.
ScanExact ==
    (cursor = "scan" /\ AtEnd /\ Len(all_items) = Cardinality(snapshot)) =>
        /\ {seen[i] : i \in DOMAIN seen} = snapshot
        /\ Len(seen) = Cardinality(snapshot)

\* What a scan has not reached yet is in the cache as the scan will return it:
\* a row that is changed or deleted is never one that is stale or gone.
AheadUntouched ==
    (cursor = "scan" /\ current_position # Modulus - 1) =>
        \A i \in 1..Len(all_items) :
            i > current_position + 1 => cache[all_items[i].key] = all_items[i].value

\* A position names the row it was taken of, though the scan has ended, another
\* vector was made, and the visit changes the rows it has been to (position
\* stores current_position, rnd_pos reads at it).  Between the two vectors no row
\* changes here: position and CanChange leave that to a server that collects all
\* positions first.  Where scans are started twice a position may name no row,
\* but never another one.
PositionsNameRows ==
    (cursor = "visit" /\ here) => record = asked \/ (MaxScans > 1 /\ record = NoRow)

\* The row a scan or a visit stands on is in the cache, with the value it was
\* read with, when the statement changes it.  It says nothing of a row that
\* index_read found, of its row of zeros, and of the buffer after update_row.
RowHereIsCached ==
    (CanChange /\ cursor # "idle") => cache[record.key] = record.value

\* "the second call should position the cursor to the start of the table" (the
\* comment on rnd_init): the next scan returns the rows of the table once.
RescanStartsOver == Len(seen) <= Cardinality(snapshot)

\* Outside LOCK TABLES a statement has a Transaction, because external_lock made
\* one or a transaction kept it: NullTransaction is confined to LOCK TABLES.
UnlockedHasTransaction == (cursor # "none" /\ ~tablesLocked) => txn

=============================================================================
