------------------------ MODULE TableHandler_proofs ------------------------
(***************************************************************************)
(* TableHandler, for every set of keys and values: its types and, when no  *)
(* scan is started before the last one ended (MaxScans = 1), that scans    *)
(* and positions name the rows they should.  A second rnd_init without a   *)
(* rnd_end is the case that the run Rescan shows to go wrong.              *)
(***************************************************************************)
EXTENDS TableHandler, FiniteSetTheorems, SequenceTheorems, TLAPS

(* No two rows have one key.                                               *)
KeyUnique(S) == \A r, q \in S : r.key = q.key => r = q

(* The rows of a scan, and the positions saved of them.                    *)
ScanOf(S) ==
    /\ S \subseteq Row /\ IsFiniteSet(S) /\ KeyUnique(S)
    /\ Cardinality(S) <= Cardinality(Key)
RefsOf(S) == \A p \in refs : p.pos < Cardinality(S) /\ p.row = SetToSeq(S)[p.pos + 1]

(* The number of rows that the scan has returned.                          *)
Returned == IF current_position = Modulus - 1 THEN 0
            ELSE IF current_position < Len(all_items) THEN current_position + 1
            ELSE Len(all_items)

Cached(r) == cache[r.key] = r.value

Scanning ==
    cursor = "scan" =>
        /\ ScanOf(snapshot) /\ RefsOf(snapshot)
        /\ all_items = SetToSeq(snapshot)
        /\ current_position = Modulus - 1 \/ current_position <= Len(all_items)
        /\ seen = SubSeq(all_items, 1, Returned)
        /\ \A i \in 1..Len(all_items) : i > Returned => Cached(all_items[i])
        /\ here => /\ current_position < Len(all_items)
                   /\ record = all_items[current_position + 1]
                   /\ Cached(record)
        /\ refs # {} => snapshot = RowsOf(cache)

Visiting ==
    /\ cursor = "collected" =>
        /\ ScanOf(snapshot) /\ RefsOf(snapshot) /\ snapshot = RowsOf(cache)
    /\ cursor = "visit" =>
        /\ ScanOf(snapshot) /\ RefsOf(snapshot) /\ all_items = SetToSeq(snapshot)
        /\ \A p \in refs : Cached(p.row)
        /\ here => /\ record = asked
                   /\ record \in snapshot /\ Cached(record)
                   /\ \A p \in refs : p.row # record

Ended == cursor \notin {"scan", "visit"} => all_items = <<>>

(* The inductive invariant.                                                *)
IInv == TypeOK /\ Ended /\ Scanning /\ Visiting
-----------------------------------------------------------------------------
(* Enough of arithmetic.                                                   *)
LEMMA KeyCount ==
    /\ Cardinality(Key) \in Nat
    /\ MaxScans = 1 => Modulus > Cardinality(Key) + 1
BY KeyAssumption, FS_CardinalityType, ModulusAssumption, ScansAssumption

LEMMA Offsets == Modulus \in Nat /\ 0 \in Offset /\ Modulus - 1 \in Offset
<1>1. MaxScans * Cardinality(Key) \in Nat
  BY KeyCount, ScansAssumption
<1> QED
  BY <1>1, ModulusAssumption DEF Offset

(* SetToSeq lists the members of a finite set once each.                   *)
LEMMA ListOfSet ==
    ASSUME NEW S, IsFiniteSet(S)
    PROVE  /\ SetToSeq(S) \in Seq(S)
           /\ Len(SetToSeq(S)) = Cardinality(S)
           /\ \A i, j \in 1..Cardinality(S) : SetToSeq(S)[i] = SetToSeq(S)[j] => i = j
           /\ {SetToSeq(S)[i] : i \in 1..Cardinality(S)} = S
<1>1. Cardinality(S) \in Nat /\ ExistsBijection(1..Cardinality(S), S)
  BY FS_CardinalityType
<1>2. PICK g : g \in [1..Cardinality(S) -> S] /\ IsInjective(g)
  BY <1>1 DEF ExistsBijection, Bijection, Injection
<1>3. SetToSeq(S) \in [1..Cardinality(S) -> S] /\ IsInjective(SetToSeq(S))
  BY <1>2 DEF SetToSeq
<1>4. SetToSeq(S) \in Seq(S) /\ Len(SetToSeq(S)) = Cardinality(S)
  BY <1>1, <1>3, SeqDef
<1>5. \A i, j \in 1..Cardinality(S) : SetToSeq(S)[i] = SetToSeq(S)[j] => i = j
  BY <1>3 DEF IsInjective
<1>6. SetToSeq(S) \in Surjection(1..Cardinality(S), S)
  <2>1. SetToSeq(S) \in Injection(1..Cardinality(S), S)
    BY <1>3 DEF Injection
  <2>2. Cardinality(1..Cardinality(S)) = Cardinality(S)
    BY <1>1, FS_Interval
  <2> QED
    BY <2>1, <2>2, FS_Injection
<1>7. {SetToSeq(S)[i] : i \in 1..Cardinality(S)} = S
  BY <1>3, <1>6 DEF Surjection
<1> QED
  BY <1>4, <1>5, <1>7

(* The rows of a cache.                                                    *)
LEMMA RowsOfCache ==
    ASSUME NEW c \in Rows
    PROVE  ScanOf(RowsOf(c)) /\ \A r \in RowsOf(c) : c[r.key] = r.value
<1>1. IsFiniteSet(KeysOf(c)) /\ Cardinality(KeysOf(c)) <= Cardinality(Key)
  BY KeyAssumption, FS_Subset DEF KeysOf
<1> DEFINE f == [k \in KeysOf(c) |-> RowAt(c, k)]
<1>2. f \in Surjection(KeysOf(c), RowsOf(c))
  BY DEF Surjection, RowsOf
<1> HIDE DEF f
<1>3. IsFiniteSet(RowsOf(c)) /\ Cardinality(RowsOf(c)) <= Cardinality(KeysOf(c))
  BY <1>1, <1>2, FS_Surjection
<1>4. Cardinality(RowsOf(c)) \in Nat /\ Cardinality(KeysOf(c)) \in Nat
  BY <1>1, <1>3, FS_CardinalityType
<1>5. RowsOf(c) \subseteq Row
  BY DEF RowsOf, RowAt, Row, KeysOf, Rows
<1>6. KeyUnique(RowsOf(c)) /\ \A r \in RowsOf(c) : c[r.key] = r.value
  BY DEF KeyUnique, RowsOf, RowAt
<1> QED
  BY <1>1, <1>3, <1>4, <1>5, <1>6, KeyCount DEF ScanOf

(* The list of a scan's rows.                                              *)
LEMMA ListOfScan ==
    ASSUME NEW S, ScanOf(S)
    PROVE  /\ SetToSeq(S) \in Seq(Row)
           /\ Len(SetToSeq(S)) = Cardinality(S)
           /\ Cardinality(S) \in Nat
           /\ \A i \in 1..Cardinality(S) : SetToSeq(S)[i] \in S
           /\ \A i, j \in 1..Cardinality(S) :
                SetToSeq(S)[i].key = SetToSeq(S)[j].key => i = j
           /\ {SetToSeq(S)[i] : i \in 1..Cardinality(S)} = S
<1>1. IsFiniteSet(S) /\ S \subseteq Row
  BY DEF ScanOf
<1>2. Cardinality(S) \in Nat
  BY <1>1, FS_CardinalityType
<1>3. /\ SetToSeq(S) \in Seq(S)
      /\ Len(SetToSeq(S)) = Cardinality(S)
      /\ \A i, j \in 1..Cardinality(S) : SetToSeq(S)[i] = SetToSeq(S)[j] => i = j
      /\ {SetToSeq(S)[i] : i \in 1..Cardinality(S)} = S
  BY <1>1, ListOfSet
<1>4. \A i \in 1..Cardinality(S) : SetToSeq(S)[i] \in S
  BY <1>3
<1>5. SetToSeq(S) \in Seq(Row)
  BY <1>1, <1>2, <1>3, <1>4, ElementOfSeq
<1> QED
  BY <1>2, <1>3, <1>4, <1>5 DEF ScanOf, KeyUnique
-----------------------------------------------------------------------------
(* The first state.                                                        *)
LEMMA InitIInv == Init => IInv
<1> SUFFICES ASSUME Init PROVE IInv
  OBVIOUS
<1>1. TypeOK
  <2>1. cache \in Rows
    BY DEF Init, Rows
  <2>2. all_items \in Seq(Row) /\ seen \in Seq(Row)
    BY DEF Init
  <2> QED
    BY <2>1, <2>2, Offsets DEF Init, TypeOK
<1> QED
  BY <1>1 DEF Init, IInv, Ended, Scanning, Visiting

(* Steps outside scans and visits.                                         *)
LEMMA OutsideIInv ==
    ASSUME IInv, TypeOK', UNCHANGED items, cursor \notin {"scan", "collected", "visit"},
           cursor' \notin {"scan", "collected", "visit"}
    PROVE  IInv'
BY DEF IInv, Ended, Scanning, Visiting, items

LEMMA SessionIInv ==
    ASSUME IInv,
           \/ Statement \/ LockTable \/ UnlockTables \/ start_stmt \/ EndStatement
           \/ NullTransaction
    PROVE  IInv'
<1> USE DEF IInv, session, items, history
<1>1. CASE Statement
  <2>1. TypeOK'
    BY <1>1 DEF Statement, Locked, TypeOK
  <2> QED
    BY <1>1, <2>1, OutsideIInv DEF Statement
<1>2. CASE LockTable
  <2>1. TypeOK'
    BY <1>2 DEF LockTable, Locked, TypeOK
  <2> QED
    BY <1>2, <2>1, OutsideIInv DEF LockTable
<1>3. CASE UnlockTables
  <2>1. TypeOK'
    BY <1>3 DEF UnlockTables, TypeOK
  <2> QED
    BY <1>3, <2>1, OutsideIInv DEF UnlockTables
<1>4. CASE start_stmt
  <2>1. TypeOK'
    BY <1>4 DEF start_stmt, TypeOK
  <2> QED
    BY <1>4, <2>1, OutsideIInv DEF start_stmt
<1>5. CASE EndStatement
  <2>1. refs' \subseteq [pos : Offset, row : Row] /\ snapshot' \subseteq Row
    BY <1>5 DEF EndStatement
  <2>2. seen' \in Seq(Row)
    BY <1>5 DEF EndStatement
  <2>3. here' \in BOOLEAN
    BY <1>5 DEF EndStatement
  <2>4. txn \in BOOLEAN
    BY DEF TypeOK
  <2>5. txn' \in BOOLEAN
    BY <1>5, <2>4, Zenon DEF EndStatement
  <2>6. TypeOK'
    BY <1>5, <2>1, <2>2, <2>3, <2>5 DEF EndStatement, TypeOK
  <2> QED
    BY <1>5, <2>6, OutsideIInv DEF EndStatement
<1>6. CASE NullTransaction
  <2>1. TypeOK'
    BY <1>6 DEF NullTransaction, TypeOK
  <2> QED
    BY <1>6, <2>1, OutsideIInv DEF NullTransaction
<1> QED
  BY <1>1, <1>2, <1>3, <1>4, <1>5, <1>6

(* Rows are read by key or written: no scan.                               *)
LEMMA KeyedIInv ==
    ASSUME IInv,
           \/ \E k \in Key : index_read(k)
           \/ \E r \in Row : write_row(r) \/ write_row_duplicate(r)
    PROVE  IInv'
<1>1. ASSUME NEW k \in Key, index_read(k)
      PROVE  IInv'
  <2>1. RowAt(cache, k) \in Row \/ k \notin KeysOf(cache)
    BY DEF IInv, TypeOK, RowAt, Row, KeysOf, Rows
  <2>2. record' \in Row \cup {NoRow} /\ asked' \in Row \cup {NoRow}
    BY <1>1, <2>1 DEF index_read
  <2>3. here' \in BOOLEAN
    BY <1>1 DEF index_read
  <2>4. UNCHANGED <<txn, cache, tablesLocked, up, cursor, all_items, current_position, refs,
                    snapshot, seen>>
    BY <1>1 DEF index_read, session, items
  <2>5. TypeOK
    BY DEF IInv
  <2>6. TypeOK'
    BY <2>2, <2>4, <2>5, <2>3 DEF TypeOK
  <2> QED
    BY <1>1, <2>6, OutsideIInv DEF index_read, Usable
<1>2. ASSUME NEW r \in Row, write_row(r)
      PROVE  IInv'
  <2>1. [cache EXCEPT ![r.key] = r.value] \in Rows
    BY DEF IInv, TypeOK, Rows, Row
  <2>2. TypeOK'
    BY <1>2, <2>1 DEF IInv, write_row, Changed, TypeOK, items
  <2> QED
    BY <1>2, <2>2, OutsideIInv DEF write_row, Changed, Usable
<1>3. ASSUME NEW r \in Row, write_row_duplicate(r)
      PROVE  IInv'
  <2>1. TypeOK'
    BY <1>3 DEF IInv, write_row_duplicate, TypeOK, session, items
  <2> QED
    BY <1>3, <2>1, OutsideIInv DEF write_row_duplicate, Usable
<1> QED
  BY <1>1, <1>2, <1>3
-----------------------------------------------------------------------------
(* What the list of a scan gives at a position.                            *)
LEMMA RowOfPosition ==
    ASSUME NEW S, ScanOf(S), all_items = SetToSeq(S), NEW p \in Nat, p < Cardinality(S)
    PROVE  find_row(p) = all_items[p + 1] /\ find_row(p) \in S
<1>1. Len(all_items) = Cardinality(S) /\ Cardinality(S) \in Nat
  BY ListOfScan
<1>2. p + 1 \in 1..Cardinality(S)
  BY <1>1
<1> QED
  BY <1>1, <1>2, ListOfScan DEF find_row

(* Scans begin.                                                            *)
LEMMA BeginIInv ==
    ASSUME IInv, MaxScans = 1, StartScan \/ Rescan
    PROVE  IInv'
<1>1. TypeOK /\ Ended /\ Scanning
  BY DEF IInv
<1>2. cache \in Rows
  BY <1>1 DEF TypeOK
<1> DEFINE S == RowsOf(cache)
<1>3. ScanOf(S) /\ \A r \in S : cache[r.key] = r.value
  BY <1>2, RowsOfCache
<1>4. /\ SetToSeq(S) \in Seq(Row) /\ Len(SetToSeq(S)) = Cardinality(S)
      /\ Cardinality(S) \in Nat
      /\ \A i \in 1..Cardinality(S) : SetToSeq(S)[i] \in S
  BY <1>3, ListOfScan
<1> HIDE DEF S
<1>5. all_items = <<>> \/ (all_items = SetToSeq(S) /\ Cardinality(S) = 0)
  <2>1. CASE StartScan
    BY <1>1, <2>1 DEF StartScan, Usable, Ended
  <2>2. CASE Rescan
    <3>1. /\ cursor = "scan" /\ snapshot = S
          /\ Len(all_items) + Cardinality(snapshot) <= MaxScans * Cardinality(snapshot)
      BY <2>2 DEF Rescan, Usable, S
    <3>2. all_items = SetToSeq(S)
      BY <1>1, <3>1 DEF Scanning
    <3>3. Cardinality(S) + Cardinality(S) <= Cardinality(S)
      BY <1>4, <3>1, <3>2
    <3> QED
      BY <1>4, <3>2, <3>3
  <2> QED
    BY <2>1, <2>2
<1>6. all_items \o SetToSeq(S) = SetToSeq(S)
  BY <1>4, <1>5
<1>7. /\ cursor' = "scan" /\ current_position' = Modulus - 1
      /\ all_items' = SetToSeq(S)
      /\ here' = FALSE /\ snapshot' = S /\ seen' = <<>> /\ refs' = {}
      /\ UNCHANGED <<session, record, asked>>
  BY <1>6 DEF StartScan, Rescan, rnd_init, Listed, S
<1>8. TypeOK'
  <2>1. all_items' \in Seq(Row) /\ seen' \in Seq(Row) /\ snapshot' \subseteq Row
    BY <1>3, <1>4, <1>7 DEF ScanOf
  <2>2. UNCHANGED <<txn, cache, tablesLocked, up, record, asked>>
    BY <1>7 DEF session
  <2>3. refs' \subseteq [pos : Offset, row : Row]
    BY <1>7
  <2> QED
    BY <1>1, <1>7, <2>1, <2>2, <2>3, Offsets DEF TypeOK
<1>9. Returned' = 0 /\ cache' = cache
  BY <1>7 DEF Returned, session
<1>10. Scanning'
  <2>1. \A i \in 1..Len(all_items') : cache'[all_items'[i].key] = all_items'[i].value
    BY <1>3, <1>4, <1>7, <1>9
  <2>2. seen' = SubSeq(all_items', 1, 0)
    BY <1>4, <1>7
  <2>3. ScanOf(snapshot)' /\ RefsOf(snapshot)'
    BY <1>3, <1>7 DEF ScanOf, RefsOf
  <2> QED
    BY <1>7, <1>9, <2>1, <2>2, <2>3 DEF Scanning, Cached
<1> QED
  BY <1>7, <1>8, <1>10 DEF IInv, Ended, Visiting

(* A scan goes on.                                                         *)
LEMMA NextRowIInv ==
    ASSUME IInv, MaxScans = 1, rnd_next
    PROVE  IInv'
<1>1. TypeOK /\ Scanning
  BY DEF IInv
<1>2. /\ cursor = "scan" /\ ScanOf(snapshot) /\ RefsOf(snapshot)
      /\ all_items = SetToSeq(snapshot)
      /\ current_position = Modulus - 1 \/ current_position <= Len(all_items)
      /\ seen = SubSeq(all_items, 1, Returned)
      /\ \A i \in 1..Len(all_items) : i > Returned => Cached(all_items[i])
      /\ refs # {} => snapshot = RowsOf(cache)
  BY <1>1 DEF rnd_next, Usable, Scanning
<1> DEFINE n == Len(all_items)
<1>3. /\ n \in Nat /\ n = Cardinality(snapshot) /\ n < Modulus - 1
      /\ all_items \in Seq(Row)
  BY <1>2, ListOfScan, KeyCount, Offsets DEF ScanOf
<1>4. current_position \in Nat /\ current_position # n
  BY <1>1 DEF rnd_next, AtEnd, TypeOK, Offset
<1>5. Next0 = Returned /\ Next0 \in Nat /\ Next0 <= n
  <2>1. CASE current_position = Modulus - 1
    BY <2>1, <1>3, Offsets DEF Next0, Returned
  <2>2. CASE current_position < n
    <3>1. current_position + 1 \in 0..(Modulus - 1)
      BY <1>3, <1>4, <2>2, Offsets
    <3> QED
      BY <1>3, <1>4, <2>2, <3>1, Offsets DEF Next0, Returned
  <2> QED
    BY <1>2, <1>3, <1>4, <2>1, <2>2
<1>6. /\ current_position' = Next0
      /\ record' = find_row(Next0) /\ asked' = find_row(Next0)
      /\ here' = (Next0 < n)
      /\ seen' = IF Next0 < n THEN Append(seen, find_row(Next0)) ELSE seen
      /\ UNCHANGED <<cache, txn, tablesLocked, up, cursor, all_items, refs, snapshot>>
  BY DEF rnd_next, session
<1>7. Next0 < n => find_row(Next0) = all_items[Next0 + 1] /\ find_row(Next0) \in Row
  BY <1>2, <1>3, <1>5, RowOfPosition DEF ScanOf
<1>8. Next0 >= n => find_row(Next0) = NoRow
  BY <1>3, <1>5 DEF find_row
<1>9. Returned' = IF Next0 < n THEN Next0 + 1 ELSE n
  BY <1>3, <1>5, <1>6 DEF Returned
<1>10. seen' = SubSeq(all_items, 1, Returned') /\ seen' \in Seq(Row)
  <2>1. CASE Next0 < n
    <3>1. seen' = Append(SubSeq(all_items, 1, Next0), all_items[Next0 + 1])
      BY <1>2, <1>5, <1>6, <1>7, <2>1
    <3>2. Append(SubSeq(all_items, 1, Next0), all_items[Next0 + 1])
            = SubSeq(all_items, 1, Next0 + 1)
      BY <1>3, <1>5, <2>1
    <3>3. SubSeq(all_items, 1, Next0 + 1) \in Seq(Row)
      BY <1>3, <1>5, <2>1
    <3> QED
      BY <1>9, <2>1, <3>1, <3>2, <3>3
  <2>2. CASE ~(Next0 < n)
    BY <1>1, <1>2, <1>5, <1>6, <1>9, <2>2, <1>3 DEF TypeOK
  <2> QED
    BY <2>1, <2>2
<1>11. TypeOK'
  <2>1. current_position' \in Offset
    BY <1>3, <1>5, <1>6, Offsets DEF Offset
  <2>2. record' \in Row \cup {NoRow} /\ asked' \in Row \cup {NoRow} /\ here' \in BOOLEAN
    BY <1>3, <1>5, <1>6, <1>7, <1>8
  <2> QED
    BY <1>1, <1>6, <1>10, <2>1, <2>2 DEF TypeOK
<1>12. Scanning'
  <2>1. ScanOf(snapshot)' /\ RefsOf(snapshot)'
    BY <1>2, <1>6 DEF ScanOf, RefsOf
  <2>2. \A i \in 1..n : i > Returned' => cache[all_items[i].key] = all_items[i].value
    BY <1>2, <1>3, <1>5, <1>9 DEF Cached
  <2>3. Next0 < n => cache[all_items[Next0 + 1].key] = all_items[Next0 + 1].value
    BY <1>2, <1>3, <1>5 DEF Cached
  <2>4. refs' # {} => snapshot' = RowsOf(cache')
    BY <1>2, <1>6
  <2> QED
    BY <1>2, <1>3, <1>5, <1>6, <1>7, <1>10, <2>1, <2>2, <2>3, <2>4
    DEF Scanning, Cached, RowsOf, KeysOf, RowAt
<1> QED
  BY <1>2, <1>6, <1>11, <1>12 DEF IInv, Ended, Visiting

(* A position is saved.                                                    *)
LEMMA PositionIInv ==
    ASSUME IInv, position
    PROVE  IInv'
<1>1. TypeOK /\ Scanning
  BY DEF IInv
<1>2. /\ cursor = "scan" /\ here /\ snapshot = RowsOf(cache)
      /\ refs' = refs \cup {[pos |-> current_position, row |-> record]}
      /\ UNCHANGED <<txn, cache, tablesLocked, up, cursor, all_items, current_position,
                     record, here, snapshot, seen, asked>>
  BY DEF position, Usable, session, items, history
<1>3. /\ ScanOf(snapshot) /\ RefsOf(snapshot) /\ all_items = SetToSeq(snapshot)
      /\ current_position < Len(all_items)
      /\ record = all_items[current_position + 1]
  BY <1>1, <1>2 DEF Scanning
<1>4. Len(all_items) = Cardinality(snapshot) /\ all_items \in Seq(Row)
      /\ current_position \in Nat
  BY <1>1, <1>3, ListOfScan, Offsets DEF TypeOK, Offset
<1>5. record \in Row
  BY <1>3, <1>4, ElementOfSeq
<1>6. TypeOK'
  BY <1>1, <1>2, <1>5 DEF TypeOK
<1>7. RefsOf(snapshot)'
  BY <1>2, <1>3, <1>4 DEF RefsOf
<1>8. Scanning'
  BY <1>1, <1>2, <1>7 DEF Scanning, ScanOf, Returned, Cached, RowsOf, KeysOf, RowAt
<1> QED
  BY <1>2, <1>6, <1>8 DEF IInv, Ended, Visiting

(* A scan or a visit ends.                                                 *)
LEMMA EndIInv ==
    ASSUME IInv, rnd_end
    PROVE  IInv'
<1>1. TypeOK /\ Scanning
  BY DEF IInv
<1>2. /\ cursor \in {"scan", "visit"}
      /\ all_items' = <<>> /\ here' = FALSE
      /\ cursor' = IF cursor = "scan" /\ refs # {} THEN "collected" ELSE "idle"
      /\ UNCHANGED <<txn, cache, tablesLocked, up, current_position, refs, record,
                     snapshot, seen, asked>>
  BY DEF rnd_end, session, history
<1>3. all_items' \in Seq(Row)
  BY <1>2
<1>4. here' \in BOOLEAN
  BY <1>2
<1>5. cursor' \in {"none", "idle", "scan", "collected", "visit"}
  BY <1>2
<1>6. TypeOK'
  BY <1>1, <1>2, <1>3, <1>4, <1>5 DEF TypeOK
<1>7. cursor' = "collected" => /\ ScanOf(snapshot) /\ RefsOf(snapshot)
                               /\ snapshot = RowsOf(cache)
  BY <1>1, <1>2 DEF Scanning
<1>8. Visiting'
  BY <1>2, <1>7 DEF Visiting, ScanOf, RefsOf, RowsOf, KeysOf, RowAt
<1> QED
  BY <1>2, <1>6, <1>8 DEF IInv, Ended, Scanning

(* The saved positions are going to be visited.                            *)
LEMMA StartVisitIInv ==
    ASSUME IInv, StartVisit
    PROVE  IInv'
<1>1. TypeOK /\ Ended /\ Visiting
  BY DEF IInv
<1>2. /\ cursor = "collected" /\ cursor' = "visit"
      /\ current_position' = Modulus - 1
      /\ all_items' = all_items \o SetToSeq(RowsOf(cache))
      /\ here' = FALSE
      /\ UNCHANGED <<txn, cache, tablesLocked, up, record, asked, refs, snapshot, seen>>
  BY DEF StartVisit, Usable, rnd_init, Listed, session
<1>3. ScanOf(snapshot) /\ RefsOf(snapshot) /\ snapshot = RowsOf(cache)
  BY <1>1, <1>2 DEF Visiting
<1>4. /\ SetToSeq(snapshot) \in Seq(Row) /\ Len(SetToSeq(snapshot)) = Cardinality(snapshot)
      /\ \A i \in 1..Cardinality(snapshot) : SetToSeq(snapshot)[i] \in snapshot
      /\ Cardinality(snapshot) \in Nat
  BY <1>3, ListOfScan
<1>5. all_items' = SetToSeq(snapshot)
  BY <1>1, <1>2, <1>3, <1>4 DEF Ended
<1>6. here' \in BOOLEAN
  BY <1>2
<1>7. TypeOK'
  BY <1>1, <1>2, <1>4, <1>5, <1>6, Offsets DEF TypeOK
<1>8. \A p \in refs : cache[p.row.key] = p.row.value
  <2>1. \A r \in snapshot : cache[r.key] = r.value
    BY <1>1, <1>3, RowsOfCache DEF TypeOK
  <2>2. \A p \in refs : p.pos \in Nat /\ p.pos < Cardinality(snapshot)
                         /\ p.row = SetToSeq(snapshot)[p.pos + 1]
    BY <1>1, <1>3, Offsets DEF RefsOf, TypeOK, Offset
  <2>3. \A p \in refs : p.row \in snapshot
    BY <1>4, <2>2
  <2> QED
    BY <2>1, <2>3
<1>9. Visiting'
  BY <1>2, <1>3, <1>5, <1>8 DEF Visiting, ScanOf, RefsOf, Cached
<1> QED
  BY <1>2, <1>7, <1>9 DEF IInv, Ended, Scanning

(* A saved position is visited.                                            *)
LEMMA VisitIInv ==
    ASSUME IInv, NEW p \in refs, rnd_pos(p)
    PROVE  IInv'
<1>1. TypeOK /\ Visiting
  BY DEF IInv
<1>2. /\ cursor = "visit" /\ record' = find_row(p.pos) /\ asked' = p.row /\ here' = TRUE
      /\ refs' = refs \ {p}
      /\ UNCHANGED <<txn, cache, tablesLocked, up, cursor, all_items, current_position,
                     snapshot, seen>>
  BY DEF rnd_pos, Usable, session, items
<1>3. /\ ScanOf(snapshot) /\ RefsOf(snapshot) /\ all_items = SetToSeq(snapshot)
      /\ \A q \in refs : Cached(q.row)
  BY <1>1, <1>2 DEF Visiting
<1>4. \A q \in refs : /\ q.pos \in Nat /\ q.pos < Cardinality(snapshot)
                      /\ q.row = all_items[q.pos + 1]
                      /\ q = [pos |-> q.pos, row |-> q.row]
  BY <1>1, <1>3, Offsets DEF RefsOf, TypeOK, Offset
<1>5. record' = p.row /\ record' \in snapshot /\ record' \in Row
  BY <1>2, <1>3, <1>4, RowOfPosition DEF ScanOf
<1>6. \A q \in refs : q.row = p.row => q = p
  <2>1. Cardinality(snapshot) \in Nat
        /\ \A i, j \in 1..Cardinality(snapshot) : all_items[i].key = all_items[j].key => i = j
    BY <1>3, ListOfScan
  <2>2. \A q \in refs : q.pos + 1 \in 1..Cardinality(snapshot)
    BY <1>4, <2>1
  <2>3. \A q \in refs : q.row = p.row => q.pos + 1 = p.pos + 1
    BY <1>4, <2>1, <2>2
  <2>4. \A q \in refs : q.row = p.row => q.pos = p.pos
    BY <1>4, <2>3
  <2> QED
    BY <1>4, <2>4
<1>7. here' \in BOOLEAN
  BY <1>2
<1>8. TypeOK'
  BY <1>1, <1>2, <1>5, <1>7 DEF TypeOK
<1>9. Visiting'
  BY <1>2, <1>3, <1>5, <1>6 DEF Visiting, ScanOf, RefsOf, Cached
<1> QED
  BY <1>2, <1>8, <1>9 DEF IInv, Ended, Scanning
-----------------------------------------------------------------------------
(* The row that the server stands on is changed: other rows stay cached.   *)
LEMMA ChangedIInv ==
    ASSUME IInv, MaxScans = 1, CanChange, NEW c \in Rows, Changed(c),
           record' \in Row \cup {NoRow}, asked' \in Row \cup {NoRow},
           \A q \in Row : q.key # record.key /\ Cached(q) => c[q.key] = q.value
    PROVE  IInv'
<1>1. TypeOK /\ Ended /\ Scanning /\ Visiting
  BY DEF IInv
<1>2. /\ cache' = c /\ here' = FALSE
      /\ UNCHANGED <<txn, tablesLocked, up, cursor, all_items, current_position, refs,
                     snapshot, seen>>
  BY DEF Changed, items
<1>3. here' \in BOOLEAN
  BY <1>2
<1>4. TypeOK'
  BY <1>1, <1>2, <1>3 DEF TypeOK
<1>5. CASE cursor = "scan"
  <2>1. /\ here /\ refs = {}
        /\ ScanOf(snapshot) /\ RefsOf(snapshot) /\ all_items = SetToSeq(snapshot)
        /\ current_position = Modulus - 1 \/ current_position <= Len(all_items)
        /\ seen = SubSeq(all_items, 1, Returned)
        /\ \A i \in 1..Len(all_items) : i > Returned => Cached(all_items[i])
        /\ current_position < Len(all_items)
        /\ record = all_items[current_position + 1]
    BY <1>1, <1>5 DEF CanChange, Scanning
  <2>2. /\ Len(all_items) = Cardinality(snapshot) /\ Cardinality(snapshot) \in Nat
        /\ \A i \in 1..Cardinality(snapshot) : all_items[i] \in Row
        /\ \A i, j \in 1..Cardinality(snapshot) : all_items[i].key = all_items[j].key => i = j
    BY <2>1, ListOfScan DEF ScanOf
  <2>3. current_position \in Nat
    BY <1>1, Offsets DEF TypeOK, Offset
  <2>4. Cardinality(snapshot) < Modulus - 1
    BY <2>1, <2>2, KeyCount, Offsets DEF ScanOf
  <2>5. current_position \in Nat /\ Cardinality(snapshot) < Modulus - 1
    BY <2>3, <2>4
  <2>6. Returned = current_position + 1
    BY <2>1, <2>2, <2>5, Offsets DEF Returned
  <2>7. \A i \in 1..Len(all_items) : i > Returned => c[all_items[i].key] = all_items[i].value
    <3> SUFFICES ASSUME NEW i \in 1..Len(all_items), i > Returned
                 PROVE  c[all_items[i].key] = all_items[i].value
      OBVIOUS
    <3>1. all_items[i].key # record.key
      BY <2>1, <2>2, <2>5, <2>6
    <3> QED
      BY <2>1, <2>2, <3>1
  <2>8. Returned' = Returned
    BY <1>2 DEF Returned
  <2>9. ScanOf(snapshot)' /\ RefsOf(snapshot)'
    BY <1>2, <2>1 DEF ScanOf, RefsOf
  <2>10. Scanning'
    BY <1>2, <1>5, <2>1, <2>7, <2>8, <2>9 DEF Scanning, Cached
  <2> QED
    BY <1>2, <1>4, <1>5, <2>10 DEF IInv, Ended, Visiting
<1>6. CASE cursor = "visit"
  <2>1. /\ ScanOf(snapshot) /\ RefsOf(snapshot) /\ all_items = SetToSeq(snapshot)
        /\ \A p \in refs : Cached(p.row) /\ p.row # record
        /\ record \in snapshot
    BY <1>1, <1>6 DEF CanChange, Visiting
  <2>2. /\ Cardinality(snapshot) \in Nat
        /\ \A i \in 1..Cardinality(snapshot) : SetToSeq(snapshot)[i] \in snapshot
    BY <2>1, ListOfScan
  <2>3. \A p \in refs : p.pos \in Nat /\ p.pos < Cardinality(snapshot)
                         /\ p.row = SetToSeq(snapshot)[p.pos + 1]
    BY <1>1, <2>1, Offsets DEF RefsOf, TypeOK, Offset
  <2>4. \A p \in refs : p.row \in snapshot
    BY <2>2, <2>3
  <2>5. \A p \in refs : p.row \in Row /\ p.row.key # record.key
    BY <2>1, <2>4 DEF ScanOf, KeyUnique
  <2>6. \A p \in refs : c[p.row.key] = p.row.value
    BY <2>1, <2>5
  <2>7. ScanOf(snapshot)' /\ RefsOf(snapshot)'
    BY <1>2, <2>1 DEF ScanOf, RefsOf
  <2>8. Visiting'
    BY <1>2, <1>6, <2>1, <2>6, <2>7 DEF Visiting, Cached
  <2> QED
    BY <1>2, <1>4, <1>6, <2>8 DEF IInv, Ended, Scanning
<1>7. CASE cursor = "idle"
  BY <1>2, <1>4, <1>7, OutsideIInv DEF items
<1> QED
  BY <1>5, <1>6, <1>7 DEF CanChange

LEMMA ChangingIInv ==
    ASSUME IInv, MaxScans = 1,
           \/ \E v \in Value : update_row(v)
           \/ \E r \in Row : update_row_key(r)
           \/ delete_row
    PROVE  IInv'
<1>1. TypeOK
  BY DEF IInv
<1>2. /\ CanChange /\ record \in Row /\ record.key \in Key /\ cache \in Rows
      /\ record \in Row \cup {NoRow} /\ asked \in Row \cup {NoRow}
  BY <1>1 DEF update_row, update_row_key, delete_row, CanChange, TypeOK, Row
<1>3. ASSUME NEW v \in Value, update_row(v)
      PROVE  IInv'
  <2> DEFINE c == [cache EXCEPT ![record.key] = v]
  <2>1. c \in Rows
    BY <1>2 DEF Rows
  <2>2. Changed(c) /\ record' = record /\ asked' = [record EXCEPT !.value = v]
    BY <1>3 DEF update_row
  <2>3. asked' \in Row
    BY <1>2, <2>2 DEF Row
  <2>4. \A q \in Row : q.key # record.key /\ Cached(q) => c[q.key] = q.value
    BY <1>2 DEF Rows, Row, Cached
  <2> HIDE DEF c
  <2> QED
    BY <1>2, <2>1, <2>2, <2>3, <2>4, ChangedIInv
<1>4. ASSUME NEW r \in Row, update_row_key(r)
      PROVE  IInv'
  <2> DEFINE c == Moved(r)
  <2>1. r.key # record.key /\ r.key \in Key /\ r.value \in Value
    BY <1>4 DEF update_row_key, Row
  <2>2. c = [k \in Key |-> IF k = record.key THEN NoValue
                           ELSE IF k = r.key /\ cache[k] = NoValue THEN r.value
                           ELSE cache[k]]
    BY <1>2, <2>1 DEF Moved, Rows
  <2>3. c \in Rows
    BY <1>2, <2>1, <2>2 DEF Rows
  <2>4. Changed(c) /\ record' = r /\ asked' = r
    BY <1>4 DEF update_row_key
  <2>5. \A q \in Row : q.key # record.key /\ Cached(q) => c[q.key] = q.value
    BY <1>2, <2>2, ValueAssumption DEF Row, Cached
  <2> HIDE DEF c
  <2> QED
    BY <1>2, <2>3, <2>4, <2>5, ChangedIInv
<1>5. CASE delete_row
  <2> DEFINE c == [cache EXCEPT ![record.key] = NoValue]
  <2>1. c \in Rows
    BY <1>2 DEF Rows
  <2>2. Changed(c) /\ record' = record /\ asked' = asked
    BY <1>5 DEF delete_row
  <2>3. \A q \in Row : q.key # record.key /\ Cached(q) => c[q.key] = q.value
    BY <1>2 DEF Rows, Row, Cached
  <2> HIDE DEF c
  <2> QED
    BY <1>2, <2>1, <2>2, <2>3, ChangedIInv
<1> QED
  BY <1>3, <1>4, <1>5
-----------------------------------------------------------------------------
(* Nothing happens.                                                        *)
LEMMA StutterIInv ==
    ASSUME IInv, UNCHANGED vars
    PROVE  IInv'
BY DEF IInv, TypeOK, Ended, Scanning, Visiting, ScanOf, RefsOf, Returned, Cached, RowsOf,
       KeysOf, RowAt, vars, session, items, history

LEMMA NextIInv == MaxScans = 1 /\ IInv /\ [Next]_vars => IInv'
<1> SUFFICES ASSUME MaxScans = 1, IInv, [Next]_vars PROVE IInv'
  OBVIOUS
<1>1. CASE Next
  BY <1>1, SessionIInv, KeyedIInv, BeginIInv, NextRowIInv, PositionIInv, EndIInv,
     StartVisitIInv, VisitIInv, ChangingIInv DEF Next
<1> QED
  BY <1>1, StutterIInv

THEOREM Invariance == MaxScans = 1 => (Spec => []IInv)
<1> SUFFICES ASSUME MaxScans = 1 PROVE Spec => []IInv
  OBVIOUS
<1>1. IInv /\ [Next]_vars => IInv'
  BY NextIInv
<1> QED
  BY <1>1, InitIInv, PTL DEF Spec

(* TypeOK.                                                                 *)
THEOREM TypeCorrect == MaxScans = 1 => (Spec => []TypeOK)
<1>1. IInv => TypeOK
  BY DEF IInv
<1> QED
  BY <1>1, Invariance, PTL

(* A scan at its end has returned the rows of the table, once each         *)
(* (rnd_init's copy against update_row, delete_row and the move of keys).  *)
THEOREM ScansExact == MaxScans = 1 => (Spec => []ScanExact)
<1> SUFFICES ASSUME MaxScans = 1 PROVE Spec => []ScanExact
  OBVIOUS
<1>1. IInv => ScanExact
  <2> SUFFICES ASSUME IInv, cursor = "scan", AtEnd
               PROVE  /\ {seen[i] : i \in DOMAIN seen} = snapshot
                      /\ Len(seen) = Cardinality(snapshot)
    BY DEF ScanExact
  <2>1. ScanOf(snapshot) /\ all_items = SetToSeq(snapshot)
        /\ seen = SubSeq(all_items, 1, Returned)
    BY DEF IInv, Scanning
  <2>2. /\ SetToSeq(snapshot) \in Seq(Row)
        /\ Len(all_items) = Cardinality(snapshot) /\ Cardinality(snapshot) \in Nat
        /\ {all_items[i] : i \in 1..Cardinality(snapshot)} = snapshot
    BY <2>1, ListOfScan
  <2>3. Cardinality(snapshot) < Modulus - 1
    BY <2>1, <2>2, KeyCount, Offsets DEF ScanOf
  <2>4. Returned = Len(all_items)
    BY <2>2, <2>3, Offsets DEF Returned, AtEnd
  <2>5. seen = all_items
    BY <2>1, <2>2, <2>4
  <2>6. DOMAIN seen = 1..Cardinality(snapshot)
    <3>1. seen \in Seq(Row) /\ Len(seen) = Cardinality(snapshot)
      BY <2>1, <2>2, <2>5
    <3> QED
      BY <3>1, LenProperties
  <2> QED
    BY <2>2, <2>5, <2>6
<1> QED
  BY <1>1, Invariance, PTL

(* The rows a scan will return are in the cache.                           *)
THEOREM ScansStayAhead == MaxScans = 1 => (Spec => []AheadUntouched)
<1> SUFFICES ASSUME MaxScans = 1 PROVE Spec => []AheadUntouched
  OBVIOUS
<1>1. IInv => AheadUntouched
  <2> SUFFICES ASSUME IInv, cursor = "scan", current_position # Modulus - 1,
                      NEW i \in 1..Len(all_items), i > current_position + 1
               PROVE  cache[all_items[i].key] = all_items[i].value
    BY DEF AheadUntouched
  <2>1. /\ ScanOf(snapshot) /\ all_items = SetToSeq(snapshot)
        /\ i > Returned => Cached(all_items[i])
    BY DEF IInv, Scanning
  <2>2. Len(all_items) \in Nat
    BY <2>1, ListOfScan
  <2>3. current_position \in Nat
    BY Offsets DEF IInv, TypeOK, Offset
  <2>4. Returned = current_position + 1
    BY <2>2, <2>3 DEF Returned
  <2> QED
    BY <2>1, <2>4 DEF Cached
<1> QED
  BY <1>1, Invariance, PTL

(* A position names the row it was taken of (position and rnd_pos).        *)
THEOREM PositionsHold == MaxScans = 1 => (Spec => []PositionsNameRows)
<1>1. IInv => PositionsNameRows
  BY DEF IInv, Visiting, PositionsNameRows
<1> QED
  BY <1>1, Invariance, PTL

(* The row that a statement changes is in the cache as it was read         *)
(* (update_row and delete_row after rnd_next or rnd_pos).                  *)
THEOREM ChangedRowsAreCached == MaxScans = 1 => (Spec => []RowHereIsCached)
<1>1. IInv => RowHereIsCached
  BY DEF IInv, Scanning, Visiting, RowHereIsCached, CanChange, Cached
<1> QED
  BY <1>1, Invariance, PTL
-----------------------------------------------------------------------------
(* Outside LOCK TABLES every statement has its Transaction (external_lock  *)
(* and the end of statements), for any number of scans.                    *)
THEOREM UnlockedStatementsHaveTransaction == Spec => []UnlockedHasTransaction
<1>1. Init => UnlockedHasTransaction
  BY DEF Init, UnlockedHasTransaction
<1>2. UnlockedHasTransaction /\ [Next]_vars => UnlockedHasTransaction'
  <2> SUFFICES ASSUME UnlockedHasTransaction, [Next]_vars
               PROVE  UnlockedHasTransaction'
    OBVIOUS
  <2> USE DEF UnlockedHasTransaction, session
  <2>1. CASE Statement
    BY <2>1 DEF Statement, Locked
  <2>2. CASE LockTable \/ UnlockTables \/ start_stmt
    BY <2>2 DEF LockTable, UnlockTables, start_stmt
  <2>3. CASE EndStatement \/ NullTransaction
    BY <2>3 DEF EndStatement, NullTransaction
  <2>4. CASE StartScan \/ Rescan \/ StartVisit
    BY <2>4 DEF StartScan, Rescan, StartVisit, rnd_init, Usable
  <2>5. CASE rnd_next \/ position \/ rnd_end
    BY <2>5 DEF rnd_next, position, rnd_end, Usable
  <2>6. ASSUME NEW p \in refs, rnd_pos(p) PROVE UnlockedHasTransaction'
    BY <2>6 DEF rnd_pos, Usable
  <2>7. ASSUME NEW k \in Key, index_read(k) PROVE UnlockedHasTransaction'
    BY <2>7 DEF index_read, Usable
  <2>8. ASSUME NEW r \in Row, write_row(r) \/ write_row_duplicate(r) \/ update_row_key(r)
        PROVE  UnlockedHasTransaction'
    BY <2>8 DEF write_row, write_row_duplicate, update_row_key, Changed, Usable, CanChange
  <2>9. ASSUME NEW v \in Value, update_row(v) PROVE UnlockedHasTransaction'
    BY <2>9 DEF update_row, Changed
  <2>10. CASE delete_row
    BY <2>10 DEF delete_row, Changed
  <2>11. CASE UNCHANGED vars
    BY <2>11 DEF vars
  <2> QED
    BY <2>1, <2>2, <2>3, <2>4, <2>5, <2>6, <2>7, <2>8, <2>9, <2>10, <2>11 DEF Next
<1> QED
  BY <1>1, <1>2, PTL DEF Spec
=============================================================================
