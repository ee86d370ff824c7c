------------------------ MODULE TableStorage_proofs ------------------------
(***************************************************************************)
(* TableStorage, for every set of keys and values and all bounds: its      *)
(* types, the agreement of keyList with the mapping, and that it           *)
(* implements KeyValueStore.                                               *)
(***************************************************************************)
EXTENDS TableStorage, SequenceTheorems, TLAPS

(* A table: a mapping and a list of its keys that agree. *)
IsTable(d, list) ==
    /\ d \in [Key -> Entry]
    /\ list \in Seq(Key)
    /\ \A k \in Key : d[k].blocknumber # 0 => d[k].value \in Value
    /\ ListExact(d, list)

(* What a running batch has stored so far: its first i writes, on top of   *)
(* the storage it started from.                                            *)
BatchSoFar ==
    running => /\ i <= Len(values)
               /\ Abstract!Written(get(oldData), get(data), i)

(* The inductive invariant. *)
IInv ==
    /\ TypeOK
    /\ IsTable(data, keyList)
    /\ IsTable(oldData, oldKeyList)
    /\ BatchSoFar
-----------------------------------------------------------------------------
(* The argument arrays of putBatch are sequences. *)
LEMMA ArraysAreSequences ==
    ASSUME NEW S, NEW a \in Arrays(S)
    PROVE  a \in Seq(S)
BY BoundsAssumption, SeqDef DEF Arrays

(* No call has no arguments. *)
LEMMA EmptyIsSequence ==
    <<>> \in Seq(Key) /\ <<>> \in Seq(Value) /\ 0 \in 0..Len(<<>>)
OBVIOUS

(* The storage a contract starts with, and the one a call starts from, is a *)
(* table without keys.                                                      *)
LEMMA EmptyIsTable == IsTable(EmptyData, <<>>)
<1>1. EmptyData \in [Key -> Entry]
  BY BoundsAssumption DEF EmptyData, Deleted, Entry
<1>2. Stored(EmptyData) = {}
  BY DEF Stored, EmptyData, Deleted
<1>3. ListExact(EmptyData, <<>>)
  BY <1>2 DEF ListExact
<1> QED  BY <1>1, <1>3 DEF IsTable, EmptyData, Deleted

(* put, or a round of putBatch, leaves a table, in which no key is lost. *)
LEMMA StoreKeepsTable ==
    ASSUME TypeOK, IsTable(data, keyList), NEW k \in Key, NEW v \in Value,
           Store(k, v)
    PROVE  /\ IsTable(data', keyList')
           /\ Stored(data') = Stored(data) \cup {k}
           /\ get(data') = [get(data) EXCEPT ![k] = v]
<1> DEFINE e == [blocknumber |-> blockNumber, value |-> v]
<1>1. blockNumber \in 1..MaxBlock /\ data \in [Key -> Entry] /\ keyList \in Seq(Key)
  BY DEF TypeOK
<1>2. e \in Entry /\ e.blocknumber # 0 /\ e.value = v
  BY <1>1, BoundsAssumption DEF Entry
<1>3. data' = [data EXCEPT ![k] = e]
  BY DEF Store
<1>4. data' \in [Key -> Entry] /\ data'[k] = e
      /\ \A j \in Key : j # k => data'[j] = data[j]
  BY <1>1, <1>2, <1>3
<1>5. Stored(data') = Stored(data) \cup {k}
  BY <1>2, <1>4 DEF Stored
<1>6. keyList' \in Seq(Key) /\ ListExact(data', keyList')
  <2>1. CASE k \in Stored(data)
    BY <1>1, <1>5, <2>1 DEF Store, IsTable, ListExact
  <2>2. CASE k \notin Stored(data)
    <3>1. keyList' = Append(keyList, k)
      BY <2>2 DEF Store
    <3>2. /\ keyList' \in Seq(Key)
          /\ Len(keyList') = Len(keyList) + 1
          /\ \A n \in 1..Len(keyList) : keyList'[n] = keyList[n]
          /\ keyList'[Len(keyList) + 1] = k
      BY <3>1, <1>1, AppendProperties
    <3>3. DOMAIN keyList = 1..Len(keyList) /\ Len(keyList) \in Nat
          /\ DOMAIN keyList' = 1..(Len(keyList) + 1)
      BY <3>2, <1>1
    <3>4. {keyList'[n] : n \in DOMAIN keyList'}
            = {keyList[n] : n \in DOMAIN keyList} \cup {k}
      BY <3>2, <3>3
    <3>5. \A n \in DOMAIN keyList : keyList[n] # k
      BY <2>2 DEF IsTable, ListExact
    <3>6. \A m, n \in DOMAIN keyList' : keyList'[m] = keyList'[n] => m = n
      BY <3>2, <3>3, <3>5 DEF IsTable, ListExact
    <3> QED  BY <1>5, <3>2, <3>4, <3>6 DEF IsTable, ListExact
  <2> QED  BY <2>1, <2>2
<1>7. \A j \in Key : data'[j].blocknumber # 0 => data'[j].value \in Value
  BY <1>2, <1>4 DEF IsTable
<1>8. get(data') = [get(data) EXCEPT ![k] = v]
  BY <1>2, <1>4, <1>5 DEF get, Stored
<1> QED  BY <1>4, <1>5, <1>6, <1>7, <1>8 DEF IsTable

(* remove's swap with the last element takes out one position, whichever   *)
(* it is, and brings no other key twice into the list.                     *)
LEMMA SwapAndPopRemoves ==
    ASSUME NEW list \in Seq(Key), NEW n \in DOMAIN list,
           \A a, b \in DOMAIN list : list[a] = list[b] => a = b
    PROVE  LET short == SwapAndPop(list, n)
           IN  /\ short \in Seq(Key)
               /\ {short[m] : m \in DOMAIN short}
                    = {list[m] : m \in DOMAIN list} \ {list[n]}
               /\ \A a, b \in DOMAIN short : short[a] = short[b] => a = b
<1> DEFINE last == Len(list)
           swapped == [list EXCEPT ![n] = list[last]]
           short == SwapAndPop(list, n)
<1>1. last \in Nat \ {0} /\ n \in 1..last /\ DOMAIN list = 1..last
  OBVIOUS
<1>2. \A m \in 1..(last - 1) :
         swapped[m] = IF m = n THEN list[last] ELSE list[m]
  BY <1>1
<1>3. \A m \in 1..(last - 1) : swapped[m] \in Key
  BY <1>1, <1>2
<1>4. /\ short \in Seq(Key)
      /\ Len(short) = last - 1
      /\ \A m \in 1..(last - 1) : short[m] = swapped[m]
  <2> HIDE DEF swapped
  <2>1. short = SubSeq(swapped, 1, last - 1)
    BY DEF SwapAndPop, swapped
  <2>2. \A m \in 1..(last - 1 - 1 + 1) : SubSeq(swapped, 1, last - 1)[m] = swapped[1 + m - 1]
    BY <1>1, <1>3, SubSeqProperties
  <2>3. SubSeq(swapped, 1, last - 1) \in Seq(Key)
        /\ Len(SubSeq(swapped, 1, last - 1)) = IF 1 <= last - 1 THEN last - 1 - 1 + 1 ELSE 0
    BY <1>1, <1>3, SubSeqProperties
  <2> QED  BY <2>1, <2>2, <2>3, <1>1
<1> HIDE DEF swapped, short
<1>5. DOMAIN short = 1..(last - 1)
  BY <1>1, <1>4
<1>6. \A m \in 1..(last - 1) : short[m] = IF m = n THEN list[last] ELSE list[m]
  BY <1>2, <1>4
<1>7. \A a, b \in DOMAIN short : short[a] = short[b] => a = b
  BY <1>1, <1>5, <1>6
<1>8. {short[m] : m \in DOMAIN short} = {list[m] : m \in DOMAIN list} \ {list[n]}
  <2>1. \A m \in DOMAIN short : \E o \in DOMAIN list :
           o # n /\ short[m] = list[o]
    BY <1>1, <1>5, <1>6
  <2>2. \A o \in DOMAIN list : o # n => \E m \in DOMAIN short : short[m] = list[o]
    <3> SUFFICES ASSUME NEW o \in DOMAIN list, o # n
                 PROVE  \E m \in DOMAIN short : short[m] = list[o]
      OBVIOUS
    <3>1. CASE o = last
      BY <3>1, <1>1, <1>5, <1>6
    <3>2. CASE o # last
      BY <3>2, <1>1, <1>5, <1>6
    <3> QED  BY <3>1, <3>2
  <2> QED  BY <2>1, <2>2, <1>1
<1> QED  BY <1>4, <1>7, <1>8 DEF short

(* remove leaves a table without the key. *)
LEMMA RemoveKeepsTable ==
    ASSUME TypeOK, IsTable(data, keyList), NEW k \in Key, remove(k)
    PROVE  /\ IsTable(data', keyList')
           /\ get(data') = [get(data) EXCEPT ![k] = NoValue]
<1>1. data \in [Key -> Entry] /\ keyList \in Seq(Key)
  BY DEF TypeOK
<1>2. data' = [data EXCEPT ![k] = Deleted]
  BY DEF remove
<1>3. Deleted \in Entry /\ Deleted.blocknumber = 0
  BY BoundsAssumption DEF Deleted, Entry
<1>4. data' \in [Key -> Entry] /\ data'[k] = Deleted
      /\ \A j \in Key : j # k => data'[j] = data[j]
  BY <1>1, <1>2, <1>3
<1>5. Stored(data') = Stored(data) \ {k}
  BY <1>3, <1>4 DEF Stored
<1>6. PICK n \in DOMAIN keyList :
         keyList[n] = k /\ keyList' = SwapAndPop(keyList, n)
  BY DEF remove, IsIndexOf
<1>7. /\ keyList' \in Seq(Key)
      /\ {keyList'[m] : m \in DOMAIN keyList'}
            = {keyList[m] : m \in DOMAIN keyList} \ {k}
      /\ \A a, b \in DOMAIN keyList' : keyList'[a] = keyList'[b] => a = b
  <2>1. \A a, b \in DOMAIN keyList : keyList[a] = keyList[b] => a = b
    BY DEF IsTable, ListExact
  <2>2. LET short == SwapAndPop(keyList, n)
        IN  /\ short \in Seq(Key)
            /\ {short[m] : m \in DOMAIN short}
                  = {keyList[m] : m \in DOMAIN keyList} \ {keyList[n]}
            /\ \A a, b \in DOMAIN short : short[a] = short[b] => a = b
    BY <1>1, <2>1, SwapAndPopRemoves
  <2> QED  BY <1>6, <2>2
<1>8. ListExact(data', keyList')
  BY <1>5, <1>7 DEF IsTable, ListExact
<1>9. get(data') = [get(data) EXCEPT ![k] = NoValue]
  BY <1>4, <1>5 DEF get, Stored
<1> QED  BY <1>3, <1>4, <1>7, <1>8, <1>9 DEF IsTable
-----------------------------------------------------------------------------
(* A contract starts with an empty table and no call. *)
LEMMA InitEstablishes == Init => IInv
<1> SUFFICES ASSUME Init
             PROVE  IInv
  OBVIOUS
<1>1. EmptyData \in [Key -> Entry] /\ 1 \in 1..MaxBlock
  BY EmptyIsTable, BoundsAssumption DEF IsTable
<1>2. TypeOK
  BY <1>1, EmptyIsTable, EmptyIsSequence DEF Init, TypeOK
<1> QED  BY <1>2, EmptyIsTable DEF Init, IInv, BatchSoFar

(* Every step of the contract keeps the inductive invariant. *)
LEMMA StepPreserves == IInv /\ [Next]_vars => IInv'
<1> SUFFICES ASSUME IInv, [Next]_vars
             PROVE  IInv'
  OBVIOUS
<1> USE DEF IInv
<1>1. ASSUME NextBlock PROVE IInv'
  BY <1>1, BoundsAssumption
     DEF NextBlock, TypeOK, storage, call, IsTable, ListExact, Stored, BatchSoFar
<1>2. ASSUME NEW k \in Key, NEW v \in Value, put(k, v)
      PROVE  IInv'
  <2>1. IsTable(data', keyList')
    BY <1>2, StoreKeepsTable DEF put
  <2>2. TypeOK'
    BY <1>2, <2>1 DEF put, TypeOK, call, IsTable
  <2> QED  BY <1>2, <2>1, <2>2 DEF put, call, IsTable, ListExact, Stored, BatchSoFar
<1>3. ASSUME NEW k \in Key, remove(k)
      PROVE  IInv'
  <2>1. IsTable(data', keyList')
    BY <1>3, RemoveKeepsTable
  <2>2. TypeOK'
    BY <1>3, <2>1 DEF remove, TypeOK, call, IsTable
  <2> QED  BY <1>3, <2>1, <2>2 DEF remove, call, IsTable, ListExact, Stored, BatchSoFar
<1>4. ASSUME NEW ks \in Arrays(Key), NEW vs \in Arrays(Value), putBatch(ks, vs)
      PROVE  IInv'
  <2>1. ks \in Seq(Key) /\ vs \in Seq(Value)
    BY ArraysAreSequences
  <2>2. TypeOK'
    BY <1>4, <2>1 DEF putBatch, TypeOK, storage
  <2>3. BatchSoFar'
    BY <1>4, <2>1 DEF putBatch, storage, BatchSoFar, Abstract!Written, get, Stored
  <2> QED  BY <1>4, <2>2, <2>3 DEF putBatch, storage, IsTable, ListExact, Stored
<1>5. ASSUME PutBatchRound PROVE IInv'
  <2>1. keys[i + 1] \in Key /\ values[i + 1] \in Value /\ i' \in 0..Len(keys)
    BY <1>5 DEF PutBatchRound, TypeOK
  <2>2. /\ IsTable(data', keyList')
        /\ get(data') = [get(data) EXCEPT ![keys[i + 1]] = values[i + 1]]
    BY <1>5, <2>1, StoreKeepsTable DEF PutBatchRound
  <2>3. TypeOK'
    BY <1>5, <2>1, <2>2 DEF PutBatchRound, TypeOK, IsTable
  <2>4. BatchSoFar'
    <3>1. Abstract!Written(get(oldData), get(data'), i + 1)
      <4>1. /\ Abstract!Written(get(oldData), get(data), i)
            /\ keys \in Seq(Key) /\ i \in Nat /\ i < Len(keys)
        BY <1>5 DEF PutBatchRound, BatchSoFar, TypeOK
      <4>2. \A k \in Key : get(data')[k] =
               IF k = keys[i + 1] THEN values[i + 1] ELSE get(data)[k]
        BY <2>1, <2>2 DEF get
      <4>3. \A m \in 1..i : keys[m] \in Key
        BY <4>1
      <4>4. \A k \in Key :
               (\A m \in 1..(i + 1) : keys[m] # k) => get(data')[k] = get(oldData)[k]
        BY <4>1, <4>2 DEF Abstract!Written
      <4>5. ASSUME NEW m \in 1..(i + 1),
                   \A l \in (m + 1)..(i + 1) : keys[l] # keys[m]
            PROVE  get(data')[keys[m]] = values[m]
        <5>1. CASE m = i + 1
          BY <5>1, <2>1, <4>2
        <5>2. CASE m # i + 1
          <6>1. m \in 1..i /\ keys[m] # keys[i + 1]
            BY <4>1, <4>5, <5>2
          <6>2. \A l \in (m + 1)..i : keys[l] # keys[m]
            BY <4>1, <4>5
          <6>3. get(data)[keys[m]] = values[m]
            BY <4>1, <6>1, <6>2 DEF Abstract!Written
          <6> QED  BY <4>2, <4>3, <6>1, <6>3
        <5> QED  BY <5>1, <5>2
      <4> QED  BY <4>4, <4>5 DEF Abstract!Written
    <3> QED  BY <1>5, <3>1 DEF PutBatchRound, BatchSoFar, TypeOK, get, Stored,
                               Abstract!Written
  <2> QED  BY <1>5, <2>2, <2>3, <2>4 DEF PutBatchRound, IsTable, ListExact, Stored
<1>6. ASSUME PutBatchReturn PROVE IInv'
  <2>1. TypeOK'
    BY <1>6, EmptyIsTable, EmptyIsSequence
    DEF PutBatchReturn, EndCall, TypeOK, storage, IsTable
  <2> QED  BY <1>6, <2>1, EmptyIsTable
           DEF PutBatchReturn, EndCall, storage, IsTable, ListExact, Stored, BatchSoFar
<1>7. ASSUME PutBatchRevert PROVE IInv'
  <2>1. TypeOK'
    BY <1>7, EmptyIsTable, EmptyIsSequence
    DEF PutBatchRevert, EndCall, TypeOK, IsTable
  <2> QED  BY <1>7, <2>1, EmptyIsTable
           DEF PutBatchRevert, EndCall, IsTable, ListExact, Stored, BatchSoFar
<1>8. ASSUME UNCHANGED vars PROVE IInv'
  <2>1. UNCHANGED <<data, keyList, blockNumber, running, keys, values, i,
                    oldData, oldKeyList>>
    BY <1>8 DEF vars, storage, call
  <2>2. TypeOK' /\ IsTable(data', keyList') /\ IsTable(oldData', oldKeyList')
    BY <2>1 DEF TypeOK, IsTable, ListExact, Stored
  <2>3. BatchSoFar'
    BY <2>1 DEF BatchSoFar, Abstract!Written, get, Stored
  <2> QED  BY <2>2, <2>3 DEF IsTable, ListExact, Stored
<1> QED  BY <1>1, <1>2, <1>3, <1>4, <1>5, <1>6, <1>7, <1>8 DEF Next

THEOREM Inductive == Spec => []IInv
BY InitEstablishes, StepPreserves, PTL DEF Spec

(* The storage of the contract and the arguments and loop variable of a     *)
(* running putBatch have their types.                                       *)
THEOREM TypeCorrect == Spec => []TypeOK
<1>1. IInv => TypeOK
  BY DEF IInv
<1> QED  BY <1>1, Inductive, PTL

(* keyList lists the stored keys, each once, whatever the calls before: the *)
(* swap and pop of remove and the revert of a batch keep it so.             *)
THEOREM ScanIsExact == Spec => []ScanExact
<1>1. IInv => ScanExact
  BY DEF IInv, IsTable, ScanExact
<1> QED  BY <1>1, Inductive, PTL
-----------------------------------------------------------------------------
(* A contract starts as an empty store. *)
LEMMA InitRefines == Init => Abstract!Init
BY DEF Init, Abstract!Init, Visible, get, Stored, EmptyData, Deleted

(* A finished call is one operation of the store, a round of a batch none. *)
LEMMA StepRefines ==
    IInv /\ [Next]_vars => [Abstract!Next]_(Abstract!vars)
<1> SUFFICES ASSUME IInv, [Next]_vars
             PROVE  Abstract!Next \/ UNCHANGED Abstract!vars
  OBVIOUS
<1>1. TypeOK /\ IsTable(data, keyList) /\ BatchSoFar
  BY DEF IInv
<1>2. ASSUME NextBlock PROVE UNCHANGED Abstract!vars
  BY <1>2 DEF NextBlock, storage, call, Visible, get, Stored, Abstract!vars
<1>3. ASSUME NEW k \in Key, NEW v \in Value, put(k, v)
      PROVE  Abstract!Next
  <2>1. get(data') = [get(data) EXCEPT ![k] = v]
    BY <1>1, <1>3, StoreKeepsTable DEF put
  <2>2. Visible = get(data) /\ Visible' = get(data')
    BY <1>3 DEF put, call, Visible, get, Stored
  <2>3. Abstract!Put(k, v)
    BY <1>3, <2>1, <2>2 DEF put, call, Abstract!Put
  <2> QED  BY <2>3 DEF Abstract!Next
<1>4. ASSUME NEW k \in Key, remove(k)
      PROVE  Abstract!Next
  <2>1. get(data') = [get(data) EXCEPT ![k] = NoValue]
    BY <1>1, <1>4, RemoveKeepsTable
  <2>2. Visible = get(data) /\ Visible' = get(data')
    BY <1>4 DEF remove, call, Visible, get, Stored
  <2>3. get(data)[k] # NoValue
    BY <1>1, <1>4, NoValueAssumption DEF remove, get, Stored, IsTable
  <2>4. Abstract!Remove(k)
    BY <1>4, <2>1, <2>2, <2>3 DEF remove, call, Abstract!Remove
  <2> QED  BY <2>4 DEF Abstract!Next
<1>5. ASSUME NEW ks \in Arrays(Key), NEW vs \in Arrays(Value), putBatch(ks, vs)
      PROVE  Abstract!Next
  <2>1. ks \in Seq(Key) /\ vs \in Seq(Value)
    BY ArraysAreSequences
  <2>2. Visible' = Visible
    BY <1>5 DEF putBatch, storage, Visible, get, Stored
  <2> QED  BY <1>5, <2>1, <2>2 DEF putBatch, Abstract!Begin, Abstract!Next
<1>6. ASSUME PutBatchRound PROVE UNCHANGED Abstract!vars
  BY <1>6 DEF PutBatchRound, Visible, get, Stored, Abstract!vars
<1>7. ASSUME PutBatchReturn PROVE Abstract!Next
  <2>1. Visible = get(oldData) /\ Visible' = get(data)
    BY <1>7 DEF PutBatchReturn, EndCall, storage, Visible, get, Stored
  <2>2. Len(keys) <= Len(values) /\ Abstract!Written(Visible, Visible', Len(keys))
    BY <1>1, <1>7, <2>1 DEF PutBatchReturn, BatchSoFar
  <2>3. Visible' \in Abstract!Contents
    BY <1>1, <2>1 DEF IsTable, get, Stored, Abstract!Contents
  <2>4. Abstract!End
    BY <1>7 DEF PutBatchReturn, EndCall, Abstract!End
  <2> QED  BY <2>2, <2>3, <2>4 DEF Abstract!Apply, Abstract!Next
<1>8. ASSUME PutBatchRevert PROVE Abstract!Next
  <2>1. Visible' = Visible
    BY <1>8 DEF PutBatchRevert, EndCall, Visible, get, Stored
  <2> QED  BY <1>8, <2>1
           DEF PutBatchRevert, EndCall, Abstract!End, Abstract!Abort, Abstract!Next
<1>9. ASSUME UNCHANGED vars PROVE UNCHANGED Abstract!vars
  BY <1>9 DEF vars, storage, call, Visible, get, Stored, Abstract!vars
<1> QED
  BY <1>2, <1>3, <1>4, <1>5, <1>6, <1>7, <1>8, <1>9 DEF Next

(* The contract implements the key-value store its callers assume: each     *)
(* call that ends is one operation of it, and a batch is done with all its  *)
(* writes, in their order, or with none.                                    *)
THEOREM Refinement == Spec => ImplementsStore
BY InitRefines, StepRefines, Inductive, PTL DEF Spec, ImplementsStore, Abstract!Spec
=============================================================================
