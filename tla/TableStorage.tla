---------------------------- MODULE TableStorage ----------------------------
(***************************************************************************)
(* The Ethereum contract that stores one table                             *)
(* (src/adapter/ethereum/contract/truffle/contracts/TableStorage.sol): a   *)
(* mapping from keys to values stamped with the block that wrote them, and *)
(* beside it the list of its keys, which tableScan walks because a         *)
(* Solidity mapping cannot be enumerated.  The two have to agree.          *)
(*                                                                         *)
(* put and remove run to their end or revert without a trace: one step.    *)
(* putBatch is a loop that can revert in any round, so each round is a     *)
(* step and the storage it started from is kept to be restored; nobody     *)
(* reads the storage in between (see Visible).                             *)
(***************************************************************************)
EXTENDS Integers, Sequences, FiniteSets

CONSTANTS
    Key, Value,
    NoValue,    \* the empty string of a deleted or never written entry
    MaxBlock,   \* bound: blocks mined
    MaxBatch    \* bound: length of an argument array of putBatch

ASSUME NoValueAssumption == NoValue \notin Value
ASSUME BoundsAssumption == MaxBlock \in Nat \ {0} /\ MaxBatch \in Nat

VARIABLES
    data,           \* mapping(bytes32 => Value)
    keyList,        \* bytes32[]
    blockNumber,    \* block.number
    running,        \* a putBatch is executing
    keys, values,   \* its arguments
    i,              \* its loop variable
    oldData,        \* the storage a revert restores
    oldKeyList

storage == <<data, keyList>>
call == <<running, keys, values, i, oldData, oldKeyList>>
vars == <<storage, blockNumber, call>>

Entry == [blocknumber : 0..MaxBlock, value : Value \cup {NoValue}]
Deleted == [blocknumber |-> 0, value |-> NoValue]
EmptyData == [k \in Key |-> Deleted]
Arrays(S) == UNION {[1..n -> S] : n \in 0..MaxBatch}

Stored(d) == {k \in Key : d[k].blocknumber # 0}

\* What get(k) returns for every key, NoValue where it reverts.
get(d) == [k \in Key |-> IF k \in Stored(d) THEN d[k].value ELSE NoValue]

\* What tableScan returns: the keys, and their values in the same order.
tableScan ==
    [keys |-> keyList,
     values |-> [n \in DOMAIN keyList |-> data[keyList[n]].value]]

TypeOK ==
    /\ data \in [Key -> Entry]
    /\ keyList \in Seq(Key)
    /\ blockNumber \in 1..MaxBlock
    /\ running \in BOOLEAN
    /\ keys \in Seq(Key)
    /\ values \in Seq(Value)
    /\ i \in 0..Len(keys)
    /\ oldData \in [Key -> Entry]
    /\ oldKeyList \in Seq(Key)
-----------------------------------------------------------------------------
Init ==
    /\ data = EmptyData
    /\ keyList = <<>>
    /\ blockNumber = 1
    /\ running = FALSE
    /\ keys = <<>>
    /\ values = <<>>
    /\ i = 0
    /\ oldData = EmptyData
    /\ oldKeyList = <<>>

\* The end of a putBatch, by its last line or by a revert.
EndCall ==
    /\ running' = FALSE
    /\ keys' = <<>>
    /\ values' = <<>>
    /\ i' = 0
    /\ oldData' = EmptyData
    /\ oldKeyList' = <<>>

\* Blocks go by; a call sees one block.number from its start to its end.
NextBlock ==
    /\ ~running
    /\ blockNumber < MaxBlock
    /\ blockNumber' = blockNumber + 1
    /\ UNCHANGED <<storage, call>>

\* Wrongly: stamped with the next block.
Store_NextBlock(k, v) ==
    /\ keyList' = IF k \in Stored(data) THEN keyList ELSE Append(keyList, k)
    /\ data' = [data EXCEPT ![k] = [blocknumber |-> blockNumber + 1, value |-> v]]

\* The lines put and a round of putBatch have in common.
Store(k, v) ==
    /\ keyList' = IF k \in Stored(data) THEN keyList ELSE Append(keyList, k)
    /\ data' = [data EXCEPT ![k] = [blocknumber |-> blockNumber, value |-> v]]

put(k, v) ==
    /\ ~running
    /\ Store(k, v)
    /\ UNCHANGED <<blockNumber, call>>

\* Wrongly: popped without the move.
SwapAndPop_NoSwap(list, n) == SubSeq(list, 1, Len(list) - 1)

\* keyList with its last element moved to position n, then popped.
SwapAndPop(list, n) ==
    SubSeq([list EXCEPT ![n] = list[Len(list)]], 1, Len(list) - 1)

IsIndexOf(n, k) ==
    /\ n \in DOMAIN keyList
    /\ keyList[n] = k
    /\ \A m \in 1..(n - 1) : keyList[m] # k

\* The call reverts when the key is not stored, or its index not found.
remove(k) ==
    /\ ~running
    /\ k \in Stored(data)
    /\ \E n \in DOMAIN keyList :
          IsIndexOf(n, k) /\ keyList' = SwapAndPop(keyList, n)
    /\ data' = [data EXCEPT ![k] = Deleted]
    /\ UNCHANGED <<blockNumber, call>>

putBatch(ks, vs) ==
    /\ ~running
    /\ running' = TRUE
    /\ keys' = ks
    /\ values' = vs
    /\ i' = 0
    /\ oldData' = data
    /\ oldKeyList' = keyList
    /\ UNCHANGED <<storage, blockNumber>>

PutBatchRound ==
    /\ running
    /\ i < Len(keys)
    /\ i < Len(values)
    /\ Store(keys[i + 1], values[i + 1])
    /\ i' = i + 1
    /\ UNCHANGED <<blockNumber, running, keys, values, oldData, oldKeyList>>

PutBatchReturn ==
    /\ running
    /\ i = Len(keys)
    /\ EndCall
    /\ UNCHANGED <<storage, blockNumber>>

\* Wrongly: what the rounds before stored stays.
PutBatchRevert_Partial ==
    /\ running
    /\ EndCall
    /\ UNCHANGED <<storage, blockNumber>>

\* Out of gas in any round, or fewer values than keys.
PutBatchRevert ==
    /\ running
    /\ data' = oldData
    /\ keyList' = oldKeyList
    /\ EndCall
    /\ UNCHANGED blockNumber

Next ==
    \/ NextBlock
    \/ \E k \in Key, v \in Value : put(k, v)
    \/ \E k \in Key : remove(k)
    \/ \E ks \in Arrays(Key), vs \in Arrays(Value) : putBatch(ks, vs)
    \/ PutBatchRound
    \/ PutBatchReturn
    \/ PutBatchRevert

Spec == Init /\ [][Next]_vars
-----------------------------------------------------------------------------
\* No key is listed twice and the listed keys are the stored ones, after any
\* interplay of put, putBatch, revert and remove's swap with the last element:
\* tableScan returns every pair of the table once, and remove finds its index.
ListExact(d, list) ==
    /\ {list[n] : n \in DOMAIN list} = Stored(d)
    /\ \A m, n \in DOMAIN list : list[m] = list[n] => m = n

ScanExact == ListExact(data, keyList)

\* What the callers of the contract can read: the storage of the last call
\* that ended.
Visible == get(IF running THEN oldData ELSE data)

\* The contract is a key-value store: a batch is done as a whole, the last of
\* its writes of a key winning, or, when it reverts in any round, not at all,
\* and a key whose removal was accepted is gone until it is put again.
Abstract == INSTANCE KeyValueStore WITH store <- Visible, open <- running
ImplementsStore == Abstract!Spec
=============================================================================
