# BlockchainDB in TLA+

BlockchainDB is a MySQL storage engine that keeps each table in a contract on
an Ethereum blockchain.  These modules model its contract, its transaction
handling, its table handler, the Ethereum adapter, the metadata of tables and
the coding of rows; they are model-checked with TLC, and the main results are
proved with TLAPS.  Paths below are relative to the repository, `src/`; `ha` is
`engine/src/ha_blockchain.cc`, `eth` is
`adapter/ethereum/adapter/src/adapter_ethereum.cpp`.

## The system

| Component | State | Operations | Talks to |
|---|---|---|---|
| Table contract, `adapter/ethereum/contract/truffle/contracts/TableStorage.sol` | `data` (key to value and block number), `keyList` | `put`, `get`, `tableScan`, `remove`, `putBatch` | called by transactions of the Ethereum node |
| Ethereum adapter, `eth` | `nonce_`, the contract address, the account, a curl handle | `init`, `put`, `put_batch`, `get`, `get_all`, `remove`, `create_table`, `load_table`, `drop_table`, `check_connection` | the node, by JSON-RPC: count transactions, send, poll until mined or timed out, read the receipt |
| Adapter interface and factory, `adapter/interface/`, `adapter/factory/` | none | the abstract class; `create_adapter` | |
| Engine: commit, `ha`, `engine/src/transaction.cc` | one `Transaction` per session (list of statements, table caches); `bc_adapter_map`, shared by all threads | `open`, `close`, `external_lock`, `write_row`, `update_row`, `delete_row`, `bc_commit`, `bc_rollback` | called by the MySQL server; calls the adapters |
| Engine: reads, `ha` | a cursor and the rows of a scan, per handler | `rnd_init`, `rnd_next`, `position`, `rnd_pos`, `rnd_end`, `index_read`, `find_row`, `start_stmt` | the table cache of the session |
| Engine: metadata, `ha` | a metadata file per table | `create`, `open`, `delete_table` | file system, `create_table`, `load_table` |
| Encoding, `adapter/utils/`, `split` in the adapter | none | numbers, bytes and hexadecimal digits; the data of a transaction; the answer of a table scan | |
| Shell helper and deployment scripts | none | run the script that deploys a contract, read the address it prints | the shell, the node |
| Plugin glue, stubs, tests, vendored JSON library | none of interest | | |

The MySQL server and the Ethereum node are outside the repository.

What is hard here:

- Sessions are threads that share `bc_adapter_map` and its adapters without a
  lock; a commit holds an adapter over calls that take minutes, each can fail,
  and `bc_commit` looks at none of their results.
- A commit is many Ethereum transactions and can stop between any two of them.
- The engine learns of the end of a statement or transaction only if it
  registered for it; a copy of a table taken by the first statement serves all
  later ones, while a scan reads another copy, made when it began.
- All adapters send from one account and count its nonces on their own; a
  transaction may be replaced, refused, reverted, or mined when nobody waits
  for it any more.
- The address of a contract is kept in a file that other creates and crashes
  leave in the same directory; it is emptied before it is written.
- Values are separated by a token that may occur inside them, and keys are
  compared as bytes in two formats.

## Modules

| Module | Models | Kind |
|---|---|---|
| `KeyValueStore` | what a table contract promises | abstract specification |
| `TableStorage` | the contract | detailed, implements `KeyValueStore` |
| `BlockchainAdapter` | what a caller of the adapter interface can count on | abstract specification |
| `EthereumAdapter` | adapters of all tables, their calls, and the node | detailed, implements `BlockchainAdapter` |
| `StorageEngine` | sessions, transactions, commit and the adapter map | specification |
| `TableHandler` | one open instance of a table: scan, positions, rows | specification |
| `TableMetadata` | create, join, open, drop and the metadata files | specification |
| `ScanCodec` | how rows are coded and decoded | pure operators over bounded inputs |
| `PrimaryKey` | the key of a row, from its columns and from an index key | pure operators over bounded inputs |
| `TableStorage_proofs`, `StorageEngine_proofs`, `TableHandler_proofs`, `TableMetadata_proofs`, `PrimaryKey_proofs`, `ScanCodec_proofs` | | theorems about the module of that name |
| `EthereumAdapter_proofs`, `EthereumInterface_proofs` | | theorems about `EthereumAdapter`; the second builds on the first |
| `MCTableStorage`, `MCStorageEngine`, `MCTableHandler`, `MCTableMetadata`, `MCEthereumAdapter`, `MCRowCoding` | | instances for TLC |

`StorageEngine` sees the adapter as calls that take effect or fail, and a
session's copy of a table as a function; `EthereumAdapter` is what is inside
those calls, `TableHandler` what reads and changes that copy.  `MCRowCoding`
runs `ScanCodec` and `PrimaryKey` together.

Some operators have a second definition before them, marked as wrong: plausible
slips (a batch not cleared, a scope not registered, a poll that does not count
the time) with which the properties were seen to fail.

### TableStorage

`data`, `keyList` and `blockNumber` are the contract's storage and the block it
executes in.  `put` and `remove` are one step, because a call is atomic on the
chain; a `remove` that reverts changes nothing and is no step.  `putBatch` is a
loop: `putBatch`, `PutBatchRound`, `PutBatchReturn`, and `PutBatchRevert`, which
can happen before any round (out of gas, or fewer values than keys) and
restores the storage the call started from.  Between two rounds nobody reads
the storage; `Visible` is what can be read, and the refinement is about it: a
batch of `KeyValueStore` is asked for (`Begin`) and answered by all its writes
(`Apply`) or none (`Abort`).
`blockNumber` only grows and starts at 1: the code uses 0 for "not stored".

### StorageEngine

| Model | Code |
|---|---|
| `chain[t]` | the key-value pairs of the contract of table `t` |
| `instances[t]`, `open`, `close` | handler instances of `t` in the server's table cache; `open` and `close` of `ha_blockchain` |
| `adapterMap` | the tables that have an entry in `bc_adapter_map` |
| `mode`, `registered`, `phase`, `locked` | the server's view of a session: `OPTION_BEGIN`, the scopes `trans_register_ha` was called for, where the current statement is, its locked tables |
| `statements`, `cached`, `tableCache` | the `Transaction` object |
| `pos`, `batch`, `putting`, `unsent` | the locals of `bc_commit` (`i`, `write_batch_map`), the adapter it is inside of and what that put has left to send |
| `base`, `exact`, `failed`, `mark` | history variables: they guard nothing, and properties are stated with them; `exact[s][t]` are the rows whose last call by the session's commit succeeded and that no other session has changed since the transaction copied the table |

A statement is `external_lock` once per table, row operations, and
`EndStatement` or, when something failed, `RollbackStatement`.  `Commit` and
`Rollback` end a transaction.  `bc_commit` is a sequence of steps, one per turn
of its loops and one per key of a `put`, so that other sessions, `close` and a
crash come in between: `CommitWrite`, `CommitRemovePut`, `put`, `CommitRemove`,
`CommitFlush`, `CommitFlushed`, and its three ends `CommitDone` (return 0),
`CommitNoAdapter` (return 1) and `CommitCrash` (the unchecked `find` of the
second loop).

Abstractions: a row is a value and its key a model value (`PrimaryKey` has the
columns); `update_row` has two actions, for an unchanged and for a changed key;
a `Transaction` without tables and statements is no `Transaction`; a call of
the chain is atomic and either takes effect or, if `NetworkFails`, fails
without effect (`EthereumAdapter` has late effects).  `UnusedInstance`,
`StartTransaction`, `CanExecute`, `CloseStatement`, `CloseTransaction` and
`Crash` are the server, modelled from what the handler relies on; a server with
`autocommit = 0` is one that begins a transaction after each commit.

### EthereumAdapter and BlockchainAdapter

| Model | Code |
|---|---|
| `open`, `nonce[t]` | the adapter objects and their `nonce_`; `LoadTable` is `init` and `load_table` |
| `txs` | the node: every transaction of the account in the order it was accepted, pending, successful, reverted or replaced |
| `writer[t][k]` | what the contract holds: the number of the call that wrote the value |
| `call[s]` | the locals of `put`, `put_batch`, `remove` or `drop_table`: `batch`, the transactions of `sendRpcBatch`, `failed` for `failed_transactions` |
| `phase`, `todo` | which loop a call is in, and what that loop has not seen |

A call passes the phases in this order, one request of the node per step:

    Start --> update --> sign --> send --> check --> return --> idle
              UpdateNonce  Sign   Send     Receipt   Return, ReturnPut
                                                     NextRemove (drop_table: back to update)

`SendThrows` and `ReturnPutFaults` end the server (an answer without a
`result`, the increment of an erased iterator), as does `Crash`; what the node
was told stays, and `Mine` can come at any time, also after the adapter has
given up.  `nonce_` is modular, as an unsigned integer is; `Modulus` stands for
2^64 and is larger than any count a run reaches except for the wrap at a new
account, which is where it matters (`RoomAssumption`: there are more nonces
than the account has and can still send transactions).  `LoadTable` and
`UpdateNonce` keep the old nonce when the answer is lost.  The tables of this
module have a contract; that `load_table` returns 1 for an empty address, and
`open` installs the adapter all the same, is in `TableMetadata`.

The order in which `createRpcBatch` gives nonces (transaction numbers as
strings) and in which `sendRpcBatch` sends (the JSON texts) is left open: any
order of the requests of one call.  From ten requests on these two orders
really differ in the code.

`BlockchainAdapter` has no nonces, transactions or polling: a call owes writes,
each of which happens at most once (`Take`), or is lost (`Lose`), also after
the call; `Return` with 0 from `put` and `remove` needs all of them done.  The
mapping makes what a session has not sent and what is pending the writes owed.

### TableHandler

`cache` is the session's copy of the table, `all_items` and `current_position`
the handler's members, `refs` the positions the server saved with `position`.
`rnd_init` appends the rows of the copy to `all_items` and sets the position to
-1, that is `Modulus - 1`; `rnd_next`, `rnd_pos` and `find_row` read the
vector; `index_read`, `write_row`, `update_row` and `delete_row` work on the
copy.  `Statement`, `LockTable`, `start_stmt`, `EndStatement` and the order in
which a statement scans, collects positions and visits them are the server's.
`NullTransaction` is what happens to a statement without a `Transaction`.
`snapshot`, `seen`, `asked` are history.

### TableMetadata

A directory has slots, each with a file of a table and its connection string;
which of two files of one table the iterator finds first is the order of the
slots.  `create` is several steps (parse, deploy, read and empty the file,
write it), so that creates of other tables and crashes come between:
`create_NotJson`, `create_Join`, `create_New`, `create_table`,
`create_table_Fails`, `create_Read`, `create_Write`.  `create_table_Fails` has
the outcomes of the shell helper and the deployment script: an error code (an
exception), or no address and no error, with the contract deployed or not.

### ScanCodec and PrimaryKey

A text is a sequence of hexadecimal digits and a value a sequence of bytes; a
word has `W` digits, 64 in the code.  The contract's side of `put`, `putBatch`,
`get` and `tableScan` is what Solidity's ABI does.  Lengths are numbers that a
word holds and that fit into the `int` of `hex_to_int` (`RoomAssumption`,
`IntAssumption`).  `PrimaryKey` has the row
format and the index format of the server, and the loop of `index_read` that
turns one into the other; a hash is the bytes it is computed of.  A column is a
VARCHAR or a number.  A text is any sequence of bytes that fits into its column:
it may have bytes of 0, as VARBINARY, ucs2, utf16 and utf32 have them and any
charset has for `'\0'`, and it may be longer than one byte of length can say
(`ShortMax`, 255 in the code), so that its length is in two (`Low`, `High`).

## Runs

| Run | Instance | Shows |
|---|---|---|
| `contract` | 3 keys, 2 values, 2 blocks, batches of up to 2 | `TypeOK`, `ScanExact`, `ImplementsStore` |
| `isolation` | 2 sessions, 1 table open up to twice, 2 keys, 1 value, lists of 2, failing calls | `TypeOK`, `CacheIsReplay`, `BatchIsTail`, `PrefixApplied`, `CommittedKeys`, `BufferedIsRegistered` |
| `commits` | 2 sessions, 2 tables, 1 key, 2 values, failing calls, fair: one session on all tables with lists of 4, or both on one table open up to twice with lists of 2 | `BatchIsTail`, `PrefixApplied`, `CommittedKeys`, `CommitEnds` |
| `adapter_refinement` | 2 sessions, 1 table, 2 keys, 2 calls, a new account, every fault but a crash | `TypeOK`, `ZeroMeansDone`, `OnlyStoredLeave`, `ImplementsInterface` |
| `adapter_calls` | 1 session, 2 tables, 2 keys, 2 calls, a new account, time-outs, reverts, crashes, fair | `NoncesFollowCount`, `DropLeavesFailed`, `CallEnds` |
| `scans` | 3 keys, 2 values, scans started up to twice, LOCK TABLES | `TypeOK`, `ScanExact`, `AheadUntouched`, `PositionsNameRows`, `RowHereIsCached`, `UnlockedHasTransaction` |
| `metadata` | 2 tables, 2 addresses, 3 files, all faults | `TypeOK`, `OwnContract`, `MetadataNamesContract` |
| `row_coding` | words of 4 digits, bytes `#`, `2` and `A`, tables of up to 2 rows with values of 5 and 2 bytes; keys of up to 2 columns, texts of bytes 0 to 3 with up to 11 of them | `TypeOK`, `ScanExactlyIfClean`, `ScanKeepsKeys`, `OneRowExact`, `ShortBatchExact`, `KeyTypeOK`, `LookupExact`, `MisledExact`, `NoWrongRow` |

Why the bounds are enough.  Three keys let `remove` hit the first, a middle and
the last position of the key list, and a scan have a row behind, under and
ahead of its cursor.  Two sessions are enough for every interference in the
engine, where a session meets the others only in `chain`, `instances` and
`adapterMap`; lists of four statements hold two writes and two removals of a
key, and with two tables the flush of one is separated from the other's.  The
run `commits`, which cannot use symmetry, stays within two worlds
(the constraint `Room` of `MCStorageEngine`): in `Alone` one session works on both tables with long
lists, in `Together` two sessions work on one table that is opened and closed
under them.  What bounds them is what sessions begin and the server opens; a
step of `bc_commit` never leaves the world it starts in, so that fairness
demands no step that is taken away.  Two
calls of two keys on one account collide in every way two counters can, also
late: the second may begin after the first has timed out.  Two tables and three
files hold a file of a crashed create beside the one in use and another
table's.  Bytes of which the token `####` consists, together with one whose
digits are shifted by half a byte, make every way in which the token can begin
inside a value and end outside.  Columns of 1 and 11 characters of 1, 3 and
4 bytes fall on both sides of the limit between one and two bytes of length,
and on either side the code's test of the size is right for some and wrong for
others.  The texts have bytes of 0 before, in and behind others, and lengths of
3 and 11 bytes, which are the same in their lower byte; numbers of two bytes
can be taken one byte too far on or back.  `ShortMax` is 7 instead of 255, and
has the same remainder modulo 4, which is what the code looks at.

Sessions, keys, tables and values are interchangeable where a run uses
symmetry; no run with liveness does.  Deadlock is checked for the contract and
the engine, which can always take a call.  It is not for the others: the
adapter runs stop at the bound of calls, the handler when a statement without a
`Transaction` has ended the server, metadata when all slots of the directory
are in use, the coding after one operation.

Fairness.  `CommitEnds` assumes weak fairness of each session's commit steps;
`CallEnds` of each session's steps inside a call of the adapter.  The runs of
both have failing calls and crashes, that of `CommitEnds` also a second session
and tables closed under a commit; a crash ends a commit or a call too, but is
not fair, so neither property relies on it.  Neither
assumes that anything is mined: the poll counts the time it has waited
(`eth:728`), so `Receipt` is enabled without an answer.  Both assume that a
request returns, which is curl's doing.  Statements, new calls, mining and other
sessions need not be fair.

### Disagreements

Four more runs each check one statement of the repository's comments that the
code does not keep, and end in a counterexample:

| Run | Statement | What the code does |
|---|---|---|
| `first_write_wins` | `engine/include/transaction.h:39`: the list of statements is applied to the blockchain | of two writes of a key in one batch, `emplace` keeps the first: insert and update in one transaction commits the inserted value |
| `statement_rollback` | `ha:414`: nothing to rollback | the rows of a statement that failed inside a transaction are committed |
| `adapter_replaced` | `eth:647`: a transaction is added, not a pending one replaced | two sessions that read the same transaction count send the same nonce; the second transaction replaces the first |
| `rescan` | `engine/include/ha_blockchain.h:287`: a second `rnd_init` starts at the beginning of the table | rows are appended to those of the first scan, and each comes back twice |

The models contain further behaviour that a reader of the code may not expect.
It follows from one or two lines, or the repository says nothing to the
contrary, so no run states it:

- `ha:758`: the first `close` of a table that is open twice erases the adapter
  of both; commits then return 1 (`ha:355`), with earlier batches on the chain,
  and keep the `Transaction` and its old copies.
- `ha:379`: `bc_commit` looks at no result of `put` and `remove`; the row of a
  failed call is reported as committed with the others (`PrefixApplied` and
  `CommittedKeys` are about rows whose last call succeeded).
- `ha:1443`: `external_lock` takes any code but -1 for success and caches an
  empty table when `get_all` returned 1.
- `ha:913`: an update that moves a row to a key that exists deletes the row and
  ignores that the write was refused; `ha:903`: the buffer of the new row is
  left with the old one.
- `ha:1149`: `index_read` returns 0 and a row of zeros for an absent key.
- `ha:1596` and `ha_blockchain.h:271`: statements under LOCK TABLES that follow
  a commit have no `Transaction`.
- `ha:529`: the address of a join is parsed into a variable that hides the one
  written to the file, so a joined table gets an empty address.
- `ha:1090`: the rule by which `index_read` tells the two formats of a VARCHAR
  apart holds for characters of four bytes; for three bytes, and for one, it
  depends on the declared length.  A column it is wrong about is compared one
  byte off.  With plain texts (no byte of 0, at most 255 bytes) no row is found,
  unless the texts are empty.  Other texts are taken for one another: in a key
  of VARBINARY(3), a lookup of `'abX'` returns the row `'\0ab'`, and not the row
  `'abX'` (`MisledExact` says exactly which).  A number behind such a column is
  read a byte too early or too late, so that a lookup of ('', 1) returns the row
  ('', 256) (`Displaced` in `PrimaryKey`).
- `eth:728`: what a time-out reported as failed can be mined later.
- `eth:224`: the loop of `put` over the failed keys erases the element its
  iterator stands on; it may pass elements over or end the server.
- `eth:158`, `eth:418`: `put_batch` and `drop_table` return 0 whatever happened.
- `eth:475`: the nonce of a new account wraps to 2^64 - 1 and back by the
  increment that follows; the maximum with 0 has no effect.
- `eth:566`: the token between values is searched at every digit.
- `eth:145`: `put_batch` cuts a value at 32 bytes and sends its whole length.
- `eth:364`: `create_table` may return with an empty address.

## Proofs

For every set of keys, values, sessions and tables and for all bounds, from the
named assumptions on the constants only: that the values standing for "none"
are none of the others, that bounds are natural numbers, that a modulus is
larger than what it has to hold, that characters, texts and numbers have bytes,
and where it is needed that a set is finite.

`TableStorage_proofs`: `TypeCorrect`, `ScanIsExact`, `Refinement`.  The
inductive invariant says of the storage, and of the storage a running batch
started from, that they are tables (the key list names exactly the stored keys,
without repetition, and stored entries have values), and that the storage of a
running batch is what its first `i` writes make of the one it started from.  The
first part is what `SwapAndPopRemoves` needs to show that one key, and no other,
leaves the list; the last is why the return of a batch does all of its writes,
in their order, in one step of the abstract store.

`StorageEngine_proofs`:

- `TypeCorrect`.  The types are inductive together with the fact that the
  locals of `bc_commit` are reset outside it.
- `CacheReplays`.  `CacheIsReplay` is inductive with one more conjunct: a
  statement that can execute has copied every table it locked.  `ReplayAppend`
  is the heart of it: appending a statement to a list changes what the list
  makes of a table exactly at the statement's key.
- `BufferedRegistered`.  `BufferedIsRegistered` is inductive once it is known
  that a session between two statements is in no statement's scope; without
  that, an autocommit statement that ends without the engine being called could
  leave a copy behind.
- `BatchTail`.  `BatchIsTail` is inductive once every listed write is known to
  have a value (`ValuesOf`); `TailWrite` and `TailRemove` are the two turns of
  the first loop of `bc_commit`, `TailFlushed` one of the second.
- `CommitsPrefix` and `CommitStoresKeys`.  What the contract holds of a row
  while a commit is under way (`CommitOf`), if the last call on it succeeded and
  no other session changed it: either the running put has stored it already
  (`Sent`), and then it is the row of the batch, or it is what those statements
  on it make of the row at the start whose effect has reached the contract
  (`Settled`: passed by the loop and not in the batch).  These are a prefix of
  the statements on the row that reaches to the last removal the loop has passed
  (`PrefixOf`), which is `PrefixApplied`, wherever the commit stops.  When the
  loops end, all statements are settled, which gives `CommittedKeys`.  That the
  last of them decides whether the key is stored, but not always its value, is
  `Decides`: `emplace` keeps the first of two writes.  A failed call takes its
  own row out of the claim, a commit of another session the rows it changed;
  all other rows of the table stay in it.

Each of these goes session by session: a step of one session leaves the part of
the state the invariant of another session speaks of, except for a crash, which
resets them all.

`EthereumAdapter_proofs`: `TypeCorrect`, `ZeroIsDone`, `LeavingIsStored`, with
all faults.  The invariant says of each call what its loops have done so far:
in the loop of sending, every request it has seen is a transaction of this call
with the same keys (`AllSent`); in the loop of waiting, every request it has
seen has failed or is stored (`AllJudged`); and the transactions of a put are
about keys of its batch (`OwnKeys`).  `Ids` says that calls and transactions
have numbers of their own.  What other sessions, the node and a crash do to the
list of transactions is `Grown`: none is removed, one that has succeeded stays
so, and what is added belongs to one call; `CallStays` is that such a change
disturbs no other call.  `NextFree` needs that fewer nonces are pending than
numbers are tried (`FreeType`).

`EthereumInterface_proofs`: `Refinement`, that the adapter implements
`BlockchainAdapter`, with all faults.  The invariant `RInv`: no key is in two
transactions of one call (`Once`), the transactions of a running call are about
keys it no longer has to send (`OwnTxs`), and a call that has ended has nothing
left to send (`Settled`).  Then the writes a call owes, those unsent and those
pending, are different from the ones done, so that `Mine` is a `Take` of exactly
the keys of one transaction; a transaction that is replaced, refused or reverted
is a `Lose`; and signing, sending and polling change nothing that the interface
knows of (`OwedShrinks`, `DoneSame`).  There is one lemma for each action.

In the same module, on top of both invariants:

- `NoncesFollow`.  A call that nothing disturbs (`alone` in the model) is the
  only one under way and owns every pending transaction (`Watched` implies
  `Quiet`).  Hence the count it has read is still the count of the node while it
  signs (`SignsInOrder`), and what it has sent is numbered from there on
  (`SentInv`).  `Room` shows that the numbers do not run into each other modulo
  the width of `nonce_`: each transaction and each request still to come has a
  key of its own among the keys of the calls, so there are fewer than nonces.
- `DropsRest`.  A row that is still in the table is one that `drop_table` has
  not come to, is removing, or has failed to remove (`DInv`); a successful
  remove leaves its key absent as long as nothing else writes (`KeyGone`).  When
  the call is over, what is left are failed removes.

`TableHandler_proofs`: `TypeCorrect`, `ScansExact`, `ScansStayAhead`,
`PositionsHold`, `ChangedRowsAreCached`, under the hypothesis `MaxScans = 1`:
no scan is started before the last one has ended.  Without it scans are not
exact, which is the run `rescan`; the run `scans` checks what is left then.
The invariant: outside a scan the vector is empty (`Ended`); in a scan
`all_items` is `SetToSeq` of the snapshot, `seen` is its beginning up to the
position, and the rows ahead are in the copy (`Scanning`); saved positions name
rows of the vector, the vector made for the visit is the same, because the copy
does not change while positions are collected, and the rows still to be visited
are as they were (`Visiting`).
`UnlockedStatementsHaveTransaction` needs no hypothesis.

`TableMetadata_proofs`: `TypeCorrect`, `TablesKeepApart`, `CreatedIsNamed`.  The
invariant: a create under way and a table in the dictionary have their file
(`HasFile`); an address in a file of a table, in its create or in its adapter
is one deployed for it or given for it (`Owned`).  No proof uses which file the
iterator takes first, only that it is one of the table's.

`PrimaryKey_proofs`: `KeysAreTyped`, `LookupsAreExact`, `MisledLookups`,
`NoRowIsTaken`, for all numbers of bytes of a character, all declared lengths,
and texts and numbers of any bytes.  The
loops over the columns are unrolled for keys of one and of two columns
(`FlatTwo`, `PositionIs`, `AdjustedOnly`); after that every byte of the adjusted
key is a byte of the index key at a place given by `Before`.  A column whose
size tells its format stands where it stands in the row (`LoneIs`,
`FirstColumn`, `SecondColumn`); the two bytes of a length determine it
(`LowHigh`).  In a key of one column whose size misleads, the adjusted key is
the lower byte of the length and the text moved by one byte (`MisledIs`,
`MovedIs`), which gives both directions of `MisledExact` (`MisledMatches`).  For
plain texts, a byte of 0 then meets the first byte of a text, so that both texts
are empty (`MisledIsEmpty`); what is displaced behind it is a text that must be
empty as well (`MisledSecond`), or a number, which `NoWrongRow` excludes.  That
exclusion and plain texts are conditions of `NoWrongRow` only: without them it
is false, as `MisledExact` shows for a single column.

`ScanCodec_proofs`: `TypeCorrect`, `OneRow`, `ShortBatch`, `KeysKept`,
`ScanExactness`, for every even word size up to 64 digits, values of any bytes
and any lengths within the two assumptions, and tables of up to two rows.  The
state of this module is one operation on one table, so the invariant
(`Decodes`) only says which decoder made the result, and the work is in the
lemmas about the operators:

- The recursive functions `Rests`, `hex_to_int` and `Pieces` are taken to be
  CHOOSE of a function that satisfies an equation; that there is one is proved
  by induction on a set of numbers (`SetInduction`, from the well-foundedness of
  <), once for numbers (`PrimitiveRecursion`) and once, backwards through a
  text, for pieces (`CutExists`).  Then `hex_to_int` reads back what
  `int_to_hex` writes (`NumberExact`), and the conversions of bytes and digits
  are inverse to each other (`BytesExact`, `DigitsExact`).
- `GetExact` and `PutExact` cut the answer and the data apart (`Behind`,
  `InFront`).
- `BatchRows` says where the data of `put_batch` has the count, the keys, the
  offsets and the values; the i-th offset leads to the i-th length, whatever the
  lengths of the values.  What is read behind that length is the value if the
  value is no longer than a word (`BatchExact`).
- `PieceIs` is the heart of the scan: in a text that goes on with a value and
  its token, a token is found there or earlier, and it is that token exactly if
  the value is `Clean`.  Hence there are as many pieces as rows (`ScanKeeps`),
  since the first piece cannot reach beyond the first token.  That the scan is
  exact *only* if all values are clean (`ScanExact`) needs more: the keys of the
  rows differ, so that each piece has to give the value of its own row, and a
  piece of whole bytes is determined by the bytes it stands for.

Only model-checked: `CommitEnds` and `CallEnds`, since liveness under fairness
and ENABLED are out of TLAPS's reach.  Tables of more than two rows in
`ScanCodec`, and keys of more than two columns in `PrimaryKey`, are beyond both
the runs and the proofs.

## Not modelled

- The vendored `adapter/utils/src/json.hpp`, 22875 of the repository's 27343
  lines of implementation, is third-party code.  What the adapter relies on is
  in the actions: an answer parses or throws.
- Two threads inside one curl handle (`eth:674`), a torn `bc_adapter_map`
  (`ha:748`), and the overlapping `memcpy` of `index_read` (`ha:1093`) are
  undefined; each request, each access of the map and each shift is one step
  here, and the shift goes from the front.
- A failed open or write of a metadata file, and text in it that is JSON of an
  unexpected form.
- NULLs in keys, and what a VARCHAR has behind its text.
- `init` of the adapter from a configuration file, which the engine never calls.
- `index_next`, `index_prev`, `index_first`, `index_last`, `rename_table` and
  `delete_all_rows`, which return an error; `info`, `records_in_range` and the
  other tables of constants that answer the optimizer; plugin registration,
  stubs, debug output, tests.

## What is left

`StorageEngine` over `BlockchainAdapter` instead of atomic calls, so that a
commit sees late writes of its predecessor; and which row is found by a key of
two columns of which one misleads, when its texts are not plain.
