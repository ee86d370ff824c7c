-------------------------- MODULE EthereumAdapter --------------------------
(***************************************************************************)
(* The Ethereum adapter (adapter_ethereum.cpp): every table has an adapter *)
(* object with its own counter nonce_, and all of them send transactions   *)
(* from one account of one node.  A call of put or remove reads the number *)
(* of mined transactions, derives the nonces of its transactions from it,  *)
(* sends them, polls until each is mined or the waiting time is over, and  *)
(* reads the receipts.  Every request to the node is a step of its own; a  *)
(* step of another session may come between any two.                       *)
(*                                                                         *)
(* The node is external: it takes a transaction whose nonce is the number  *)
(* of mined ones or more, replaces or refuses one whose nonce a pending    *)
(* transaction has, and mines in the order of the nonces, without gaps.    *)
(* A row is abstracted to the call that wrote it.  createRpcBatch and      *)
(* sendRpcBatch take the transactions in the order of two kinds of         *)
(* strings, which agree only up to ten of them; here any order is taken.   *)
(***************************************************************************)
EXTENDS Integers, Sequences, FiniteSets, FiniteSetsExt

CONSTANTS
    Session, Table, Key,
    Modulus,        \* nonce_ is an unsigned integer: 2^64
    Deployed,       \* transactions of the account before the model starts
    MaxCalls,       \* bound: calls made
    Faults          \* what can go wrong besides what the callers do

\* No connection; a lost request or answer; mining that takes longer than the
\* waiting time; a put the contract reverts; a server that dies.
FaultKinds == {"connection", "answer", "timeout", "revert", "crash"}
ASSUME FaultsAssumption == Faults \subseteq FaultKinds
ASSUME ModulusAssumption == Modulus \in Nat /\ Modulus > 1
ASSUME CountsAssumption == Deployed \in Nat /\ MaxCalls \in Nat
ASSUME KeyAssumption == IsFiniteSet(Key)
\* The account has fewer than 2^64 transactions: a call sends no key twice.
ASSUME RoomAssumption == Modulus >= Deployed + MaxCalls * Cardinality(Key)

VARIABLES
    txs,            \* the transactions in the order the node accepted them
    writer,         \* [Table -> [Key -> 0..MaxCalls]]: the call whose value
                    \* the contract holds, 0 for an absent key
    open,           \* the tables with an adapter
    nonce,          \* nonce_ of each adapter
    calls,          \* how many calls were made
    call            \* the call each session is in, or its last one

vars == <<txs, writer, open, nonce, calls, call>>

Op == {"put", "put_batch", "remove", "drop_table"}
Request == (SUBSET Key) \ {{}}        \* a transaction, by the keys it changes
Nonce == 0..(Modulus - 1)

Tx == [call : 1..MaxCalls, table : Table, keys : Request, put : BOOLEAN,
       nonce : Nat, status : {"pending", "success", "reverted", "replaced"}]

Call == [id : 0..MaxCalls, op : Op, table : Table \cup {"none"},
         phase : {"idle", "update", "sign", "send", "check", "return"},
         batch : SUBSET Key,        \* put: the caller's map; remove: the key
         rest : SUBSET Key,         \* drop_table: keys still to be removed
         todo : SUBSET Request,     \* requests the current loop has not seen
         nonces : [Request -> Nonce],
         sent : [Request -> Nat],   \* index in txs, 0 when not sent
         failed : SUBSET Key,       \* output of sendRpcBatch
         result : {0, 1},
         alone : BOOLEAN]           \* history: nobody else's transaction was
                                    \* under way, and no answer was lost

TypeOK ==
    /\ txs \in Seq(Tx)
    /\ writer \in [Table -> [Key -> 0..MaxCalls]]
    /\ open \subseteq Table
    /\ nonce \in [Table -> Nonce]
    /\ calls \in 0..MaxCalls
    /\ call \in [Session -> Call]

NoCall == [id |-> 0, op |-> "put", table |-> "none",
           phase |-> "idle", batch |-> {}, rest |-> {}, todo |-> {},
           nonces |-> [r \in Request |-> 0], sent |-> [r \in Request |-> 0],
           failed |-> {}, result |-> 0, alone |-> FALSE]

Init ==
    /\ txs = <<>>
    /\ writer = [t \in Table |-> [k \in Key |-> 0]]
    /\ open = {}
    /\ nonce = [t \in Table |-> 0]
    /\ calls = 0
    /\ call = [s \in Session |-> NoCall]

----------------------------------------------------------------------------
(* The node. *)

Mined(tx) == tx.status \in {"success", "reverted"}
Pending == {i \in DOMAIN txs : txs[i].status = "pending"}

\* eth_getTransactionCount of the block "latest".
TransactionCount == Deployed + Cardinality({i \in DOMAIN txs : Mined(txs[i])})

\* The nonce the node gives a transaction that comes without one.
NextFree == Min({n \in TransactionCount..(TransactionCount + Len(txs)) :
                    \A i \in Pending : txs[i].nonce # n})

\* TableStorage.sol: put overwrites, remove reverts for an absent key.
Present(t) == {k \in Key : writer[t][k] # 0}
CanSucceed(tx) == tx.put \/ tx.keys \subseteq Present(tx.table)

Mine(i) ==
    /\ txs[i].status = "pending" /\ txs[i].nonce = TransactionCount
    /\ \/ /\ CanSucceed(txs[i])
          /\ txs' = [txs EXCEPT ![i].status = "success"]
          /\ writer' = [writer EXCEPT ![txs[i].table] = [k \in Key |->
                IF k \notin txs[i].keys THEN @[k]
                ELSE IF txs[i].put THEN txs[i].call ELSE 0]]
       \/ /\ ~CanSucceed(txs[i]) \/ "revert" \in Faults
          /\ txs' = [txs EXCEPT ![i].status = "reverted"]
          /\ UNCHANGED writer
    /\ UNCHANGED <<open, nonce, calls, call>>

----------------------------------------------------------------------------
(* Adapters. *)

\* nonce_ as update_nonce leaves it: tmp_nonce - 1 is unsigned and wraps, so
\* the maximum with 0 changes nothing; without an answer nonce_ stays.
\* Wrongly: the clamp the code seems to mean, nonce 0 for a new account.
LatestNonce_Clamped == IF TransactionCount = 0 THEN 0 ELSE TransactionCount - 1

LatestNonce == (TransactionCount + Modulus - 1) % Modulus
Updated(old) == {LatestNonce} \cup IF "answer" \in Faults THEN {old} ELSE {}

\* init sets nonce_ to 0, load_table updates it then.  Before that it returns 1
\* for an empty address, and open installs the adapter all the same: its calls
\* go to no contract.  The tables here have one; TableMetadata has the others.
LoadTable(t) ==
    /\ t \notin open
    /\ open' = open \cup {t}
    /\ \E n \in Updated(0) : nonce' = [nonce EXCEPT ![t] = n]
    /\ UNCHANGED <<txs, writer, calls, call>>

\* An exception that nobody catches ends the server; it comes back with no
\* adapter open.  What the node was told stays.
Crashed(newTxs) ==
    /\ txs' = newTxs
    /\ open' = {}
    /\ nonce' = [t \in Table |-> 0]
    /\ call' = [s \in Session |-> NoCall]
    /\ UNCHANGED <<writer, calls>>

Crash == call # [s \in Session |-> NoCall] /\ "crash" \in Faults /\ Crashed(txs)

----------------------------------------------------------------------------
(* The beginning of a call.                                                *)

Requests(op, B) == IF op = "put_batch" THEN {B} ELSE {{k} : k \in B}

Started(op, t, B, more) ==
    [NoCall EXCEPT !.id = calls + 1, !.op = op, !.table = t, !.phase = "update",
                   !.batch = B, !.rest = more, !.todo = Requests(op, B),
                   !.alone = (Pending = {} /\ \A x \in Session : call[x].phase = "idle")]

Start(s, op, t, B, more) ==
    /\ call[s].phase = "idle" /\ t \in open /\ calls < MaxCalls
    /\ B # {}
    /\ calls' = calls + 1
    /\ call' = [x \in Session |-> IF x = s THEN Started(op, t, B, more)
                                  ELSE [call[x] EXCEPT !.alone = FALSE]]
    /\ UNCHANGED <<txs, writer, open, nonce>>

\* A call that returns r at once; B is left in the caller's batch.
Refused(s, op, t, B, r) ==
    /\ call[s].phase = "idle" /\ t \in open /\ calls < MaxCalls
    /\ calls' = calls + 1
    /\ call' = [call EXCEPT ![s] = [NoCall EXCEPT
                    !.id = calls + 1, !.op = op, !.table = t, !.batch = B,
                    !.failed = B, !.result = r]]
    /\ UNCHANGED <<txs, writer, open, nonce>>

Put(s, t, B) ==
    \/ Start(s, "put", t, B, {})
    \/ "connection" \in Faults /\ B # {} /\ Refused(s, "put", t, B, 1)

PutBatch(s, t, B) == Start(s, "put_batch", t, B, {})

Remove(s, t, k) == Start(s, "remove", t, {k}, {})

\* get_all, then one remove after the other.  Without rows get_all returns 1,
\* without an answer -1 or 1: nothing is removed and 0 is returned.  Wrongly:
\* one key is removed.
DropTable_LastOnly(s, t) ==
    \E k \in Present(t) : Start(s, "drop_table", t, {k}, {})

DropTable(s, t) ==
    \/ \E k \in Present(t) : Start(s, "drop_table", t, {k}, Present(t) \ {k})
    \/ /\ Present(t) = {} \/ Faults \cap {"connection", "answer"} # {}
       /\ Refused(s, "drop_table", t, {}, 0)

----------------------------------------------------------------------------
(* The loops of a call: update_nonce once for each request, then a nonce   *)
(* for each, then all are sent, then all are waited for.                   *)

\* The loop that comes when the current one has seen its last request.
After(phase) == [update |-> "sign", sign |-> "send", send |-> "check",
                 check |-> "return"][phase]

Seen(c, r) ==
    IF c.todo # {r} THEN [c EXCEPT !.todo = @ \ {r}]
    ELSE [c EXCEPT !.phase = After(c.phase),
                   !.todo = IF c.phase = "check" THEN {} ELSE Requests(c.op, c.batch)]

UpdateNonce(s, r) ==
    /\ call[s].phase = "update" /\ r \in call[s].todo
    /\ \E n \in Updated(nonce[call[s].table]) :
            /\ nonce' = [nonce EXCEPT ![call[s].table] = n]
            /\ call' = [call EXCEPT ![s] =
                    Seen([@ EXCEPT !.alone = call[s].alone /\ n = LatestNonce], r)]
    /\ UNCHANGED <<txs, writer, open, calls>>

\* Wrongly: a counter without a width.
Incremented_Unbounded(n) == n + 1

\* ++nonce_
Incremented(n) == (n + 1) % Modulus

Sign(s, r) ==
    LET n == Incremented(nonce[call[s].table]) IN
    /\ call[s].phase = "sign" /\ r \in call[s].todo
    /\ nonce' = [nonce EXCEPT ![call[s].table] = n]
    /\ call' = [call EXCEPT ![s] = Seen([@ EXCEPT !.nonces[r] = n], r)]
    /\ UNCHANGED <<txs, writer, open, calls>>

\* parse_params_to_json leaves the nonce out when it is 0.
SentNonce(s, r) == IF call[s].nonces[r] > 0 THEN call[s].nonces[r] ELSE NextFree

NewTx(s, r) ==
    [call |-> call[s].id, table |-> call[s].table, keys |-> r,
     put |-> call[s].op \in {"put", "put_batch"},
     nonce |-> SentNonce(s, r), status |-> "pending"]

Rivals(n) == {i \in Pending : txs[i].nonce = n}

Accepted(s, r) ==
    Append([i \in DOMAIN txs |-> IF i \in Rivals(SentNonce(s, r))
                                 THEN [txs[i] EXCEPT !.status = "replaced"]
                                 ELSE txs[i]], NewTx(s, r))

Send(s, r) ==
    /\ call[s].phase = "send" /\ r \in call[s].todo
    /\ SentNonce(s, r) >= TransactionCount
    /\ txs' = Accepted(s, r)
    /\ call' = [call EXCEPT ![s] = Seen([@ EXCEPT !.sent[r] = Len(txs) + 1], r)]
    /\ UNCHANGED <<writer, open, nonce, calls>>

\* json_response["result"] is no string: the node refused the transaction, or
\* its answer was lost after it took the transaction or before.
SendThrows(s, r) ==
    /\ call[s].phase = "send" /\ r \in call[s].todo
    /\ \/ /\ \/ SentNonce(s, r) < TransactionCount
             \/ Rivals(SentNonce(s, r)) # {}
             \/ "answer" \in Faults
          /\ Crashed(txs)
       \/ /\ "answer" \in Faults /\ SentNonce(s, r) >= TransactionCount
          /\ Crashed(Accepted(s, r))

\* Wrongly: a mined transaction is taken for a successful one.
Receipt_MinedIsEnough(s, r) ==
    LET tx == txs[call[s].sent[r]] IN
    /\ call[s].phase = "check" /\ r \in call[s].todo
    /\ Mined(tx) \/ tx.status = "replaced" \/ "timeout" \in Faults
    /\ call' = [call EXCEPT ![s] =
                   Seen([@ EXCEPT !.failed = IF Mined(tx) THEN @ ELSE @ \cup r], r)]
    /\ UNCHANGED <<txs, writer, open, nonce, calls>>

\* Wrongly: the poll does not count the time.
Receipt_Untimed(s, r) ==
    LET tx == txs[call[s].sent[r]] IN
    /\ call[s].phase = "check" /\ r \in call[s].todo
    /\ Mined(tx)
    /\ call' = [call EXCEPT ![s] =
                   Seen([@ EXCEPT !.failed = IF tx.status = "success" THEN @ ELSE @ \cup r], r)]
    /\ UNCHANGED <<txs, writer, open, nonce, calls>>

\* The poll ends when the transaction is mined or the waiting time is over;
\* then the receipt decides, as it is at that time.  No receipt is a failure.
Receipt(s, r) ==
    LET tx == txs[call[s].sent[r]] IN
    /\ call[s].phase = "check" /\ r \in call[s].todo
    /\ Mined(tx) \/ tx.status = "replaced" \/ "timeout" \in Faults
    /\ \E ok \in {tx.status = "success"} \cup
                    IF "answer" \in Faults THEN {FALSE} ELSE {} :
          call' = [call EXCEPT ![s] =
                     Seen([@ EXCEPT !.failed = call[s].failed
                                         \cup IF ok THEN {} ELSE r], r)]
    /\ UNCHANGED <<txs, writer, open, nonce, calls>>

----------------------------------------------------------------------------
(* The end of a call.                                                      *)

Returned(c, r, B) == [c EXCEPT !.phase = "idle", !.result = r, !.batch = B,
                               !.nonces = NoCall.nonces, !.sent = NoCall.sent]

\* The batches the loop over the failed keys can leave: it erases the element
\* its iterator stands on and then advances the iterator, which is undefined;
\* the first such element is gone, others may be passed over.  Wrongly: the keys
\* that failed are erased.
Erased_Failed(c) == {c.batch \ c.failed}
Erased(c) ==
    IF c.failed = c.batch THEN {c.batch}
    ELSE {c.failed \cup kept :
            kept \in (SUBSET (c.batch \ c.failed)) \ {c.batch \ c.failed}}

\* Wrongly: the keys that failed are sent again.
ReturnPut_Retries(s) ==
    /\ call[s].phase = "return" /\ call[s].op = "put"
    /\ call[s].failed # {}
    /\ call' = [call EXCEPT ![s] = [@ EXCEPT !.phase = "update", !.failed = {},
                                    !.todo = {{k} : k \in call[s].failed}]]
    /\ UNCHANGED <<txs, writer, open, nonce, calls>>

ReturnPut(s) ==
    /\ call[s].phase = "return" /\ call[s].op = "put"
    /\ call[s].failed # {}
    /\ \E B \in Erased(call[s]) : call' = [call EXCEPT ![s] = Returned(@, 1, B)]
    /\ UNCHANGED <<txs, writer, open, nonce, calls>>

\* The increment of the erased iterator faults.
ReturnPutFaults(s) ==
    /\ call[s].phase = "return" /\ call[s].op = "put"
    /\ call[s].failed # {} /\ call[s].failed # call[s].batch
    /\ Crashed(txs)

\* put without a failure leaves the batch as it is; remove looks at its answer;
\* put_batch and drop_table return 0 whatever happened.
Return(s) ==
    LET c == call[s] IN
    /\ c.phase = "return" /\ c.rest = {}
    /\ ~(c.op = "put" /\ c.failed # {})
    /\ call' = [call EXCEPT ![s] = Returned(@,
                    IF c.op = "remove" /\ c.failed # {} THEN 1 ELSE 0, c.batch)]
    /\ UNCHANGED <<txs, writer, open, nonce, calls>>

\* drop_table goes on with the next key; the result of the remove is ignored.
NextRemove(s) ==
    /\ call[s].phase = "return" /\ call[s].rest # {}
    /\ \E k \in call[s].rest :
         call' = [call EXCEPT ![s] = [@ EXCEPT
                    !.phase = "update", !.batch = {k}, !.rest = call[s].rest \ {k},
                    !.todo = {{k}}, !.sent = NoCall.sent, !.nonces = NoCall.nonces,
                    !.alone = call[s].alone /\ Pending = {}]]
    /\ UNCHANGED <<txs, writer, open, nonce, calls>>

Step(s) ==
    \/ \E r \in Request : UpdateNonce(s, r) \/ Sign(s, r) \/ Send(s, r)
                            \/ SendThrows(s, r) \/ Receipt(s, r)
    \/ ReturnPut(s) \/ ReturnPutFaults(s) \/ Return(s) \/ NextRemove(s)

Begin(s, t) ==
    \/ \E B \in SUBSET Key : Put(s, t, B) \/ PutBatch(s, t, B)
    \/ \E k \in Key : Remove(s, t, k)
    \/ DropTable(s, t)

Next ==
    \/ \E t \in Table : LoadTable(t)
    \/ \E s \in Session, t \in Table : Begin(s, t)
    \/ \E s \in Session : Step(s)
    \/ \E i \in DOMAIN txs : Mine(i)
    \/ Crash

Spec == Init /\ [][Next]_vars

\* A session goes on with its call: the polling loop counts the time it has
\* waited, and a request that is not answered fails.
LiveSpec == Spec /\ \A s \in Session : WF_vars(Step(s))

----------------------------------------------------------------------------
(* Properties *)

Running(s) == call[s].phase # "idle"
WroteKey(c, k) == \E i \in DOMAIN txs :
    txs[i].call = c /\ k \in txs[i].keys /\ txs[i].status = "success"

\* What bc_commit and the tests rely on: a put or a remove that returned 0 has
\* changed every one of its keys on the blockchain, whatever nonces collided,
\* were replaced, refused or timed out on the way.
ZeroMeansDone ==
    \A s \in Session :
        (~Running(s) /\ call[s].op \in {"put", "remove"} /\ call[s].result = 0) =>
            \A k \in call[s].batch : WroteKey(call[s].id, k)

\* A put that returned 1 takes no key out of the caller's batch whose value is
\* not on the blockchain: what has left the batch is stored, what failed stays,
\* however many elements the loop over the failed keys passes over.
OnlyStoredLeave ==
    \A s \in Session :
        (~Running(s) /\ call[s].op = "put" /\ call[s].result = 1) =>
            /\ call[s].failed \subseteq call[s].batch
            /\ \A i \in DOMAIN txs : txs[i].call = call[s].id =>
                  \A k \in txs[i].keys \ call[s].batch : WroteKey(call[s].id, k)

\* The transactions of an undisturbed call carry exactly the nonces that follow
\* those of all earlier transactions: the unsigned txcount - 1 of update_nonce,
\* its increment and the nonce left out when it is 0 fit together, also for a
\* new account and for an adapter that slept while another table's sent.
NoncesFollowCount ==
    \A s \in Session : (call[s].alone /\ call[s].phase \in {"send", "check"}) =>
        LET R == Requests(call[s].op, call[s].batch)
            own == {call[s].sent[r] : r \in R}
            before == Deployed + Cardinality(
                {i \in DOMAIN txs \ own : txs[i].status # "replaced"})
        IN  {call[s].nonces[r] : r \in R} = before..(before + Cardinality(R) - 1)

\* "Drops a table and deletes all entries": what an undisturbed drop_table has
\* left in the table, until the next call, are keys whose remove it was told had
\* failed, although it returns 0; no other key is passed over or comes back.
DropLeavesFailed ==
    \A s \in Session :
        (~Running(s) /\ call[s].op = "drop_table" /\ call[s].alone
            /\ call[s].id = calls) =>
                Present(call[s].table) \subseteq call[s].failed

\* "Increment nonce to indicate that Ethereum should not replace a currently
\* pending transaction, but add as new transaction" (the comment in call).
AddedNotReplaced == \A i \in DOMAIN txs : txs[i].status # "replaced"

\* Every call of the adapter returns or takes the server down.
CallEnds == \A s \in Session : Running(s) ~> ~Running(s)

----------------------------------------------------------------------------
(* The interface the adapter implements. *)

PutOp(op) == op \in {"put", "put_batch"}

\* Keys whose transaction a session has still to send.
Unsent(c) == c.rest \cup CASE c.phase \in {"update", "sign"} -> c.batch
                           [] c.phase = "send" -> UNION c.todo
                           [] OTHER -> {}

WritesOf(I) == UNION {{[call |-> txs[i].call, table |-> txs[i].table, key |-> k,
                        put |-> txs[i].put] : k \in txs[i].keys} : i \in I}

Asked(c) ==
    IF c.phase = "idle" THEN [op |-> "none", keys |-> {}]
    ELSE [op |-> c.op, keys |-> IF c.op \in {"put", "remove"} THEN c.batch ELSE {}]

Interface == INSTANCE BlockchainAdapter WITH
    active <- [s \in Session |-> IF Running(s) THEN call[s].id ELSE 0],
    asked <- [s \in Session |-> Asked(call[s])],
    owed <- WritesOf(Pending) \cup UNION {
                {[call |-> call[s].id, table |-> call[s].table, key |-> k,
                  put |-> PutOp(call[s].op)] : k \in Unsent(call[s])} : s \in Session},
    done <- WritesOf({i \in DOMAIN txs : txs[i].status = "success"}),
    result <- [s \in Session |-> call[s].result]

\* Whatever is lost, late or refused: no key of a call is written twice, none
\* that was not asked for, and put and remove return 0 only when all are done.
ImplementsInterface == Interface!Spec

=============================================================================
