----------------------- MODULE EthereumInterface_proofs -----------------------
(***************************************************************************)
(* The Ethereum adapter implements the interface of BlockchainAdapter, for *)
(* every set of sessions, tables and keys, any number of calls and all     *)
(* faults: every step of a call, of the node or of a crash is a step of    *)
(* the interface or changes nothing a caller can see.  And what it         *)
(* promises of a call that nobody disturbs: the nonces of its              *)
(* transactions, and that drop_table leaves the table empty.               *)
(***************************************************************************)
EXTENDS EthereumAdapter_proofs

(* The transactions of a call under way are about its table, and about keys *)
(* it has not still to send.                                                *)
OwnTxs(T, c) ==
    c.phase # "idle" =>
        /\ c.rest \cap c.batch = {}
        /\ \A i \in DOMAIN T : T[i].call = c.id =>
              /\ T[i].table = c.table /\ T[i].put = PutOp(c.op)
              /\ T[i].keys \cap Unsent(c) = {}

(* No key of a call is in two of its transactions.                          *)
Once(T) ==
    \A i, j \in DOMAIN T :
        i # j /\ T[i].call = T[j].call => T[i].keys \cap T[j].keys = {}

Settled(c) == c.phase = "idle" => c.rest = {}

(* What the refinement needs besides IInv.                                  *)
RInv == Once(txs) /\ \A s \in Session : OwnTxs(txs, call[s]) /\ Settled(call[s])
-----------------------------------------------------------------------------
(* Calls, as values.                                                       *)
LEMMA RequestsAre ==
    ASSUME NEW op, NEW B
    PROVE  /\ UNION Requests(op, B) = B
           /\ \A q, r \in Requests(op, B) : q # r => q \cap r = {}
<1>1. CASE op = "put_batch"
  BY <1>1 DEF Requests
<1>2. CASE op # "put_batch"
  BY <1>2 DEF Requests
<1> QED  BY <1>1, <1>2

LEMMA UnsentIn ==
    ASSUME NEW c
    PROVE  /\ c.phase \in {"update", "sign"} => Unsent(c) = c.rest \cup c.batch
           /\ c.phase = "send" => Unsent(c) = c.rest \cup UNION c.todo
           /\ c.phase \in {"idle", "check", "return"} => Unsent(c) = c.rest
BY DEF Unsent

(* A turn of a loop: nothing joins the keys still to be sent, and what is   *)
(* sent leaves them.                                                        *)
LEMMA TurnUnsent ==
    ASSUME NEW c \in Call, Going(c), c.phase \in Loop, NEW r \in c.todo,
           NEW b \in Call, SameCall(b, c)
    PROVE  /\ Seen(b, r).id = c.id /\ Seen(b, r).op = c.op
           /\ Seen(b, r).table = c.table /\ Seen(b, r).batch = c.batch
           /\ Seen(b, r).rest = c.rest /\ Seen(b, r).result = c.result
           /\ Seen(b, r).phase \in {"update", "sign", "send", "check", "return"}
           /\ Unsent(Seen(b, r)) \subseteq Unsent(c)
           /\ c.phase = "send" => r \subseteq Unsent(c)
           /\ c.phase = "send" /\ c.rest \cap c.batch = {}
                 => Unsent(Seen(b, r)) \cap r = {}
<1> DEFINE d == Seen(b, r)
<1>1. Going(b) /\ Req(b) = Req(c) /\ b.phase \in Loop /\ r \in b.todo
      /\ c.todo \subseteq Req(c)
  BY DEF Going, SameCall, Req, Loop
<1>2. /\ d.id = c.id /\ d.op = c.op /\ d.table = c.table
      /\ d.batch = c.batch /\ d.rest = c.rest /\ d.result = c.result
      /\ \/ d.phase = c.phase /\ d.todo = c.todo \ {r}
         \/ /\ c.todo = {r} /\ d.phase = After(c.phase)
            /\ d.todo = IF c.phase = "check" THEN {} ELSE Req(c)
      /\ After(c.phase) \in {"sign", "send", "check", "return"}
  BY <1>1, SeenTurn DEF SameCall
<1> HIDE DEF d
<1>3. /\ UNION Req(c) = c.batch
      /\ \A q \in Req(c) : q # r => q \cap r = {}
  BY <1>1, RequestsAre DEF Req
<1>4. r \subseteq c.batch
  BY <1>1, <1>3
<1>5. CASE c.phase = "update"
  <2>1. d.phase \in {"update", "sign"}
    BY <1>2, <1>5, AfterLoops
  <2>2. Unsent(d) = Unsent(c)
    BY <1>2, <1>5, <2>1, UnsentIn
  <2> QED  BY <1>2, <1>5, <2>1, <2>2 DEF d
<1>6. CASE c.phase = "sign"
  <2>1. d.phase = "sign" \/ (d.phase = "send" /\ d.todo = Req(c))
    BY <1>2, <1>6, AfterLoops
  <2>2. Unsent(d) = Unsent(c)
    BY <1>2, <1>3, <1>6, <2>1, UnsentIn
  <2> QED  BY <1>2, <1>6, <2>1, <2>2 DEF d
<1>7. CASE c.phase = "send"
  <2>1. \/ d.phase = "send" /\ d.todo = c.todo \ {r}
        \/ d.phase = "check"
    BY <1>2, <1>7, AfterLoops
  <2>2. Unsent(c) = c.rest \cup UNION c.todo
    BY <1>7, UnsentIn
  <2>3. \/ d.phase = "send" /\ Unsent(d) = c.rest \cup UNION (c.todo \ {r})
        \/ d.phase = "check" /\ Unsent(d) = c.rest
    BY <1>2, <2>1, UnsentIn
  <2>4. (UNION (c.todo \ {r})) \cap r = {}
    BY <1>1, <1>3
  <2>5. c.rest \cap c.batch = {} => Unsent(d) \cap r = {}
    BY <1>4, <2>3, <2>4
  <2>6. Unsent(d) \subseteq Unsent(c) /\ r \subseteq Unsent(c)
    BY <2>2, <2>3
  <2> QED  BY <1>2, <1>7, <2>1, <2>5, <2>6 DEF d
<1>8. CASE c.phase = "check"
  <2>1. d.phase \in {"check", "return"}
    BY <1>2, <1>8, AfterLoops
  <2>2. Unsent(d) = Unsent(c)
    BY <1>2, <1>8, <2>1, UnsentIn
  <2> QED  BY <1>2, <1>8, <2>1, <2>2 DEF d
<1> QED  BY <1>5, <1>6, <1>7, <1>8 DEF Loop

(* Transactions that were there before are about the same keys of the same  *)
(* table.                                                                   *)
Kept(T, U) ==
    /\ DOMAIN T \subseteq DOMAIN U
    /\ \A i \in DOMAIN T : /\ U[i].call = T[i].call /\ U[i].table = T[i].table
                           /\ U[i].keys = T[i].keys /\ U[i].put = T[i].put

LEMMA SameKept == \A T : Kept(T, T)
BY DEF Kept

LEMMA OwnStays ==
    ASSUME NEW T, NEW U, Kept(T, U), NEW c, OwnTxs(T, c),
           \A i \in DOMAIN U \ DOMAIN T : U[i].call # c.id
    PROVE  OwnTxs(U, c)
BY DEF Kept, OwnTxs

LEMMA AcceptedIs ==
    ASSUME IInv, NEW s \in Session, call[s].phase # "idle", NEW r \in Request
    PROVE  LET U == Accepted(s, r)
               n == Len(txs) + 1
           IN  /\ DOMAIN U = DOMAIN txs \cup {n} /\ n \notin DOMAIN txs /\ n \in Nat
               /\ U[n] = NewTx(s, r)
               /\ \A i \in DOMAIN txs :
                     U[i] = IF i \in Rivals(SentNonce(s, r))
                            THEN [txs[i] EXCEPT !.status = "replaced"] ELSE txs[i]
<1> DEFINE R == Rivals(SentNonce(s, r))
           new == NewTx(s, r)
           V == [i \in DOMAIN txs |-> IF i \in R
                       THEN [txs[i] EXCEPT !.status = "replaced"] ELSE txs[i]]
<1>1. txs \in Seq(Tx) /\ TypeOK /\ Going(call[s]) /\ call[s].id # 0
  BY UnderWay DEF TypeOK, CallInv
<1>2. V \in Seq(Tx) /\ Len(V) = Len(txs)
  <2>1. \A i \in DOMAIN txs \cap R : txs[i].status # "success"
    BY DEF Rivals, Pending
  <2>2. Grown(txs, V, 0) /\ Len(V) = Len(txs)
    BY <1>1, <2>1, Restatus
  <2> QED  BY <2>2 DEF Grown
<1>3. Accepted(s, r) = Append(V, new)
  BY DEF Accepted
<1>4. DOMAIN Accepted(s, r) = DOMAIN txs \cup {Len(txs) + 1} /\ Len(txs) + 1 \notin DOMAIN txs
  BY <1>1, AcceptedGrown
<1>5. \A i \in DOMAIN txs : V[i] = IF i \in R THEN [txs[i] EXCEPT !.status = "replaced"]
                                   ELSE txs[i]
  OBVIOUS
<1>6. DOMAIN txs = 1..Len(txs) /\ Len(txs) \in Nat
  BY <1>1, LenProperties
<1> HIDE DEF V, new, R
<1>7. /\ \A i \in 1..Len(txs) : Append(V, new)[i] = V[i]
      /\ Append(V, new)[Len(txs) + 1] = new
  BY <1>2
<1> QED  BY <1>3, <1>4, <1>5, <1>6, <1>7 DEF R, new

LEMMA NewTxIs ==
    ASSUME NEW s \in Session, NEW r
    PROVE  /\ NewTx(s, r).call = call[s].id /\ NewTx(s, r).table = call[s].table
           /\ NewTx(s, r).keys = r /\ NewTx(s, r).put = PutOp(call[s].op)
           /\ NewTx(s, r).nonce = SentNonce(s, r) /\ NewTx(s, r).status = "pending"
BY DEF NewTx, PutOp

LEMMA AcceptedKept ==
    ASSUME IInv, NEW s \in Session, call[s].phase # "idle", NEW r \in Request
    PROVE  Kept(txs, Accepted(s, r))
<1>1. \A i \in DOMAIN txs : txs[i] \in Tx
  BY ElementOfSeq, LenProperties DEF IInv, TypeOK
<1>2. \A i \in DOMAIN txs : [txs[i] EXCEPT !.status = "replaced"].call = txs[i].call
         /\ [txs[i] EXCEPT !.status = "replaced"].table = txs[i].table
         /\ [txs[i] EXCEPT !.status = "replaced"].keys = txs[i].keys
         /\ [txs[i] EXCEPT !.status = "replaced"].put = txs[i].put
  BY <1>1 DEF Tx
<1> QED  BY <1>2, AcceptedIs DEF Kept
-----------------------------------------------------------------------------
(* RInv is inductive.                                                      *)
LEMMA ROne ==
    ASSUME IInv, RInv, NEW s \in Session, call[s].phase # "idle",
           NEW d, call' = [call EXCEPT ![s] = d],
           Kept(txs, txs'),
           \A i \in DOMAIN txs' \ DOMAIN txs : txs'[i].call = call[s].id,
           Once(txs'), OwnTxs(txs', d), Settled(d)
    PROVE  RInv'
<1>1. /\ call'[s] = d /\ \A x \in Session : x # s => call'[x] = call[x]
      /\ Ids /\ call[s].id # 0
  BY UnderWay DEF IInv, TypeOK
<1>2. ASSUME NEW x \in Session, x # s
      PROVE  OwnTxs(txs', call[x]) /\ Settled(call[x])
  <2>1. call[x].id # call[s].id
    BY <1>1, <1>2 DEF Ids
  <2>2. OwnTxs(txs, call[x]) /\ Settled(call[x])
    BY DEF RInv
  <2> QED  BY <2>1, <2>2, OwnStays
<1>3. \A x \in Session : OwnTxs(txs', call'[x]) /\ Settled(call'[x])
  BY <1>1, <1>2
<1> QED  BY <1>3 DEF RInv

LEMMA RTurn ==
    ASSUME IInv, RInv, NEW s \in Session, NEW r \in call[s].todo,
           call[s].phase \in {"update", "sign", "check"},
           NEW b \in Call, SameCall(b, call[s]),
           call' = [call EXCEPT ![s] = Seen(b, r)], txs' = txs
    PROVE  RInv'
<1> DEFINE c == call[s]
           d == Seen(b, r)
<1>1. c \in Call /\ Going(c) /\ c.phase \in Loop /\ c.phase # "idle"
  BY UnderWay DEF CallInv, Loop
<1>2. OwnTxs(txs, c) /\ Once(txs)
  BY DEF RInv
<1> HIDE DEF c
<1>3. SameCall(b, c) /\ r \in c.todo
  BY DEF c
<1>4. /\ d.id = c.id /\ d.op = c.op /\ d.table = c.table /\ d.batch = c.batch
      /\ d.rest = c.rest /\ d.phase # "idle" /\ Unsent(d) \subseteq Unsent(c)
  BY <1>1, <1>3, TurnUnsent
<1>5. call' = [call EXCEPT ![s] = d]
  OBVIOUS
<1> HIDE DEF d
<1>6. OwnTxs(txs, d) /\ Settled(d)
  BY <1>1, <1>2, <1>4 DEF OwnTxs, Settled
<1> QED  BY <1>1, <1>2, <1>5, <1>6, ROne, SameKept DEF c

(* The keys of a new transaction are in no other one of its call.          *)
LEMMA OnceAccepted ==
    ASSUME IInv, RInv, NEW s \in Session, call[s].phase = "send", NEW r \in call[s].todo
    PROVE  /\ Once(Accepted(s, r)) /\ r \subseteq Unsent(call[s]) /\ r \in Request
           /\ r \subseteq call[s].batch
<1> DEFINE c == call[s]
           U == Accepted(s, r)
           n == Len(txs) + 1
<1>1. c \in Call /\ Going(c) /\ c.phase \in Loop /\ c.phase = "send" /\ r \in Request
      /\ OwnTxs(txs, c) /\ Once(txs) /\ r \in c.todo
  BY UnderWay DEF CallInv, Loop, RInv, Call
<1>2. r \subseteq Unsent(c) /\ r \subseteq c.batch
  <2>1. r \in Req(c)
    BY <1>1 DEF Going
  <2>2. SameCall(c, c)
    BY DEF SameCall
  <2> QED  BY <1>1, <2>1, <2>2, TurnUnsent, RequestsAre DEF Req
<1>3. /\ DOMAIN U = DOMAIN txs \cup {n} /\ n \notin DOMAIN txs
      /\ U[n].call = c.id /\ U[n].keys = r
      /\ Kept(txs, U)
  <2>1. DOMAIN U = DOMAIN txs \cup {n} /\ n \notin DOMAIN txs /\ U[n] = NewTx(s, r)
    BY <1>1, AcceptedIs
  <2> QED  BY <1>1, <2>1, AcceptedKept, NewTxIs
<1>4. \A i \in DOMAIN txs : txs[i].call = c.id => txs[i].keys \cap r = {}
  BY <1>1, <1>2 DEF OwnTxs
<1> HIDE DEF U, n, c
<1>5. Once(U)
  BY <1>1, <1>3, <1>4 DEF Once, Kept
<1> QED  BY <1>1, <1>2, <1>5 DEF U, c

LEMMA RSend ==
    ASSUME IInv, RInv, NEW s \in Session, NEW r \in Request, Send(s, r)
    PROVE  RInv'
<1> DEFINE c == call[s]
           n == Len(txs) + 1
           b == [c EXCEPT !.sent[r] = n]
           d == Seen(b, r)
<1>1. /\ c \in Call /\ Going(c) /\ c.phase = "send" /\ c.phase \in Loop /\ r \in c.todo
      /\ OwnTxs(txs, c) /\ txs' = Accepted(s, r) /\ call' = [call EXCEPT ![s] = d]
      /\ c.phase # "idle"
  BY UnderWay DEF Send, CallInv, Loop, RInv
<1>2. b \in Call /\ SameCall(b, c)
  <2>1. n \in Nat
    BY LenProperties DEF IInv, TypeOK
  <2> HIDE DEF n
  <2> QED  BY <1>1, <2>1 DEF Call, SameCall
<1>3. /\ Once(txs') /\ Kept(txs, txs')
      /\ DOMAIN txs' = DOMAIN txs \cup {n}
      /\ txs'[n].call = c.id /\ txs'[n].table = c.table
      /\ txs'[n].keys = r /\ txs'[n].put = PutOp(c.op)
  <2>1. txs' = Accepted(s, r) /\ c.phase = "send" /\ r \in c.todo /\ c.phase # "idle"
    BY <1>1
  <2>2. DOMAIN txs' = DOMAIN txs \cup {n} /\ txs'[n] = NewTx(s, r)
    BY <2>1, AcceptedIs
  <2>3. Once(txs')
    BY <2>1, OnceAccepted
  <2>4. Kept(txs, txs')
    BY <2>1, AcceptedKept
  <2> QED  BY <2>2, <2>3, <2>4, NewTxIs
<1> HIDE DEF b, c, n
<1>4. /\ d.id = c.id /\ d.op = c.op /\ d.table = c.table /\ d.batch = c.batch
      /\ d.rest = c.rest /\ d.phase # "idle" /\ Unsent(d) \subseteq Unsent(c)
      /\ c.rest \cap c.batch = {} => Unsent(d) \cap r = {}
  BY <1>1, <1>2, TurnUnsent
<1> HIDE DEF d
<1>5. c.rest \cap c.batch = {}
  BY <1>1 DEF OwnTxs
<1>6. OwnTxs(txs', d) /\ Settled(d)
  BY <1>1, <1>3, <1>4, <1>5 DEF OwnTxs, Settled, Kept
<1>7. \A i \in DOMAIN txs' \ DOMAIN txs : txs'[i].call = c.id
  BY <1>3
<1> QED  BY <1>1, <1>3, <1>6, <1>7, ROne DEF c

LEMMA RCrash ==
    ASSUME NEW U, Once(U), Crashed(U)
    PROVE  RInv'
<1>1. txs' = U /\ \A s \in Session : call'[s] = NoCall
  BY DEF Crashed
<1>2. OwnTxs(U, NoCall) /\ Settled(NoCall)
  BY DEF OwnTxs, Settled, NoCall
<1> QED  BY <1>1, <1>2 DEF RInv

(* The turns of the other loops, seen alike: they send nothing.            *)
LEMMA QuietTurn ==
    ASSUME IInv, NEW s \in Session, NEW r \in Request,
           UpdateNonce(s, r) \/ Sign(s, r) \/ Receipt(s, r)
    PROVE  /\ call[s] \in Call /\ Going(call[s])
           /\ call[s].phase \in {"update", "sign", "check"} /\ r \in call[s].todo
           /\ UNCHANGED <<txs, writer, open, calls>>
           /\ \E b \in Call : /\ SameCall(b, call[s])
                              /\ call[s].failed \subseteq b.failed
                              /\ b.alone => call[s].alone
                              /\ call' = [call EXCEPT ![s] = Seen(b, r)]
<1>1. /\ call[s].phase \in {"update", "sign", "check"} /\ r \in call[s].todo
      /\ UNCHANGED <<txs, writer, open, calls>>
  BY DEF UpdateNonce, Sign, Receipt
<1>2. call[s] \in Call /\ Going(call[s]) /\ call[s].table \in Table /\ TypeOK
  BY <1>1, UnderWay DEF CallInv
<1>3. CASE UpdateNonce(s, r)
  <2>1. PICK n \in Updated(nonce[call[s].table]) :
          call' = [call EXCEPT ![s] =
                  Seen([@ EXCEPT !.alone = call[s].alone /\ n = LatestNonce], r)]
    BY <1>3, Zenon DEF UpdateNonce
  <2> DEFINE b == [call[s] EXCEPT !.alone = call[s].alone /\ n = LatestNonce]
  <2>2. /\ b \in Call /\ SameCall(b, call[s])
        /\ call[s].failed \subseteq b.failed
        /\ b.alone => call[s].alone
    BY <1>2 DEF Call, SameCall
  <2>3. call' = [call EXCEPT ![s] = Seen(b, r)]
    BY <2>1
  <2> HIDE DEF b
  <2> QED  BY <1>1, <1>2, <2>2, <2>3
<1>4. CASE Sign(s, r)
  <2> DEFINE n == Incremented(nonce[call[s].table])
             b == [call[s] EXCEPT !.nonces[r] = n]
  <2>1. call' = [call EXCEPT ![s] = Seen(b, r)]
    BY <1>4 DEF Sign
  <2>2. n \in Nonce
    BY <1>2, IncrementedType DEF TypeOK
  <2> HIDE DEF n
  <2>3. /\ b \in Call /\ SameCall(b, call[s])
        /\ call[s].failed \subseteq b.failed
        /\ b.alone => call[s].alone
    BY <1>2, <2>2 DEF Call, SameCall
  <2> HIDE DEF b
  <2> QED  BY <1>1, <1>2, <2>1, <2>3
<1>5. CASE Receipt(s, r)
  <2>1. PICK ok \in {txs[call[s].sent[r]].status = "success"} \cup
                      IF "answer" \in Faults THEN {FALSE} ELSE {} :
          call' = [call EXCEPT ![s] =
                      Seen([@ EXCEPT !.failed = call[s].failed
                                         \cup IF ok THEN {} ELSE r], r)]
    BY <1>5, Zenon DEF Receipt
  <2> DEFINE more == IF ok THEN {} ELSE r
             b == [call[s] EXCEPT !.failed = call[s].failed \cup more]
  <2>2. call' = [call EXCEPT ![s] = Seen(b, r)]
    BY <2>1
  <2>3. more \in SUBSET Key
    BY DEF Request
  <2> HIDE DEF more
  <2>4. /\ b \in Call /\ SameCall(b, call[s])
        /\ call[s].failed \subseteq b.failed
        /\ b.alone => call[s].alone
    BY <1>2, <2>3 DEF Call, SameCall
  <2> HIDE DEF b
  <2> QED  BY <1>1, <1>2, <2>2, <2>4
<1> QED  BY <1>3, <1>4, <1>5

(* The ends of a call, seen alike.                                         *)
LEMMA EndTurn ==
    ASSUME IInv, NEW s \in Session, ReturnPut(s) \/ Return(s)
    PROVE  /\ call[s].phase = "return" /\ call[s].rest = {}
           /\ UNCHANGED <<txs, writer, open, nonce, calls>>
           /\ \E n \in {0, 1}, B \in SUBSET Key :
                 /\ call' = [call EXCEPT ![s] = Returned(call[s], n, B)]
                 /\ n = 0 /\ call[s].op \in {"put", "remove"} => call[s].failed = {}
<1>1. call[s].phase = "return" /\ UNCHANGED <<txs, writer, open, nonce, calls>>
  BY DEF ReturnPut, Return
<1>2. call[s] \in Call /\ Going(call[s])
  BY <1>1, UnderWay DEF CallInv
<1>3. CASE ReturnPut(s)
  <2>1. PICK B \in Erased(call[s]) : call' = [call EXCEPT ![s] = Returned(call[s], 1, B)]
    BY <1>3 DEF ReturnPut
  <2>2. B \in SUBSET Key
    BY <1>2 DEF Erased, Call
  <2>3. call[s].rest = {}
    BY <1>2, <1>3 DEF Going, ReturnPut
  <2>4. \E n \in {0, 1}, C \in SUBSET Key :
           /\ call' = [call EXCEPT ![s] = Returned(call[s], n, C)]
           /\ n = 0 /\ call[s].op \in {"put", "remove"} => call[s].failed = {}
    <3> WITNESS 1 \in {0, 1}, B \in SUBSET Key
    <3> QED  BY <2>1
  <2> QED  BY <1>1, <2>3, <2>4
<1>4. CASE Return(s)
  <2> DEFINE n == IF call[s].op = "remove" /\ call[s].failed # {} THEN 1 ELSE 0
  <2>1. /\ call' = [call EXCEPT ![s] = Returned(call[s], n, call[s].batch)]
        /\ call[s].rest = {}
        /\ ~(call[s].op = "put" /\ call[s].failed # {})
    BY <1>4 DEF Return
  <2>2. n \in {0, 1} /\ call[s].batch \in SUBSET Key
    BY <1>2 DEF Call
  <2>3. n = 0 /\ call[s].op \in {"put", "remove"} => call[s].failed = {}
    BY <2>1
  <2> HIDE DEF n
  <2> QED  BY <1>1, <2>1, <2>2, <2>3
<1> QED  BY <1>3, <1>4

LEMMA NextRemoveIs ==
    ASSUME IInv, NEW s \in Session, NextRemove(s)
    PROVE  /\ call[s] \in Call /\ call[s].phase = "return" /\ call[s].op = "drop_table"
           /\ UNCHANGED <<txs, writer, open, nonce, calls>>
           /\ \E k \in call[s].rest, d \in Call :
                 /\ call' = [call EXCEPT ![s] = d]
                 /\ d.id = call[s].id /\ d.op = call[s].op /\ d.table = call[s].table
                 /\ d.phase = "update" /\ d.batch = {k} /\ d.rest = call[s].rest \ {k}
                 /\ d.todo = {{k}} /\ d.result = call[s].result
                 /\ d.failed = call[s].failed /\ d.sent = NoCall.sent
                 /\ d.alone = (call[s].alone /\ Pending = {})
<1> DEFINE c == call[s]
           h == c.alone /\ Pending = {}
<1>1. c.phase = "return" /\ UNCHANGED <<txs, writer, open, nonce, calls>>
      /\ c.rest # {} /\ c \in Call /\ CallInv(txs, c)
  BY UnderWay DEF NextRemove
<1>2. c.op = "drop_table"
  BY <1>1 DEF CallInv, Going
<1>3. PICK k \in c.rest : call' = [call EXCEPT ![s] = [c EXCEPT
            !.phase = "update", !.batch = {k}, !.rest = c.rest \ {k},
            !.todo = {{k}}, !.sent = NoCall.sent, !.nonces = NoCall.nonces,
            !.alone = h]]
  BY DEF NextRemove
<1>4. h \in BOOLEAN
  OBVIOUS
<1> DEFINE d == [c EXCEPT
            !.phase = "update", !.batch = {k}, !.rest = c.rest \ {k},
            !.todo = {{k}}, !.sent = NoCall.sent, !.nonces = NoCall.nonces,
            !.alone = h]
<1> HIDE DEF h, c
<1>5. d \in Call
  BY <1>1, <1>4, NextRemoveTurn
<1>6. /\ d.id = c.id /\ d.op = c.op /\ d.table = c.table
      /\ d.phase = "update" /\ d.batch = {k} /\ d.rest = c.rest \ {k}
      /\ d.todo = {{k}} /\ d.result = c.result /\ d.failed = c.failed /\ d.alone = h
      /\ d.sent = NoCall.sent
  BY <1>1 DEF Call
<1>7. call' = [call EXCEPT ![s] = d]
  BY <1>3 DEF c
<1> HIDE DEF d
<1> QED  BY <1>1, <1>2, <1>5, <1>6, <1>7 DEF c, h

(* A call that begins, or returns at once.                                 *)
LEMMA BeginIs ==
    ASSUME NEW s \in Session, NEW t \in Table, Begin(s, t)
    PROVE  \/ \E op \in Op, B, more \in SUBSET Key :
                 /\ Start(s, op, t, B, more) /\ B \cap more = {}
                 /\ IF op = "drop_table" THEN B \cup more = Present(t) ELSE more = {}
           \/ \E op \in Op, B \in SUBSET Key, r \in {0, 1} : Refused(s, op, t, B, r)
<1> DEFINE Starts == \E op \in Op, B, more \in SUBSET Key :
                 /\ Start(s, op, t, B, more) /\ B \cap more = {}
                 /\ IF op = "drop_table" THEN B \cup more = Present(t) ELSE more = {}
           Refuses == \E op \in Op, B \in SUBSET Key, r \in {0, 1} : Refused(s, op, t, B, r)
<1>1. ASSUME NEW op \in Op, NEW B \in SUBSET Key, Start(s, op, t, B, {}),
             op # "drop_table"
      PROVE  Starts
  <2> WITNESS op \in Op, B \in SUBSET Key, {} \in SUBSET Key
  <2> QED  BY <1>1
<1>2. ASSUME NEW op \in Op, NEW B \in SUBSET Key, NEW r \in {0, 1}, Refused(s, op, t, B, r)
      PROVE  Refuses
  BY <1>2
<1>3. "put" \in Op /\ "put_batch" \in Op /\ "remove" \in Op /\ "drop_table" \in Op
  BY DEF Op
<1>4. ASSUME NEW k \in Present(t), Start(s, "drop_table", t, {k}, Present(t) \ {k})
      PROVE  Starts
  <2>1. {k} \in SUBSET Key /\ Present(t) \ {k} \in SUBSET Key
    BY DEF Present
  <2>2. {k} \cap (Present(t) \ {k}) = {} /\ {k} \cup (Present(t) \ {k}) = Present(t)
    OBVIOUS
  <2> USE <1>3, <2>1
  <2> WITNESS "drop_table" \in Op, {k} \in SUBSET Key, Present(t) \ {k} \in SUBSET Key
  <2> QED  BY <1>4, <2>2
<1> HIDE DEF Starts, Refuses
<1>5. ASSUME NEW B \in SUBSET Key, Put(s, t, B) PROVE Starts \/ Refuses
  BY <1>1, <1>2, <1>3, <1>5 DEF Put
<1>6. ASSUME NEW B \in SUBSET Key, PutBatch(s, t, B) PROVE Starts \/ Refuses
  BY <1>1, <1>3, <1>6 DEF PutBatch
<1>7. ASSUME NEW k \in Key, Remove(s, t, k) PROVE Starts \/ Refuses
  BY <1>1, <1>3, <1>7 DEF Remove
<1>8. ASSUME DropTable(s, t) PROVE Starts \/ Refuses
  BY <1>2, <1>3, <1>4, <1>8 DEF DropTable
<1>9. Starts \/ Refuses
  BY <1>5, <1>6, <1>7, <1>8 DEF Begin
<1> QED  BY <1>9 DEF Starts, Refuses

LEMMA StartedIs ==
    ASSUME NEW op, NEW t, NEW B, NEW more
    PROVE  LET d == Started(op, t, B, more)
           IN  /\ d.id = calls + 1 /\ d.op = op /\ d.table = t /\ d.phase = "update"
               /\ d.batch = B /\ d.rest = more /\ d.result = 0 /\ d.failed = {}
               /\ d.todo = Requests(op, B) /\ d.sent = NoCall.sent
               /\ d.alone = (Pending = {} /\ \A x \in Session : call[x].phase = "idle")
BY DEF Started, NoCall

(* Others only lose the note that they are alone.                          *)
LEMMA StartOthers ==
    ASSUME IInv, NEW s \in Session, NEW op, NEW t, NEW B, NEW more,
           Start(s, op, t, B, more), NEW x \in Session, x # s
    PROVE  /\ call'[x].id = call[x].id /\ call'[x].op = call[x].op
           /\ call'[x].table = call[x].table /\ call'[x].phase = call[x].phase
           /\ call'[x].batch = call[x].batch /\ call'[x].rest = call[x].rest
           /\ call'[x].todo = call[x].todo /\ call'[x].result = call[x].result
           /\ call'[x].failed = call[x].failed /\ call'[x].sent = call[x].sent
           /\ call'[x].alone = FALSE
<1>1. call[x] \in Call
  BY DEF IInv, TypeOK
<1>2. call'[x] = [call[x] EXCEPT !.alone = FALSE]
  BY DEF Start
<1> QED  BY <1>1, <1>2 DEF Call

LEMMA RefusedIs ==
    ASSUME IInv, NEW s \in Session, NEW op, NEW t, NEW B, NEW r, Refused(s, op, t, B, r)
    PROVE  /\ call'[s].id = calls + 1 /\ call'[s].op = op /\ call'[s].phase = "idle"
           /\ call'[s].table = t /\ call'[s].batch = B /\ call'[s].rest = {}
           /\ call'[s].result = r /\ call'[s].failed = B /\ call'[s].alone = FALSE
           /\ \A x \in Session : x # s => call'[x] = call[x]
<1> DEFINE d == [NoCall EXCEPT !.id = calls + 1, !.op = op, !.table = t,
                               !.batch = B, !.failed = B, !.result = r]
<1>1. call'[s] = d /\ \A x \in Session : x # s => call'[x] = call[x]
  BY DEF Refused, IInv, TypeOK
<1>2. /\ d.id = calls + 1 /\ d.op = op /\ d.phase = "idle" /\ d.table = t
      /\ d.batch = B /\ d.rest = {} /\ d.result = r /\ d.failed = B /\ d.alone = FALSE
  BY DEF NoCall
<1> QED  BY <1>1, <1>2

LEMMA UnsentSame ==
    ASSUME NEW c, NEW d, d.phase = c.phase, d.rest = c.rest, d.batch = c.batch,
           d.todo = c.todo
    PROVE  Unsent(d) = Unsent(c)
BY DEF Unsent

LEMMA RStart ==
    ASSUME IInv, RInv, NEW s \in Session, NEW op, NEW t, NEW B, NEW more,
           Start(s, op, t, B, more), B \cap more = {}
    PROVE  RInv'
<1>1. /\ Once(txs) /\ txs' = txs
      /\ \A i \in DOMAIN txs : txs[i].call # calls + 1
  BY OldTxs DEF IInv, RInv, Start
<1>2. call'[s] = Started(op, t, B, more)
  BY DEF Start
<1>3. OwnTxs(txs, call'[s]) /\ Settled(call'[s])
  <2> PICK d : d = call'[s]
    OBVIOUS
  <2>1. d.id = calls + 1 /\ d.phase = "update" /\ d.batch = B /\ d.rest = more
    BY <1>2, StartedIs
  <2>2. OwnTxs(txs, d) /\ Settled(d)
    BY <1>1, <2>1 DEF OwnTxs, Settled
  <2> QED  BY <2>2
<1>4. ASSUME NEW x \in Session, x # s PROVE OwnTxs(txs, call'[x]) /\ Settled(call'[x])
  <2> PICK c, d : c = call[x] /\ d = call'[x]
    OBVIOUS
  <2>1. /\ d.id = c.id /\ d.op = c.op /\ d.table = c.table /\ d.phase = c.phase
        /\ d.batch = c.batch /\ d.rest = c.rest /\ d.todo = c.todo
    BY <1>4, StartOthers
  <2>2. OwnTxs(txs, c) /\ Settled(c)
    BY DEF RInv
  <2>3. OwnTxs(txs, d) /\ Settled(d)
    BY <2>1, <2>2, UnsentSame DEF OwnTxs, Settled
  <2> QED  BY <2>3
<1> QED  BY <1>1, <1>3, <1>4 DEF RInv

LEMMA RRefused ==
    ASSUME IInv, RInv, NEW s \in Session, NEW op, NEW t, NEW B, NEW r,
           Refused(s, op, t, B, r)
    PROVE  RInv'
<1>1. /\ call'[s].phase = "idle" /\ call'[s].rest = {}
      /\ \A x \in Session : x # s => call'[x] = call[x]
  BY RefusedIs
<1>2. txs' = txs
  BY DEF Refused
<1>3. OwnTxs(txs, call'[s]) /\ Settled(call'[s])
  BY <1>1 DEF OwnTxs, Settled
<1> QED  BY <1>1, <1>2, <1>3 DEF RInv

LEMMA MineIs ==
    ASSUME IInv, NEW i \in DOMAIN txs, Mine(i)
    PROVE  /\ Kept(txs, txs') /\ DOMAIN txs' = DOMAIN txs
           /\ \A j \in DOMAIN txs : j # i => txs'[j] = txs[j]
           /\ txs[i] \in Tx /\ txs[i].status = "pending"
           /\ \/ /\ CanSucceed(txs[i]) /\ txs'[i].status = "success"
                 /\ writer' = [writer EXCEPT ![txs[i].table] = [k \in Key |->
                       IF k \notin txs[i].keys THEN writer[txs[i].table][k]
                       ELSE IF txs[i].put THEN txs[i].call ELSE 0]]
              \/ txs'[i].status = "reverted" /\ writer' = writer
           /\ UNCHANGED <<open, nonce, calls, call>>
<1>1. /\ UNCHANGED <<open, nonce, calls, call>> /\ txs[i].status = "pending"
      /\ \/ /\ CanSucceed(txs[i])
            /\ txs' = [txs EXCEPT ![i].status = "success"]
            /\ writer' = [writer EXCEPT ![txs[i].table] = [k \in Key |->
                  IF k \notin txs[i].keys THEN writer[txs[i].table][k]
                  ELSE IF txs[i].put THEN txs[i].call ELSE 0]]
         \/ txs' = [txs EXCEPT ![i].status = "reverted"] /\ writer' = writer
  BY DEF Mine
<1>2. \A j \in DOMAIN txs : txs[j] \in Tx
  BY ElementOfSeq, LenProperties DEF IInv, TypeOK
<1>3. PICK st \in {"success", "reverted"} :
        /\ txs' = [txs EXCEPT ![i].status = st]
        /\ \/ /\ CanSucceed(txs[i]) /\ st = "success"
              /\ writer' = [writer EXCEPT ![txs[i].table] = [k \in Key |->
                    IF k \notin txs[i].keys THEN writer[txs[i].table][k]
                    ELSE IF txs[i].put THEN txs[i].call ELSE 0]]
           \/ st = "reverted" /\ writer' = writer
  BY <1>1
<1>4. /\ DOMAIN txs' = DOMAIN txs
      /\ \A j \in DOMAIN txs : j # i => txs'[j] = txs[j]
      /\ txs'[i] = [txs[i] EXCEPT !.status = st]
  BY <1>3
<1>5. /\ txs'[i].status = st /\ txs'[i].call = txs[i].call /\ txs'[i].table = txs[i].table
      /\ txs'[i].keys = txs[i].keys /\ txs'[i].put = txs[i].put
  BY <1>2, <1>4 DEF Tx
<1>6. Kept(txs, txs')
  BY <1>4, <1>5 DEF Kept
<1> QED  BY <1>1, <1>2, <1>3, <1>4, <1>5, <1>6

LEMMA RMine ==
    ASSUME IInv, RInv, NEW i \in DOMAIN txs, Mine(i)
    PROVE  RInv'
<1>1. Kept(txs, txs') /\ DOMAIN txs' = DOMAIN txs /\ call' = call
  BY MineIs
<1>2. Once(txs')
  BY <1>1 DEF RInv, Once, Kept
<1>3. \A s \in Session : OwnTxs(txs', call[s]) /\ Settled(call[s])
  BY <1>1, OwnStays DEF RInv
<1> QED  BY <1>1, <1>2, <1>3 DEF RInv

LEMMA RStep ==
    ASSUME IInv, RInv, NEW s \in Session, Step(s)
    PROVE  RInv'
<1>1. Once(txs) /\ OwnTxs(txs, call[s])
  BY DEF RInv
<1>2. ASSUME NEW r \in Request, UpdateNonce(s, r) \/ Sign(s, r) \/ Receipt(s, r)
      PROVE  RInv'
  BY <1>2, QuietTurn, RTurn
<1>3. ASSUME NEW r \in Request, SendThrows(s, r) PROVE RInv'
  <2>1. call[s].phase = "send" /\ r \in call[s].todo
        /\ (Crashed(txs) \/ Crashed(Accepted(s, r)))
    BY <1>3 DEF SendThrows
  <2> QED  BY <1>1, <2>1, OnceAccepted, RCrash
<1>4. ASSUME ReturnPut(s) \/ Return(s) PROVE RInv'
  <2>1. /\ call[s].phase = "return" /\ call[s].rest = {} /\ txs' = txs
        /\ call[s] \in Call
    BY <1>4, EndTurn, UnderWay
  <2>2. PICK n \in {0, 1}, B \in SUBSET Key :
          call' = [call EXCEPT ![s] = Returned(call[s], n, B)]
    BY <1>4, EndTurn
  <2> PICK d : d = Returned(call[s], n, B)
    OBVIOUS
  <2>3. d.phase = "idle" /\ d.rest = {}
    BY <2>1, ReturnedType
  <2>4. OwnTxs(txs, d) /\ Settled(d)
    BY <2>3 DEF OwnTxs, Settled
  <2> QED  BY <1>1, <2>1, <2>2, <2>4, ROne, SameKept
<1>5. ASSUME NextRemove(s) PROVE RInv'
  <2>1. call[s].phase = "return" /\ txs' = txs
    BY <1>5, NextRemoveIs
  <2>2. PICK k \in call[s].rest, d \in Call :
          /\ call' = [call EXCEPT ![s] = d]
          /\ d.id = call[s].id /\ d.op = call[s].op /\ d.table = call[s].table
          /\ d.phase = "update" /\ d.batch = {k} /\ d.rest = call[s].rest \ {k}
    BY <1>5, NextRemoveIs
  <2>3. Unsent(d) = call[s].rest /\ Unsent(call[s]) = call[s].rest
    <3>1. Unsent(d) = d.rest \cup d.batch
      BY <2>2, UnsentIn
    <3>2. Unsent(call[s]) = call[s].rest
      BY <2>1, UnsentIn
    <3> QED  BY <2>2, <3>1, <3>2
  <2>4. OwnTxs(txs, d) /\ Settled(d)
    BY <1>1, <2>1, <2>2, <2>3 DEF OwnTxs, Settled
  <2> QED  BY <1>1, <2>1, <2>2, <2>4, ROne, SameKept
<1>6. ASSUME ReturnPutFaults(s) PROVE RInv'
  BY <1>1, <1>6, RCrash DEF ReturnPutFaults
<1> QED  BY <1>2, <1>3, <1>4, <1>5, <1>6, RSend DEF Step

LEMMA RInit == Init => RInv
<1>1. OwnTxs(<<>>, NoCall) /\ Settled(NoCall) /\ Once(<<>>)
  BY DEF OwnTxs, Settled, NoCall, Once
<1> QED  BY <1>1 DEF Init, RInv

LEMMA RNext == IInv /\ RInv /\ [Next]_vars => RInv'
<1> SUFFICES ASSUME IInv, RInv, [Next]_vars PROVE RInv'
  OBVIOUS
<1>1. ASSUME UNCHANGED <<txs, call>> PROVE RInv'
  BY <1>1 DEF RInv
<1>2. ASSUME NEW s \in Session, NEW t \in Table, Begin(s, t) PROVE RInv'
  BY <1>2, BeginIs, RStart, RRefused
<1>3. CASE Crash
  BY <1>3, RCrash DEF Crash, RInv
<1> QED  BY <1>1, <1>2, <1>3, RStep, RMine DEF Next, LoadTable, vars

LEMMA RInvariance == Spec => []RInv
BY RInit, RNext, Invariance, PTL DEF Spec
-----------------------------------------------------------------------------
(* What the interface sees of the adapter. *)
Active == [s \in Session |-> IF Running(s) THEN call[s].id ELSE 0]
AskedOf == [s \in Session |-> Asked(call[s])]
Owed == WritesOf(Pending) \cup UNION {
            {[call |-> call[s].id, table |-> call[s].table, key |-> k,
              put |-> PutOp(call[s].op)] : k \in Unsent(call[s])} : s \in Session}
Done == WritesOf({i \in DOMAIN txs : txs[i].status = "success"})
Results == [s \in Session |-> call[s].result]

(* The steps of the interface, in these words. *)
LEMMA InterfaceLoses ==
    ASSUME UNCHANGED <<writer, calls, Active, AskedOf, Done, Results>>,
           Owed' \subseteq Owed
    PROVE  Interface!Next
<1> PICK E : E = Owed \ Owed'
  OBVIOUS
<1>1. E \in SUBSET Owed /\ Owed' = Owed \ E
  OBVIOUS
<1>2. Interface!Lose(E)
  BY <1>1 DEF Interface!Lose, Active, AskedOf, Owed, Done, Results
<1> QED  BY <1>1, <1>2 DEF Interface!Next, Owed

LEMMA InterfaceCrashes ==
    ASSUME UNCHANGED <<writer, calls, Done>>, Owed' \subseteq Owed,
           Active' = [s \in Session |-> 0],
           AskedOf' = [s \in Session |-> Interface!NoAsk],
           Results' = [s \in Session |-> 0]
    PROVE  Interface!Next
<1> PICK E : E = Owed \ Owed'
  OBVIOUS
<1>1. E \in SUBSET Owed /\ Owed' = Owed \ E
  OBVIOUS
<1>2. Interface!Crash(E)
  BY <1>1 DEF Interface!Crash, Active, AskedOf, Owed, Done, Results
<1> QED  BY <1>1, <1>2 DEF Interface!Next, Owed

LEMMA InterfaceBegins ==
    ASSUME NEW s \in Session, NEW t \in Table, NEW op \in Op, NEW B \in SUBSET Key,
           Active[s] = 0, calls < MaxCalls, calls' = calls + 1,
           Active' = [Active EXCEPT ![s] = calls + 1],
           AskedOf' = [AskedOf EXCEPT ![s] =
              [op |-> op, keys |-> IF op \in {"put", "remove"} THEN B ELSE {}]],
           Owed' = Owed \cup Interface!Writes(calls + 1, t, op, B),
           Results' = [Results EXCEPT ![s] = 0],
           UNCHANGED <<writer, Done>>
    PROVE  Interface!Next
<1>1. Interface!Begin(s, t, op, B)
  BY DEF Interface!Begin, Active, AskedOf, Owed, Done, Results
<1>2. op \in Interface!Op
  BY DEF Op, Interface!Op
<1> QED  BY <1>1, <1>2 DEF Interface!Next

LEMMA InterfaceRefuses ==
    ASSUME NEW s \in Session, NEW r \in {0, 1},
           Active[s] = 0, calls < MaxCalls, calls' = calls + 1,
           AskedOf' = [AskedOf EXCEPT ![s] = Interface!NoAsk],
           Results' = [Results EXCEPT ![s] = r],
           UNCHANGED <<writer, Active, Owed, Done>>
    PROVE  Interface!Next
<1>1. Interface!Refuse(s, r)
  BY DEF Interface!Refuse, Active, AskedOf, Owed, Done, Results
<1> QED  BY <1>1 DEF Interface!Next

LEMMA InterfaceReturns ==
    ASSUME NEW s \in Session, NEW r \in {0, 1}, Active[s] # 0,
           (r = 0 /\ AskedOf[s].op \in {"put", "remove"}) =>
              \A k \in AskedOf[s].keys : \E w \in Done : w.call = Active[s] /\ w.key = k,
           Active' = [Active EXCEPT ![s] = 0],
           AskedOf' = [AskedOf EXCEPT ![s] = Interface!NoAsk],
           Results' = [Results EXCEPT ![s] = r],
           UNCHANGED <<writer, calls, Owed, Done>>
    PROVE  Interface!Next
<1>1. Interface!Return(s, r)
  BY DEF Interface!Return, Interface!Truthful, Active, AskedOf, Owed, Done, Results
<1> QED  BY <1>1 DEF Interface!Next

LEMMA InterfaceTakes ==
    ASSUME NEW E \in SUBSET Owed, E # {},
           writer' = [t \in Table |-> [k \in Key |->
                    IF \E w \in E : w.table = t /\ w.key = k
                    THEN LET w == CHOOSE w \in E : w.table = t /\ w.key = k
                         IN IF w.put THEN w.call ELSE 0
                    ELSE writer[t][k]]],
           Owed' = Owed \ E, Done' = Done \cup E,
           UNCHANGED <<calls, Active, AskedOf, Results>>
    PROVE  Interface!Next
<1>1. Interface!Take(E)
  BY DEF Interface!Take, Active, AskedOf, Owed, Done, Results
<1> QED  BY <1>1 DEF Interface!Next, Owed

LEMMA InterfaceRests ==
    ASSUME UNCHANGED <<txs, writer, calls, call>>
    PROVE  UNCHANGED Interface!avars
BY DEF Interface!avars, Pending, WritesOf, Running, Asked, Unsent
-----------------------------------------------------------------------------
(* Writes, by what they come from: a pending transaction, or a key a call  *)
(* has still to send.                                                      *)
OfTx(tx, k) == [call |-> tx.call, table |-> tx.table, key |-> k, put |-> tx.put]
OfCall(c, k) == [call |-> c.id, table |-> c.table, key |-> k, put |-> PutOp(c.op)]

LEMMA OwedIs ==
    /\ \A w : w \in Owed <=>
          \/ \E i \in DOMAIN txs : txs[i].status = "pending"
                                   /\ \E k \in txs[i].keys : w = OfTx(txs[i], k)
          \/ \E s \in Session : \E k \in Unsent(call[s]) : w = OfCall(call[s], k)
    /\ \A w : w \in Owed' <=>
          \/ \E i \in DOMAIN txs' : txs'[i].status = "pending"
                                   /\ \E k \in txs'[i].keys : w = OfTx(txs'[i], k)
          \/ \E s \in Session : \E k \in Unsent(call'[s]) : w = OfCall(call'[s], k)
BY DEF Owed, WritesOf, Pending, OfTx, OfCall

LEMMA DoneIs ==
    /\ \A w : w \in Done <=>
          \E i \in DOMAIN txs : txs[i].status = "success"
                                /\ \E k \in txs[i].keys : w = OfTx(txs[i], k)
    /\ \A w : w \in Done' <=>
          \E i \in DOMAIN txs' : txs'[i].status = "success"
                                /\ \E k \in txs'[i].keys : w = OfTx(txs'[i], k)
BY DEF Done, WritesOf, OfTx

(* A step that makes no transaction succeed, and sends only what was to be *)
(* sent, owes nothing new.                                                 *)
Sends(T, U) ==
    /\ Kept(T, U)
    /\ \A i \in DOMAIN U : U[i].status = "success" <=>
                               i \in DOMAIN T /\ T[i].status = "success"
    /\ \A i \in DOMAIN T : U[i].status = "pending" => T[i].status = "pending"
    /\ \A i \in DOMAIN U \ DOMAIN T : \E s \in Session :
          /\ U[i].call = call[s].id /\ U[i].table = call[s].table
          /\ U[i].put = PutOp(call[s].op) /\ U[i].keys \subseteq Unsent(call[s])

LEMMA SendsNothing == Sends(txs, txs)
BY DEF Sends, Kept

LEMMA DoneSame ==
    ASSUME Sends(txs, txs')
    PROVE  Done' = Done
<1>1. \A i \in DOMAIN txs : \A k : OfTx(txs'[i], k) = OfTx(txs[i], k)
  BY DEF Sends, Kept, OfTx
<1>2. \A w : w \in Done' <=> w \in Done
  BY <1>1, DoneIs DEF Sends, Kept
<1> QED  BY <1>2

LEMMA OwedShrinks ==
    ASSUME Sends(txs, txs'),
           \A s \in Session : \/ Unsent(call'[s]) = {}
                              \/ /\ Unsent(call'[s]) \subseteq Unsent(call[s])
                                 /\ call'[s].id = call[s].id
                                 /\ call'[s].table = call[s].table
                                 /\ call'[s].op = call[s].op
    PROVE  Owed' \subseteq Owed
<1>1. ASSUME NEW i \in DOMAIN txs', txs'[i].status = "pending", NEW k \in txs'[i].keys
      PROVE  OfTx(txs'[i], k) \in Owed
  <2>1. CASE i \in DOMAIN txs
    <3>1. OfTx(txs'[i], k) = OfTx(txs[i], k) /\ k \in txs[i].keys
          /\ txs[i].status = "pending"
      BY <1>1, <2>1 DEF Sends, Kept, OfTx
    <3> QED  BY <2>1, <3>1, OwedIs
  <2>2. CASE i \notin DOMAIN txs
    <3>1. PICK s \in Session :
          /\ txs'[i].call = call[s].id /\ txs'[i].table = call[s].table
          /\ txs'[i].put = PutOp(call[s].op) /\ txs'[i].keys \subseteq Unsent(call[s])
      BY <2>2 DEF Sends
    <3>2. OfTx(txs'[i], k) = OfCall(call[s], k) /\ k \in Unsent(call[s])
      BY <3>1 DEF OfTx, OfCall
    <3> QED  BY <3>2, OwedIs
  <2> QED  BY <2>1, <2>2
<1>2. ASSUME NEW s \in Session, NEW k \in Unsent(call'[s])
      PROVE  OfCall(call'[s], k) \in Owed
  <2>1. OfCall(call'[s], k) = OfCall(call[s], k) /\ k \in Unsent(call[s])
    BY DEF OfCall
  <2> QED  BY <2>1, OwedIs
<1> QED  BY <1>1, <1>2, OwedIs

(* A call that has ended asks for nothing.                                 *)
LEMMA AskedIs ==
    ASSUME NEW c
    PROVE  /\ c.phase = "idle" => Asked(c) = Interface!NoAsk
           /\ c.phase # "idle" /\ c.op \in {"put", "remove"} =>
                 Asked(c).op = c.op /\ Asked(c).keys = c.batch
           /\ c.phase # "idle" /\ c.op \notin {"put", "remove"} =>
                 Asked(c).op = c.op /\ Asked(c).keys = {}
BY DEF Asked, Interface!NoAsk

(* A call goes on: its caller sees nothing of it.                          *)
LEMMA GoesOn ==
    ASSUME IInv, NEW s \in Session, call[s].phase # "idle",
           NEW d, call' = [call EXCEPT ![s] = d],
           d.id = call[s].id, d.op = call[s].op, d.table = call[s].table,
           d.result = call[s].result, d.phase # "idle",
           d.op \in {"put", "remove"} => d.batch = call[s].batch,
           Unsent(d) \subseteq Unsent(call[s]), Sends(txs, txs'),
           UNCHANGED <<writer, calls>>
    PROVE  Interface!Next
<1>1. call'[s] = d /\ \A x \in Session : x # s => call'[x] = call[x]
  BY DEF IInv, TypeOK
<1>2. Owed' \subseteq Owed /\ Done' = Done
  BY <1>1, OwedShrinks, DoneSame
<1>3. ASSUME NEW x \in Session
      PROVE  /\ Running(x)' = Running(x) /\ call'[x].id = call[x].id
             /\ Asked(call'[x]) = Asked(call[x]) /\ call'[x].result = call[x].result
  <2>1. CASE x = s
    <3> PICK c : c = call[s]
      OBVIOUS
    <3>1. Asked(d) = Asked(c)
      BY DEF Asked
    <3>2. Running(s)' = TRUE /\ Running(s) = TRUE
      BY <1>1 DEF Running
    <3> QED  BY <1>1, <2>1, <3>1, <3>2
  <2>2. CASE x # s
    BY <1>1, <2>2 DEF Running
  <2> QED  BY <2>1, <2>2
<1>4. UNCHANGED <<Active, AskedOf, Results>>
  BY <1>3 DEF Active, AskedOf, Results
<1> QED  BY <1>2, <1>4, InterfaceLoses
-----------------------------------------------------------------------------
(* Every step of the adapter and of the node, as a step of the interface.  *)
LEMMA TurnRefines ==
    ASSUME IInv, NEW s \in Session, NEW r \in Request,
           UpdateNonce(s, r) \/ Sign(s, r) \/ Receipt(s, r)
    PROVE  Interface!Next
<1>1. /\ call[s] \in Call /\ Going(call[s])
      /\ call[s].phase \in {"update", "sign", "check"} /\ r \in call[s].todo
      /\ UNCHANGED <<txs, writer, open, calls>>
  BY QuietTurn
<1>2. PICK b \in Call : /\ SameCall(b, call[s])
                        /\ call' = [call EXCEPT ![s] = Seen(b, r)]
  BY QuietTurn
<1> PICK c, d : c = call[s] /\ d = Seen(b, r)
  OBVIOUS
<1>3. c.phase \in Loop /\ c.phase # "idle"
  BY <1>1 DEF Loop
<1>4. /\ d.id = c.id /\ d.op = c.op /\ d.table = c.table /\ d.batch = c.batch
      /\ d.result = c.result /\ d.phase # "idle" /\ Unsent(d) \subseteq Unsent(c)
  BY <1>1, <1>2, <1>3, TurnUnsent
<1>5. Sends(txs, txs')
  BY <1>1, SendsNothing
<1> QED  BY <1>1, <1>2, <1>3, <1>4, <1>5, GoesOn

LEMMA AcceptedSends ==
    ASSUME IInv, RInv, NEW s \in Session, call[s].phase = "send", NEW r \in call[s].todo
    PROVE  Sends(txs, Accepted(s, r))
<1> DEFINE U == Accepted(s, r)
           n == Len(txs) + 1
<1>1. r \in Request /\ r \subseteq Unsent(call[s]) /\ call[s].phase # "idle"
  BY OnceAccepted
<1>2. /\ DOMAIN U = DOMAIN txs \cup {n} /\ n \notin DOMAIN txs
      /\ U[n] = NewTx(s, r) /\ Kept(txs, U)
      /\ \A i \in DOMAIN txs :
            U[i] = IF i \in Rivals(SentNonce(s, r))
                   THEN [txs[i] EXCEPT !.status = "replaced"] ELSE txs[i]
  BY <1>1, AcceptedIs, AcceptedKept
<1>3. \A i \in DOMAIN txs :
         /\ [txs[i] EXCEPT !.status = "replaced"].status = "replaced"
         /\ i \in Rivals(SentNonce(s, r)) => txs[i].status = "pending"
  <2>1. \A i \in DOMAIN txs : txs[i] \in Tx
    BY ElementOfSeq, LenProperties DEF IInv, TypeOK
  <2> QED  BY <2>1 DEF Tx, Rivals, Pending
<1> HIDE DEF U, n
<1>4. \A i \in DOMAIN txs : /\ U[i].status = "success" <=> txs[i].status = "success"
                            /\ U[i].status = "pending" => txs[i].status = "pending"
  BY <1>2, <1>3
<1>5. /\ U[n].call = call[s].id /\ U[n].table = call[s].table
      /\ U[n].put = PutOp(call[s].op) /\ U[n].keys = r /\ U[n].status = "pending"
  BY <1>2, NewTxIs
<1>6. Sends(txs, U)
  BY <1>1, <1>2, <1>4, <1>5 DEF Sends
<1> QED  BY <1>6 DEF U

LEMMA SendRefines ==
    ASSUME IInv, RInv, NEW s \in Session, NEW r \in Request, Send(s, r)
    PROVE  Interface!Next
<1> DEFINE n == Len(txs) + 1
           b == [call[s] EXCEPT !.sent[r] = n]
<1>1. /\ call[s] \in Call /\ Going(call[s]) /\ call[s].phase = "send" /\ r \in call[s].todo
      /\ txs' = Accepted(s, r) /\ call' = [call EXCEPT ![s] = Seen(b, r)]
      /\ UNCHANGED <<writer, calls>>
  BY UnderWay DEF Send, CallInv
<1>2. b \in Call /\ SameCall(b, call[s])
  <2>1. n \in Nat
    BY LenProperties DEF IInv, TypeOK
  <2> HIDE DEF n
  <2> QED  BY <1>1, <2>1 DEF Call, SameCall
<1> HIDE DEF b
<1> PICK c, d : c = call[s] /\ d = Seen(b, r)
  OBVIOUS
<1>3. c.phase \in Loop /\ c.phase # "idle"
  BY <1>1 DEF Loop
<1>4. /\ d.id = c.id /\ d.op = c.op /\ d.table = c.table /\ d.batch = c.batch
      /\ d.result = c.result /\ d.phase # "idle" /\ Unsent(d) \subseteq Unsent(c)
  BY <1>1, <1>2, <1>3, TurnUnsent
<1>5. Sends(txs, txs')
  BY <1>1, AcceptedSends
<1> QED  BY <1>1, <1>3, <1>4, <1>5, GoesOn

LEMMA NextRemoveRefines ==
    ASSUME IInv, NEW s \in Session, NextRemove(s)
    PROVE  Interface!Next
<1>1. /\ call[s] \in Call /\ call[s].phase = "return" /\ call[s].op = "drop_table"
      /\ UNCHANGED <<txs, writer, open, nonce, calls>>
  BY NextRemoveIs
<1>2. PICK k \in call[s].rest, d \in Call :
        /\ call' = [call EXCEPT ![s] = d]
        /\ d.id = call[s].id /\ d.op = call[s].op /\ d.table = call[s].table
        /\ d.phase = "update" /\ d.batch = {k} /\ d.rest = call[s].rest \ {k}
        /\ d.result = call[s].result
  BY NextRemoveIs
<1>3. Unsent(d) \subseteq Unsent(call[s])
  <2>1. Unsent(d) = d.rest \cup d.batch
    BY <1>2, UnsentIn
  <2>2. Unsent(call[s]) = call[s].rest
    BY <1>1, UnsentIn
  <2> QED  BY <1>2, <2>1, <2>2
<1>4. Sends(txs, txs')
  BY <1>1, SendsNothing
<1> QED  BY <1>1, <1>2, <1>3, <1>4, GoesOn

LEMMA CrashRefines ==
    ASSUME NEW U, Sends(txs, U), Crashed(U)
    PROVE  Interface!Next
<1>1. txs' = U /\ (\A s \in Session : call'[s] = NoCall) /\ UNCHANGED <<writer, calls>>
  BY DEF Crashed
<1>2. /\ NoCall.phase = "idle" /\ NoCall.rest = {} /\ NoCall.result = 0
  BY DEF NoCall
<1>3. Unsent(NoCall) = {}
  BY <1>2, UnsentIn
<1>4. Owed' \subseteq Owed /\ Done' = Done
  BY <1>1, <1>3, OwedShrinks, DoneSame
<1>5. \A s \in Session : Running(s)' = FALSE /\ Asked(call'[s]) = Interface!NoAsk
                         /\ call'[s].result = 0
  BY <1>1, <1>2, AskedIs DEF Running
<1>6. /\ Active' = [s \in Session |-> 0] /\ Results' = [s \in Session |-> 0]
      /\ AskedOf' = [s \in Session |-> Interface!NoAsk]
  BY <1>5 DEF Active, AskedOf, Results
<1> QED  BY <1>1, <1>4, <1>6, InterfaceCrashes

LEMMA EndRefines ==
    ASSUME IInv, RInv, NEW s \in Session, ReturnPut(s) \/ Return(s)
    PROVE  Interface!Next
<1>1. /\ call[s].phase = "return" /\ call[s].rest = {} /\ call[s] \in Call
      /\ UNCHANGED <<txs, writer, open, nonce, calls>> /\ call[s].id # 0
      /\ CallInv(txs, call[s])
  BY EndTurn, UnderWay
<1>2. PICK n \in {0, 1}, B \in SUBSET Key :
        /\ call' = [call EXCEPT ![s] = Returned(call[s], n, B)]
        /\ n = 0 /\ call[s].op \in {"put", "remove"} => call[s].failed = {}
  BY EndTurn
<1> PICK c, d : c = call[s] /\ d = Returned(c, n, B)
  OBVIOUS
<1>3. d.phase = "idle" /\ d.rest = {} /\ d.result = n
  BY <1>1, ReturnedType
<1>4. call'[s] = d /\ \A x \in Session : x # s => call'[x] = call[x]
  BY <1>2 DEF IInv, TypeOK
<1>5. Unsent(c) = {} /\ Unsent(d) = {}
  BY <1>1, <1>3, UnsentIn
<1>6. Sends(txs, txs')
  BY <1>1, SendsNothing
<1>7. Done' = Done
  BY <1>6, DoneSame
<1>8. Owed' = Owed
  <2>1. Owed' \subseteq Owed
    BY <1>4, <1>5, <1>6, OwedShrinks
  <2>2. \A x \in Session : \A k : k \in Unsent(call[x]) =>
           k \in Unsent(call'[x]) /\ OfCall(call'[x], k) = OfCall(call[x], k)
    BY <1>4, <1>5
  <2>3. Owed \subseteq Owed'
    BY <1>1, <2>2, OwedIs
  <2> QED  BY <2>1, <2>3
<1>9. /\ Active[s] = c.id /\ AskedOf[s] = Asked(c)
      /\ Active' = [Active EXCEPT ![s] = 0]
      /\ AskedOf' = [AskedOf EXCEPT ![s] = Interface!NoAsk]
      /\ Results' = [Results EXCEPT ![s] = n]
  <2>1. Asked(d) = Interface!NoAsk
    BY <1>3, AskedIs
  <2>2. Running(s)' = FALSE /\ Running(s) = TRUE
        /\ \A x \in Session : x # s => Running(x)' = Running(x)
    BY <1>1, <1>3, <1>4 DEF Running
  <2> QED  BY <1>3, <1>4, <2>1, <2>2 DEF Active, AskedOf, Results
<1>10. ASSUME n = 0, Asked(c).op \in {"put", "remove"}, NEW k \in Asked(c).keys
       PROVE  \E w \in Done : w.call = c.id /\ w.key = k
  <2>1. c.op \in {"put", "remove"} /\ k \in c.batch
    BY <1>1, <1>10, AskedIs
  <2>2. Wrote(txs, c.id, k)
    <3>1. c.failed = {}
      BY <1>2, <1>10, <2>1
    <3> QED  BY <1>1, <2>1, <3>1, KeyJudged
  <2>3. PICK i \in DOMAIN txs :
           txs[i].call = c.id /\ k \in txs[i].keys /\ txs[i].status = "success"
    BY <2>2 DEF Wrote
  <2>4. OfTx(txs[i], k) \in Done
    BY <2>3, DoneIs
  <2>5. OfTx(txs[i], k).call = c.id /\ OfTx(txs[i], k).key = k
    BY <2>3 DEF OfTx
  <2> QED  BY <2>4, <2>5
<1>11. (n = 0 /\ AskedOf[s].op \in {"put", "remove"}) =>
          \A k \in AskedOf[s].keys : \E w \in Done : w.call = Active[s] /\ w.key = k
  BY <1>9, <1>10
<1>12. Active[s] # 0 /\ UNCHANGED <<writer, calls, Owed, Done>>
  BY <1>1, <1>7, <1>8, <1>9
<1> QED  BY <1>9, <1>11, <1>12, InterfaceReturns

LEMMA StartRefines ==
    ASSUME IInv, RInv, NEW s \in Session, NEW t \in Table, NEW op \in Op,
           NEW B \in SUBSET Key, NEW more \in SUBSET Key, Start(s, op, t, B, more),
           op # "drop_table" => more = {}
    PROVE  Interface!Next
<1> DEFINE W == Interface!Writes(calls + 1, t, op, B \cup more)
<1>1. /\ call[s].phase = "idle" /\ calls < MaxCalls /\ calls' = calls + 1
      /\ UNCHANGED <<txs, writer>> /\ call'[s] = Started(op, t, B, more)
  BY DEF Start
<1> PICK c, d : c = call[s] /\ d = call'[s]
  OBVIOUS
<1>2. /\ d.id = calls + 1 /\ d.op = op /\ d.table = t /\ d.phase = "update"
      /\ d.batch = B /\ d.rest = more /\ d.result = 0
  BY <1>1, StartedIs
<1>3. Unsent(c) = {} /\ Unsent(d) = B \cup more
  <2>1. c.rest = {}
    BY <1>1 DEF RInv, Settled
  <2> QED  BY <1>1, <1>2, <2>1, UnsentIn
<1>4. ASSUME NEW x \in Session, x # s
      PROVE  /\ Unsent(call'[x]) = Unsent(call[x])
             /\ \A k : OfCall(call'[x], k) = OfCall(call[x], k)
             /\ Running(x)' = Running(x) /\ call'[x].id = call[x].id
             /\ Asked(call'[x]) = Asked(call[x]) /\ call'[x].result = call[x].result
  <2> PICK e, f : e = call[x] /\ f = call'[x]
    OBVIOUS
  <2>1. /\ f.id = e.id /\ f.op = e.op /\ f.table = e.table /\ f.phase = e.phase
        /\ f.batch = e.batch /\ f.rest = e.rest /\ f.todo = e.todo /\ f.result = e.result
    BY <1>4, StartOthers
  <2>2. Unsent(f) = Unsent(e) /\ Asked(f) = Asked(e) /\ \A k : OfCall(f, k) = OfCall(e, k)
    BY <2>1, UnsentSame DEF Asked, OfCall
  <2>3. Running(x)' = Running(x)
    BY <2>1 DEF Running
  <2> QED  BY <2>1, <2>2, <2>3
<1>5. \A w : w \in W <=> \E k \in B \cup more : w = OfCall(d, k)
  BY <1>2 DEF Interface!Writes, OfCall, PutOp
<1>6. Owed' = Owed \cup W
  <2>1. ASSUME NEW w PROVE w \in Owed' <=> w \in Owed \/ w \in W
    <3>1. \A x \in Session : \A k : x # s =>
             /\ k \in Unsent(call'[x]) <=> k \in Unsent(call[x])
             /\ OfCall(call'[x], k) = OfCall(call[x], k)
      BY <1>4
    <3>2. (\E x \in Session : \E k \in Unsent(call'[x]) : w = OfCall(call'[x], k))
          <=> \/ \E x \in Session : \E k \in Unsent(call[x]) : w = OfCall(call[x], k)
              \/ \E k \in Unsent(d) : w = OfCall(d, k)
      BY <1>3, <3>1
    <3>3. w \in W <=> \E k \in Unsent(d) : w = OfCall(d, k)
      BY <1>3, <1>5
    <3> HIDE DEF W
    <3> DEFINE OfTxs(T) == \E i \in DOMAIN T : T[i].status = "pending"
                                 /\ \E k \in T[i].keys : w = OfTx(T[i], k)
               OfCalls(C) == \E x \in Session : \E k \in Unsent(C[x]) : w = OfCall(C[x], k)
    <3>4. /\ w \in Owed <=> OfTxs(txs) \/ OfCalls(call)
          /\ w \in Owed' <=> OfTxs(txs') \/ OfCalls(call')
      BY OwedIs
    <3>5. OfTxs(txs') = OfTxs(txs)
      BY <1>1
    <3> HIDE DEF OfTxs
    <3> QED  BY <3>2, <3>3, <3>4, <3>5
  <2> QED  BY <2>1
<1>7. Done' = Done
  BY <1>1, SendsNothing, DoneSame
<1>8. /\ Active[s] = 0 /\ Active' = [Active EXCEPT ![s] = calls + 1]
      /\ Results' = [Results EXCEPT ![s] = 0]
  BY <1>1, <1>2, <1>4 DEF Active, Results, Running
<1>9. AskedOf' = [AskedOf EXCEPT ![s] =
          [op |-> op, keys |-> IF op \in {"put", "remove"} THEN B \cup more ELSE {}]]
  <2>1. Asked(d) = [op |-> op, keys |-> IF op \in {"put", "remove"} THEN B \cup more ELSE {}]
    BY <1>2 DEF Asked
  <2> QED  BY <1>4, <2>1 DEF AskedOf
<1>10. B \cup more \in SUBSET Key
  OBVIOUS
<1> QED  BY <1>1, <1>6, <1>7, <1>8, <1>9, <1>10, InterfaceBegins

LEMMA RefusedRefines ==
    ASSUME IInv, RInv, NEW s \in Session, NEW op, NEW t, NEW B, NEW r,
           Refused(s, op, t, B, r), r \in {0, 1}
    PROVE  Interface!Next
<1>1. /\ call[s].phase = "idle" /\ calls < MaxCalls /\ calls' = calls + 1
      /\ UNCHANGED <<txs, writer>>
  BY DEF Refused
<1>2. /\ call'[s].phase = "idle" /\ call'[s].rest = {} /\ call'[s].result = r
      /\ \A x \in Session : x # s => call'[x] = call[x]
  <2>1. call'[s].result = r
    BY DEF Refused, NoCall, IInv, TypeOK
  <2>2. call'[s].phase = "idle"
    BY RefusedIs
  <2>3. call'[s].rest = {}
    BY RefusedIs
  <2>4. \A x \in Session : x # s => call'[x] = call[x]
    BY RefusedIs
  <2> QED  BY <2>1, <2>2, <2>3, <2>4
<1>3. Unsent(call[s]) = {} /\ Unsent(call'[s]) = {}
  <2>1. call[s].rest = {}
    BY <1>1 DEF RInv, Settled
  <2> QED  BY <1>1, <1>2, <2>1, UnsentIn
<1>4. Owed' = Owed /\ Done' = Done
  <2>1. Sends(txs, txs')
    BY <1>1, SendsNothing
  <2>2. Owed' \subseteq Owed
    BY <1>2, <1>3, <2>1, OwedShrinks
  <2>3. \A x \in Session : \A k : k \in Unsent(call[x]) =>
           k \in Unsent(call'[x]) /\ OfCall(call'[x], k) = OfCall(call[x], k)
    BY <1>2, <1>3
  <2>4. Owed \subseteq Owed'
    <3>1. ASSUME NEW w \in Owed PROVE w \in Owed'
      <4>1. ASSUME NEW x \in Session, NEW k \in Unsent(call[x]), w = OfCall(call[x], k)
            PROVE  w \in Owed'
        <5>1. k \in Unsent(call'[x]) /\ w = OfCall(call'[x], k)
          BY <2>3, <4>1
        <5> QED  BY <5>1, OwedIs
      <4>2. ASSUME NEW i \in DOMAIN txs, txs[i].status = "pending",
                   NEW k \in txs[i].keys, w = OfTx(txs[i], k)
            PROVE  w \in Owed'
        BY <1>1, <4>2, OwedIs
      <4> QED  BY <4>1, <4>2, OwedIs
    <3> QED  BY <3>1
  <2> QED  BY <2>1, <2>2, <2>4, DoneSame
<1>5. /\ Active[s] = 0 /\ Active' = Active
      /\ Results' = [Results EXCEPT ![s] = r]
  BY <1>1, <1>2 DEF Active, Results, Running
<1>6. AskedOf' = [AskedOf EXCEPT ![s] = Interface!NoAsk]
  <2>1. Asked(call'[s]) = Interface!NoAsk
    BY <1>2, AskedIs
  <2> QED  BY <1>2, <2>1 DEF AskedOf
<1> QED  BY <1>1, <1>4, <1>5, <1>6, InterfaceRefuses

LEMMA MineRefines ==
    ASSUME IInv, RInv, NEW i \in DOMAIN txs, Mine(i)
    PROVE  Interface!Next
<1> PICK tx : tx = txs[i]
  OBVIOUS
<1>1. /\ Kept(txs, txs') /\ DOMAIN txs' = DOMAIN txs
      /\ \A j \in DOMAIN txs : j # i => txs'[j] = txs[j]
      /\ tx \in Tx /\ tx.status = "pending" /\ UNCHANGED <<calls, call>>
      /\ \/ /\ txs'[i].status = "success"
            /\ writer' = [writer EXCEPT ![tx.table] = [k \in Key |->
                  IF k \notin tx.keys THEN writer[tx.table][k]
                  ELSE IF tx.put THEN tx.call ELSE 0]]
         \/ txs'[i].status = "reverted" /\ writer' = writer
  BY MineIs
<1>2. UNCHANGED <<Active, AskedOf, Results>>
  BY <1>1 DEF Active, AskedOf, Results, Running
<1>3. ASSUME txs'[i].status = "reverted", writer' = writer PROVE Interface!Next
  <2>1. Sends(txs, txs')
    BY <1>1, <1>3 DEF Sends
  <2>2. Owed' \subseteq Owed /\ Done' = Done
    BY <1>1, <2>1, OwedShrinks, DoneSame
  <2> QED  BY <1>1, <1>2, <1>3, <2>2, InterfaceLoses
<1>4. ASSUME txs'[i].status = "success",
             writer' = [writer EXCEPT ![tx.table] = [k \in Key |->
                  IF k \notin tx.keys THEN writer[tx.table][k]
                  ELSE IF tx.put THEN tx.call ELSE 0]]
      PROVE  Interface!Next
  <2> DEFINE E == {OfTx(tx, k) : k \in tx.keys}
  <2>1. /\ tx.keys # {} /\ tx.keys \subseteq Key /\ tx.table \in Table
        /\ tx.call \in 1..MaxCalls /\ tx.put \in BOOLEAN
    BY <1>1 DEF Tx, Request
  <2>2. \A k : /\ OfTx(tx, k).table = tx.table /\ OfTx(tx, k).key = k
               /\ OfTx(tx, k).call = tx.call /\ OfTx(tx, k).put = tx.put
    BY DEF OfTx
  <2>3. /\ \A j \in DOMAIN txs : \A k : OfTx(txs'[j], k) = OfTx(txs[j], k)
        /\ \A j \in DOMAIN txs : txs'[j].keys = txs[j].keys
    BY <1>1 DEF Kept, OfTx
  <2>4. E # {} /\ E \subseteq Owed
    <3>1. \A k \in tx.keys : OfTx(tx, k) \in Owed
      BY <1>1, OwedIs
    <3> QED  BY <2>1, <3>1
  (* Nothing else can write what this transaction has written. *)
  <2>5. ASSUME NEW w \in Owed', w \in E PROVE FALSE
    <3>1. PICK k \in tx.keys : w = OfTx(tx, k)
      BY <2>5
    <3>2. ASSUME NEW j \in DOMAIN txs', txs'[j].status = "pending",
                 NEW m \in txs'[j].keys, w = OfTx(txs'[j], m)
          PROVE  FALSE
      <4>1. j \in DOMAIN txs /\ j # i /\ m \in txs[j].keys
        BY <1>1, <1>4, <2>3, <3>2
      <4>2. OfTx(txs'[j], m).call = txs[j].call /\ OfTx(txs'[j], m).key = m
        BY <2>3, <4>1 DEF OfTx
      <4>3. txs[j].call = tx.call /\ m = k
        BY <2>2, <3>1, <3>2, <4>2
      <4> QED  BY <3>1, <4>1, <4>3 DEF RInv, Once
    <3>3. ASSUME NEW x \in Session, NEW m \in Unsent(call'[x]), w = OfCall(call'[x], m)
          PROVE  FALSE
      <4>1. OfCall(call'[x], m).call = call[x].id /\ OfCall(call'[x], m).key = m
            /\ m \in Unsent(call[x])
        BY <1>1, <3>3 DEF OfCall
      <4>2. call[x].id = tx.call /\ m = k
        BY <2>2, <3>1, <3>3, <4>1
      <4>3. call[x].phase # "idle"
        <5>1. call[x].phase = "idle" => Unsent(call[x]) = {}
          BY UnsentIn DEF RInv, Settled
        <5> QED  BY <4>1, <5>1
      <4> QED  BY <3>1, <4>1, <4>2, <4>3 DEF RInv, OwnTxs
    <3> QED  BY <3>2, <3>3, OwedIs
  <2>6. Owed' = Owed \ E
    <3>1. ASSUME NEW w \in Owed' PROVE w \in Owed
      <4>1. ASSUME NEW j \in DOMAIN txs', txs'[j].status = "pending",
                   NEW m \in txs'[j].keys, w = OfTx(txs'[j], m)
            PROVE  w \in Owed
        <5>1. j \in DOMAIN txs /\ txs[j].status = "pending" /\ m \in txs[j].keys
              /\ w = OfTx(txs[j], m)
          BY <1>1, <1>4, <2>3, <4>1
        <5> QED  BY <5>1, OwedIs
      <4> QED  BY <1>1, <4>1, OwedIs
    <3>2. ASSUME NEW w \in Owed, w \notin E PROVE w \in Owed'
      <4>1. ASSUME NEW j \in DOMAIN txs, txs[j].status = "pending",
                   NEW m \in txs[j].keys, w = OfTx(txs[j], m)
            PROVE  w \in Owed'
        <5>1. j # i
          BY <3>2, <4>1
        <5>2. j \in DOMAIN txs' /\ txs'[j].status = "pending" /\ m \in txs'[j].keys
              /\ w = OfTx(txs'[j], m)
          BY <1>1, <2>3, <4>1, <5>1
        <5> QED  BY <5>2, OwedIs
      <4> QED  BY <1>1, <4>1, OwedIs
    <3> QED  BY <2>5, <3>1, <3>2
  <2>7. Done' = Done \cup E
    <3>1. ASSUME NEW w \in Done' PROVE w \in Done \cup E
      <4>1. PICK j \in DOMAIN txs' : txs'[j].status = "success"
                     /\ \E m \in txs'[j].keys : w = OfTx(txs'[j], m)
        BY DoneIs
      <4>2. PICK m \in txs'[j].keys : w = OfTx(txs'[j], m)
        BY <4>1
      <4>3. j \in DOMAIN txs /\ w = OfTx(txs[j], m) /\ m \in txs[j].keys
        BY <1>1, <2>3, <4>2
      <4>4. CASE j = i
        BY <4>3, <4>4
      <4>5. CASE j # i
        <5>1. txs[j].status = "success"
          BY <1>1, <4>1, <4>3, <4>5
        <5> QED  BY <4>3, <5>1, DoneIs
      <4> QED  BY <4>4, <4>5
    <3>2. ASSUME NEW w \in Done PROVE w \in Done'
      <4>1. PICK j \in DOMAIN txs : txs[j].status = "success"
                     /\ \E m \in txs[j].keys : w = OfTx(txs[j], m)
        BY DoneIs
      <4>2. PICK m \in txs[j].keys : w = OfTx(txs[j], m)
        BY <4>1
      <4>3. j \in DOMAIN txs' /\ txs'[j].status = "success" /\ m \in txs'[j].keys
            /\ w = OfTx(txs'[j], m)
        BY <1>1, <2>3, <4>1, <4>2
      <4> QED  BY <4>3, DoneIs
    <3>3. ASSUME NEW m \in tx.keys PROVE OfTx(tx, m) \in Done'
      <4>1. i \in DOMAIN txs' /\ m \in txs'[i].keys /\ OfTx(tx, m) = OfTx(txs'[i], m)
        BY <1>1, <2>3
      <4> QED  BY <1>4, <4>1, DoneIs
    <3> QED  BY <3>1, <3>2, <3>3
  <2>8. ASSUME NEW t \in Table, NEW k \in Key
        PROVE  writer'[t][k] =
                 IF \E w \in E : w.table = t /\ w.key = k
                 THEN LET w == CHOOSE w \in E : w.table = t /\ w.key = k
                      IN IF w.put THEN w.call ELSE 0
                 ELSE writer[t][k]
    <3>1. writer \in [Table -> [Key -> 0..MaxCalls]]
      BY DEF IInv, TypeOK
    <3>2. (\E w \in E : w.table = t /\ w.key = k) <=> t = tx.table /\ k \in tx.keys
      BY <2>2
    <3>3. CASE t = tx.table /\ k \in tx.keys
      <4> PICK v : v = CHOOSE w \in E : w.table = t /\ w.key = k
        OBVIOUS
      <4>1. v \in E
        BY <3>2, <3>3
      <4>2. v.put = tx.put /\ v.call = tx.call
        <5>1. \A m : OfTx(tx, m).put = tx.put /\ OfTx(tx, m).call = tx.call
          BY DEF OfTx
        <5>2. PICK m : v = OfTx(tx, m)
          BY <4>1
        <5> HIDE DEF E
        <5> QED  BY <5>1, <5>2
      <4>3. writer'[t][k] = IF tx.put THEN tx.call ELSE 0
        BY <1>4, <3>1, <3>3
      <4> QED  BY <3>2, <3>3, <4>2, <4>3
    <3>4. CASE ~(t = tx.table /\ k \in tx.keys)
      <4>1. writer'[t][k] = writer[t][k]
        BY <1>4, <3>1, <3>4
      <4> QED  BY <3>2, <3>4, <4>1
    <3> QED  BY <3>3, <3>4
  <2>9. writer' = [t \in Table |-> [k \in Key |->
                    IF \E w \in E : w.table = t /\ w.key = k
                    THEN LET w == CHOOSE w \in E : w.table = t /\ w.key = k
                         IN IF w.put THEN w.call ELSE 0
                    ELSE writer[t][k]]]
    <3>1. writer' \in [Table -> [Key -> 0..MaxCalls]]
      BY NextInv DEF Next, IInv, TypeOK
    <3> HIDE DEF E
    <3> QED  BY <2>8, <3>1
  <2> HIDE DEF E
  <2> QED  BY <1>1, <1>2, <2>4, <2>6, <2>7, <2>9, InterfaceTakes
<1> QED  BY <1>1, <1>3, <1>4

LEMMA InitRefines == Init => Interface!Init
<1> SUFFICES ASSUME Init PROVE Interface!Init
  OBVIOUS
<1>1. /\ NoCall.phase = "idle" /\ NoCall.rest = {} /\ NoCall.result = 0
  BY DEF NoCall
<1>2. \A s \in Session : call[s] = NoCall
  BY DEF Init
<1>3. Unsent(NoCall) = {} /\ Asked(NoCall) = Interface!NoAsk
  BY <1>1, UnsentIn, AskedIs
<1>4. DOMAIN txs = {}
  BY DEF Init
<1>5. Owed = {} /\ Done = {}
  <2>1. \A w : w \notin Owed /\ w \notin Done
    BY <1>2, <1>3, <1>4, OwedIs, DoneIs
  <2> QED  BY <2>1
<1>6. /\ Active = [s \in Session |-> 0] /\ Results = [s \in Session |-> 0]
      /\ AskedOf = [s \in Session |-> Interface!NoAsk]
  BY <1>1, <1>2, <1>3 DEF Active, AskedOf, Results, Running
<1>7. writer = [t \in Table |-> [k \in Key |-> 0]] /\ calls = 0
  BY DEF Init
<1> QED  BY <1>5, <1>6, <1>7 DEF Interface!Init, Active, AskedOf, Owed, Done, Results

LEMMA BeginRefines ==
    ASSUME IInv, RInv, NEW s \in Session, NEW t \in Table, Begin(s, t)
    PROVE  Interface!Next
BY BeginIs, StartRefines, RefusedRefines

LEMMA StepRefines ==
    ASSUME IInv, RInv, NEW s \in Session, Step(s)
    PROVE  Interface!Next
<1>1. ASSUME NEW r \in Request, SendThrows(s, r) PROVE Interface!Next
  <2>1. call[s].phase = "send" /\ r \in call[s].todo
        /\ (Crashed(txs) \/ Crashed(Accepted(s, r)))
    BY <1>1 DEF SendThrows
  <2> QED  BY <2>1, AcceptedSends, SendsNothing, CrashRefines
<1>2. ASSUME ReturnPutFaults(s) PROVE Interface!Next
  BY <1>2, SendsNothing, CrashRefines DEF ReturnPutFaults
<1> QED
  BY <1>1, <1>2, TurnRefines, SendRefines, NextRemoveRefines, EndRefines DEF Step

LEMMA NextRefines ==
    IInv /\ RInv /\ [Next]_vars => [Interface!Next]_(Interface!avars)
<1> SUFFICES ASSUME IInv, RInv, [Next]_vars
             PROVE  Interface!Next \/ UNCHANGED Interface!avars
  OBVIOUS
<1>1. ASSUME UNCHANGED vars PROVE UNCHANGED Interface!avars
  BY <1>1, InterfaceRests DEF vars
<1>2. ASSUME NEW t \in Table, LoadTable(t) PROVE UNCHANGED Interface!avars
  BY <1>2, InterfaceRests DEF LoadTable
<1>3. ASSUME Crash PROVE Interface!Next
  BY <1>3, SendsNothing, CrashRefines DEF Crash
<1> QED
  BY <1>1, <1>2, <1>3, BeginRefines, StepRefines, MineRefines DEF Next

(* Whatever is lost, late, refused or replaced, and whenever the server     *)
(* dies: every call of the adapter writes each of its keys at most once and *)
(* no other key, and put and remove return 0 only when all their keys are   *)
(* written (put, remove, sendRpcBatch and getReceipt with the node).        *)
THEOREM Refinement == Spec => ImplementsInterface
<1>1. Spec => [](IInv /\ RInv)
  BY Invariance, RInvariance, PTL
<1> QED
  BY <1>1, InitRefines, NextRefines, PTL DEF Spec, ImplementsInterface, Interface!Spec

-----------------------------------------------------------------------------
(* A call that nobody disturbs: its transactions carry exactly the nonces  *)
(* that follow those of all earlier ones, and a drop_table whose removes   *)
(* all succeeded leaves the table empty.                                   *)

(* The indices of the transactions of a call's current requests, and the   *)
(* transactions that were there before them.                               *)
Own(c) == {c.sent[r] : r \in Req(c)}
Others(T, c) == {i \in DOMAIN T \ Own(c) : T[i].status # "replaced"}
Before(T, c) == Deployed + Cardinality(Others(T, c))

(* A call that was alone from its beginning, and still is.                 *)
Watched(s) == call[s].alone /\ (call[s].phase # "idle" \/ call[s].id = calls)
Quiet(s) ==
    /\ \A x \in Session : x # s => call[x].phase = "idle"
    /\ \A i \in Pending : txs[i].call = call[s].id
    /\ call[s].phase # "idle" => Pending \subseteq Own(call[s])

(* What is not sent has no index.                                          *)
UnsentZero(c) ==
    /\ c.phase \in {"update", "sign"} => \A r \in Req(c) : c.sent[r] = 0
    /\ c.phase = "send" => \A r \in c.todo : c.sent[r] = 0

(* The signed requests have the first nonces that are free, and nonce_ is  *)
(* the last of them.                                                       *)
SignsInOrder(count, last, c) ==
    c.phase = "sign" =>
        LET S == Req(c) \ c.todo
        IN  /\ last[c.table] = (count + Cardinality(S) + Modulus - 1) % Modulus
            /\ {c.nonces[r] : r \in S} = count..(count + Cardinality(S) - 1)
SentInv(T, c) ==
    c.phase \in {"send", "check"} =>
        {c.nonces[r] : r \in Req(c)}
            = Before(T, c)..(Before(T, c) + Cardinality(Req(c)) - 1)

NInv == \A s \in Session :
    /\ call[s].phase # "idle" => call[s].table \in open
    /\ UnsentZero(call[s])
    /\ Watched(s) => Quiet(s)
    /\ call[s].alone => /\ SignsInOrder(TransactionCount, nonce, call[s])
                        /\ SentInv(txs, call[s])
-----------------------------------------------------------------------------
(* Numbers.                                                                *)
LEMMA ModSmall ==
    ASSUME NEW x \in Nat, x < Modulus
    PROVE  x % Modulus = x
BY ModulusAssumption

LEMMA ModOnce ==
    ASSUME NEW x \in Nat, x < Modulus
    PROVE  (x + Modulus) % Modulus = x
BY ModulusAssumption

(* nonce_ after the transactions up to nonce x - 1, incremented.           *)
LEMMA NextNonce ==
    ASSUME NEW x \in Nat, x < Modulus
    PROVE  Incremented((x + Modulus - 1) % Modulus) = x
<1>1. CASE x = 0
  <2>1. (Modulus - 1) % Modulus = Modulus - 1
    BY ModSmall, ModulusAssumption
  <2>2. Modulus % Modulus = 0
    BY ModOnce, ModulusAssumption
  <2> QED  BY <1>1, <2>1, <2>2, ModulusAssumption DEF Incremented
<1>2. CASE x # 0
  <2>1. x - 1 \in Nat /\ x - 1 < Modulus /\ x + Modulus - 1 = (x - 1) + Modulus
    BY <1>2, ModulusAssumption
  <2>2. (x + Modulus - 1) % Modulus = x - 1
    BY <2>1, ModOnce
  <2>3. (x - 1) + 1 = x
    BY <2>1
  <2> QED  BY <2>2, <2>3, ModSmall DEF Incremented
<1> QED  BY <1>1, <1>2

LEMMA FiniteRequests ==
    ASSUME NEW op, NEW B \in SUBSET Key, B # {}
    PROVE  /\ IsFiniteSet(Requests(op, B))
           /\ Cardinality(Requests(op, B)) \in Nat \ {0}
           /\ Requests(op, B) # {}
<1>1. Requests(op, B) \subseteq SUBSET Key
  BY RequestsType DEF Request
<1>2. IsFiniteSet(Requests(op, B))
  BY <1>1, KeyAssumption, FS_SUBSET, FS_Subset
<1>3. Requests(op, B) # {}
  BY DEF Requests
<1> QED  BY <1>2, <1>3, FS_CardinalityType, FS_EmptySet

LEMMA Counted ==
    ASSUME NEW S, NEW T, IsFiniteSet(S), NEW f \in Bijection(S, T)
    PROVE  IsFiniteSet(T) /\ Cardinality(T) = Cardinality(S)
<1>1. f \in Surjection(S, T) /\ f \in Injection(S, T)
  BY DEF Bijection
<1> QED  BY <1>1, FS_Surjection

LEMMA CountUpTo ==
    ASSUME NEW n \in Nat
    PROVE  IsFiniteSet(1..n) /\ Cardinality(1..n) = n
BY FS_Interval

(* The mined transactions, and those not yet sent of this call, are fewer  *)
(* than there are nonces: every one has a key of its call for itself.      *)
LEMMA Room ==
    ASSUME IInv, RInv, NEW s \in Session, call[s].phase \in {"update", "sign"}
    PROVE  TransactionCount + Cardinality(Req(call[s])) <= Modulus
<1> PICK c : c = call[s]
  OBVIOUS
<1> DEFINE R == Req(c)
           All == (1..MaxCalls) \X Key
           f == [i \in DOMAIN txs |-> <<txs[i].call, CHOOSE k \in txs[i].keys : TRUE>>]
           g == [r \in R |-> <<c.id, CHOOSE k \in r : TRUE>>]
           P == {f[i] : i \in DOMAIN txs}
           Q == {g[r] : r \in R}
           S == {i \in DOMAIN txs : Mined(txs[i])}
<1>1. /\ c \in Call /\ c.id # 0 /\ c.batch # {} /\ c.batch \subseteq Key
      /\ c.phase \in {"update", "sign"} /\ OwnTxs(txs, c) /\ Once(txs) /\ txs \in Seq(Tx)
  BY UnderWay DEF CallInv, Going, RInv, IInv, TypeOK, Call
<1>2. c.id \in 1..MaxCalls
  BY <1>1, CountsAssumption DEF Call
<1>3. \A i \in DOMAIN txs : /\ txs[i] \in Tx /\ txs[i].call \in 1..MaxCalls
                            /\ txs[i].keys \subseteq Key /\ txs[i].keys # {}
  <2>1. \A i \in DOMAIN txs : txs[i] \in Tx
    BY <1>1, ElementOfSeq, LenProperties
  <2> QED  BY <2>1 DEF Tx, Request
<1>4. /\ IsFiniteSet(R) /\ Cardinality(R) \in Nat
      /\ \A r \in R : r \subseteq c.batch /\ r # {}
      /\ \A q, r \in R : q # r => q \cap r = {}
  <2>1. R \subseteq Request
    BY <1>1, RequestsType DEF Req
  <2>2. UNION R = c.batch /\ \A q, r \in R : q # r => q \cap r = {}
    BY RequestsAre DEF Req
  <2> QED  BY <1>1, <2>1, <2>2, FiniteRequests DEF Req, Request
<1>5. DOMAIN txs = 1..Len(txs) /\ Len(txs) \in Nat
  BY <1>1, LenProperties
<1>6. IsFiniteSet(DOMAIN txs) /\ Cardinality(DOMAIN txs) = Len(txs)
  <2>1. IsFiniteSet(1..Len(txs)) /\ Cardinality(1..Len(txs)) = Len(txs)
    BY <1>5, CountUpTo
  <2> QED  BY <1>5, <2>1
<1>7. \A i \in DOMAIN txs : txs[i].call = c.id => txs[i].keys \cap c.batch = {}
  <2>1. Unsent(c) = c.rest \cup c.batch
    BY <1>1, UnsentIn
  <2> QED  BY <1>1, <2>1 DEF OwnTxs
<1>8. f \in Bijection(DOMAIN txs, P)
  <2>1. \A i, j \in DOMAIN txs : f[i] = f[j] => i = j
    BY <1>1, <1>3 DEF Once
  <2>2. f \in Injection(DOMAIN txs, P)
    BY <2>1 DEF Injection, IsInjective
  <2> QED  BY <2>2 DEF Bijection, Surjection
<1>9. g \in Bijection(R, Q)
  <2>1. \A q, r \in R : g[q] = g[r] => q = r
    BY <1>4
  <2>2. g \in Injection(R, Q)
    BY <2>1 DEF Injection, IsInjective
  <2> QED  BY <2>2 DEF Bijection, Surjection
<1>10. P \cap Q = {}
  <2>1. ASSUME NEW i \in DOMAIN txs, NEW r \in R, f[i] = g[r] PROVE FALSE
    BY <1>3, <1>4, <1>7, <2>1
  <2> HIDE DEF f, g
  <2> QED  BY <2>1
<1>11. P \subseteq All /\ Q \subseteq All
  BY <1>2, <1>3, <1>1, <1>4
<1>12. IsFiniteSet(All) /\ Cardinality(All) = MaxCalls * Cardinality(Key)
  <2>1. IsFiniteSet(1..MaxCalls) /\ Cardinality(1..MaxCalls) = MaxCalls
    BY CountsAssumption, FS_Interval
  <2> QED  BY <2>1, KeyAssumption, FS_Product
<1>13. /\ IsFiniteSet(P) /\ Cardinality(P) = Len(txs)
       /\ IsFiniteSet(Q) /\ Cardinality(Q) = Cardinality(R)
  <2> HIDE DEF f, g, P, Q, R
  <2>1. IsFiniteSet(P) /\ Cardinality(P) = Cardinality(DOMAIN txs)
    BY <1>6, <1>8, Counted
  <2>2. IsFiniteSet(Q) /\ Cardinality(Q) = Cardinality(R)
    BY <1>4, <1>9, Counted
  <2> QED  BY <1>6, <2>1, <2>2
<1>14. /\ IsFiniteSet(S) /\ Cardinality(S) <= Len(txs) /\ Cardinality(S) \in Nat
  BY <1>6, FS_Subset, FS_CardinalityType
<1> HIDE DEF P, Q, R, S, All
<1>15. Cardinality(P \cup Q) = Len(txs) + Cardinality(R)
  <2> HIDE DEF f, g
  <2>1. Cardinality(P \cup Q) = Cardinality(P) + Cardinality(Q) - Cardinality(P \cap Q)
    BY <1>13, FS_Union
  <2>2. Cardinality(P \cap Q) = 0
    BY <1>10, FS_EmptySet
  <2> QED  BY <1>13, <1>4, <1>5, <2>1, <2>2
<1>16. Len(txs) + Cardinality(R) <= MaxCalls * Cardinality(Key)
  <2>1. P \cup Q \subseteq All
    BY <1>11
  <2> QED  BY <2>1, <1>12, <1>15, FS_Subset
<1>17. Cardinality(Key) \in Nat
  BY KeyAssumption, FS_CardinalityType
<1>18. Cardinality(S) + Cardinality(R) <= MaxCalls * Cardinality(Key)
  BY <1>4, <1>5, <1>14, <1>16, <1>17, CountsAssumption
<1>19. TransactionCount = Deployed + Cardinality(S)
  BY DEF TransactionCount, S
<1>20. MaxCalls * Cardinality(Key) \in Nat
  BY <1>17, CountsAssumption
<1>21. Deployed + Cardinality(S) + Cardinality(R) <= Modulus
  BY <1>4, <1>14, <1>18, <1>20, RoomAssumption, CountsAssumption, ModulusAssumption
<1> QED  BY <1>4, <1>14, <1>19, <1>21, CountsAssumption DEF R
-----------------------------------------------------------------------------
(* NInv is inductive.                                                      *)
LEMMA SeenKeeps ==
    ASSUME NEW c \in Call, NEW r
    PROVE  Seen(c, r).nonces = c.nonces /\ Seen(c, r).alone = c.alone
BY DEF Seen, Call

LEMMA TxStatus ==
    ASSUME IInv
    PROVE  /\ txs \in Seq(Tx) /\ DOMAIN txs = 1..Len(txs) /\ Len(txs) \in Nat
           /\ 0 \notin DOMAIN txs
           /\ \A i \in DOMAIN txs : /\ txs[i] \in Tx
                                    /\ txs[i].status \in {"pending", "success", "reverted", "replaced"}
<1>1. txs \in Seq(Tx) /\ DOMAIN txs = 1..Len(txs) /\ Len(txs) \in Nat
  BY LenProperties DEF IInv, TypeOK
<1>2. \A i \in DOMAIN txs : txs[i] \in Tx
  BY <1>1, ElementOfSeq
<1> QED  BY <1>1, <1>2 DEF Tx

(* A step of a session that is not disturbed: nobody else is watched.      *)
LEMMA NOne ==
    ASSUME IInv, NInv, NEW s \in Session, call[s].phase # "idle",
           NEW d, call' = [call EXCEPT ![s] = d], UNCHANGED <<open, calls>>,
           d.table = call[s].table, UnsentZero(d),
           d.alone => call[s].alone,
           d.alone => /\ \A i \in Pending' : txs'[i].call = d.id
                      /\ d.phase # "idle" => Pending' \subseteq Own(d)
                      /\ SignsInOrder(TransactionCount', nonce', d) /\ SentInv(txs', d)
    PROVE  NInv'
<1>1. call'[s] = d /\ \A x \in Session : x # s => call'[x] = call[x]
  BY DEF IInv, TypeOK
<1>2. ASSUME NEW x \in Session, x # s
      PROVE  /\ call'[x].phase # "idle" => call'[x].table \in open'
             /\ UnsentZero(call'[x])
             /\ ~Watched(x)'
             /\ call'[x].alone =>
                   /\ SignsInOrder(TransactionCount', nonce', call'[x])
                   /\ SentInv(txs', call'[x])
  <2>1. ~Watched(x)
    BY <1>2 DEF NInv, Quiet
  <2>2. call'[x] = call[x] /\ ~(Watched(x)')
    BY <1>1, <1>2, <2>1 DEF Watched
  <2> PICK e : e = call[x]
    OBVIOUS
  <2>3. e.alone => e.phase = "idle"
    BY <2>1 DEF Watched
  <2>4. e.alone => SignsInOrder(TransactionCount', nonce', e) /\ SentInv(txs', e)
    BY <2>3 DEF SignsInOrder, SentInv
  <2>5. UnsentZero(e) /\ (e.phase # "idle" => e.table \in open)
    BY DEF NInv
  <2> QED  BY <2>2, <2>4, <2>5
<1>3. Watched(s)' => Quiet(s)'
  <2>1. SUFFICES ASSUME d.alone PROVE Quiet(s)'
    BY <1>1 DEF Watched
  <2>2. \A x \in Session : x # s => call[x].phase = "idle"
    BY <2>1 DEF NInv, Watched, Quiet
  <2> QED  BY <1>1, <2>1, <2>2 DEF Quiet
<1>4. d.phase # "idle" => d.table \in open'
  BY DEF NInv
<1>5. \A x \in Session :
         /\ call'[x].phase # "idle" => call'[x].table \in open'
         /\ UnsentZero(call'[x])
         /\ Watched(x)' => Quiet(x)'
         /\ call'[x].alone =>
               /\ SignsInOrder(TransactionCount', nonce', call'[x])
               /\ SentInv(txs', call'[x])
  BY <1>1, <1>2, <1>3, <1>4
<1> QED  BY <1>5 DEF NInv

(* In the loops before sending nothing is pending.                         *)
LEMMA AloneIdle ==
    ASSUME IInv, NInv, NEW s \in Session, call[s].alone,
           call[s].phase \in {"update", "sign"}
    PROVE  Pending = {} /\ (\A r \in Req(call[s]) : call[s].sent[r] = 0)
<1>1. Pending \subseteq Own(call[s]) /\ \A r \in Req(call[s]) : call[s].sent[r] = 0
  BY DEF NInv, Watched, Quiet, UnsentZero
<1> QED  BY <1>1, TxStatus DEF Own, Pending

LEMMA NUpdate ==
    ASSUME IInv, NInv, NEW s \in Session, NEW r \in Request, UpdateNonce(s, r)
    PROVE  NInv'
<1> PICK c : c = call[s]
  OBVIOUS
<1>1. /\ c \in Call /\ Going(c) /\ c.phase = "update" /\ r \in c.todo /\ c.phase \in Loop
      /\ UNCHANGED <<txs, writer, open, calls>> /\ c.table \in Table /\ c.phase # "idle"
  BY UnderWay DEF UpdateNonce, CallInv, Loop
<1>2. PICK n \in Updated(nonce[c.table]) :
        /\ nonce' = [nonce EXCEPT ![c.table] = n]
        /\ call' = [call EXCEPT ![s] =
                  Seen([@ EXCEPT !.alone = c.alone /\ n = LatestNonce], r)]
  BY Zenon DEF UpdateNonce
<1> DEFINE a == c.alone /\ n = LatestNonce
           b == [c EXCEPT !.alone = a]
<1>3. a \in BOOLEAN
  OBVIOUS
<1>4. call' = [call EXCEPT ![s] = Seen(b, r)]
  BY <1>2
<1> HIDE DEF a
<1>5. b \in Call /\ SameCall(b, c) /\ b.alone = a /\ b.sent = c.sent
  BY <1>1, <1>3 DEF Call, SameCall
<1> HIDE DEF b
<1> PICK d : d = Seen(b, r)
  OBVIOUS
<1>6. /\ Going(b) /\ b.phase = "update" /\ r \in b.todo /\ b.todo = c.todo
      /\ Req(b) = Req(c)
  BY <1>1, <1>5 DEF SameCall, Going, Req, Loop
<1>7. /\ d.op = c.op /\ d.table = c.table /\ d.batch = c.batch /\ d.sent = c.sent
      /\ d.id = c.id /\ d.alone = a
      /\ \/ d.phase = "update" /\ d.todo = c.todo \ {r}
         \/ d.phase = "sign" /\ d.todo = Req(c)
  BY <1>1, <1>5, <1>6, SeenTurn, SeenKeeps, AfterLoops DEF SameCall
<1>8. Req(d) = Req(c) /\ Own(d) = Own(c)
  BY <1>7 DEF Req, Own
<1>9. UnsentZero(d)
  <2>1. UnsentZero(c)
    BY DEF NInv
  <2> QED  BY <1>1, <1>7, <1>8, <2>1 DEF UnsentZero
<1>10. ASSUME d.alone
       PROVE  /\ \A i \in Pending' : txs'[i].call = d.id
              /\ Pending' \subseteq Own(d)
              /\ SignsInOrder(TransactionCount', nonce', d) /\ SentInv(txs', d)
  <2>1. c.alone /\ n = LatestNonce
    BY <1>7, <1>10 DEF a
  <2>2. Pending = {}
    BY <1>1, <2>1, AloneIdle
  <2>3. Pending' = {}
    BY <1>1, <2>2 DEF Pending
  <2>4. SentInv(txs', d)
    BY <1>7 DEF SentInv
  <2>5. ASSUME d.phase = "sign"
        PROVE  LET S == Req(d) \ d.todo
               IN  /\ nonce'[d.table] = (TransactionCount' + Cardinality(S) + Modulus - 1) % Modulus
                   /\ {d.nonces[q] : q \in S}
                         = TransactionCount'..(TransactionCount' + Cardinality(S) - 1)
    <3>1. Req(d) \ d.todo = {}
      BY <1>7, <1>8, <2>5
    <3>2. TransactionCount' = TransactionCount /\ TransactionCount \in Nat
      BY <1>1, CountType, TxStatus DEF TransactionCount, Mined
    <3>3. nonce'[d.table] = LatestNonce
      BY <1>1, <1>2, <1>7, <2>1 DEF IInv, TypeOK
    <3>4. Cardinality({}) = 0
      BY FS_EmptySet
    <3>5. TransactionCount + Modulus - 1 = TransactionCount + 0 + Modulus - 1
          /\ TransactionCount..(TransactionCount + 0 - 1) = {}
      BY <3>2, ModulusAssumption
    <3> QED  BY <3>1, <3>2, <3>3, <3>4, <3>5 DEF LatestNonce
  <2> QED  BY <2>3, <2>4, <2>5 DEF SignsInOrder
<1>11. call' = [call EXCEPT ![s] = d]
  BY <1>4
<1>12. d.alone => call[s].alone
  BY <1>7 DEF a
<1> QED  BY <1>1, <1>7, <1>9, <1>10, <1>11, <1>12, NOne

(* The requests before the loop's next turn, and after it.                 *)
LEMMA OneMore ==
    ASSUME NEW R, IsFiniteSet(R), NEW todo \in SUBSET R, NEW r \in todo
    PROVE  LET S == R \ todo
           IN  /\ R \ (todo \ {r}) = S \cup {r} /\ r \notin S
               /\ Cardinality(S) \in Nat
               /\ Cardinality(S \cup {r}) = Cardinality(S) + 1
               /\ Cardinality(S) + 1 <= Cardinality(R)
               /\ todo = {r} => S \cup {r} = R
<1> DEFINE S == R \ todo
<1>1. IsFiniteSet(S) /\ Cardinality(S) \in Nat /\ r \notin S
  BY FS_Subset, FS_CardinalityType
<1>2. Cardinality(S \cup {r}) = Cardinality(S) + 1 /\ S \cup {r} \subseteq R
  BY <1>1, FS_AddElement
<1>3. Cardinality(S \cup {r}) <= Cardinality(R)
  BY <1>2, FS_Subset
<1> QED  BY <1>1, <1>2, <1>3

LEMMA NSign ==
    ASSUME IInv, RInv, NInv, NEW s \in Session, NEW r \in Request, Sign(s, r)
    PROVE  NInv'
<1> PICK c, C : c = call[s] /\ C = TransactionCount
  OBVIOUS
<1> DEFINE n == Incremented(nonce[c.table])
           R == Req(c)
           S == R \ c.todo
<1>1. /\ c \in Call /\ Going(c) /\ c.phase = "sign" /\ r \in c.todo /\ c.phase \in Loop
      /\ UNCHANGED <<txs, writer, open, calls>> /\ c.table \in Table /\ c.phase # "idle"
      /\ c.todo \subseteq R /\ c.batch # {} /\ c.batch \subseteq Key
      /\ C \in Nat /\ C' = C
  BY UnderWay, CountType, TxStatus DEF Sign, CallInv, Loop, Going, Call
<1>2. /\ nonce' = [nonce EXCEPT ![c.table] = n]
      /\ call' = [call EXCEPT ![s] = Seen([c EXCEPT !.nonces[r] = n], r)]
      /\ TransactionCount' = C
  BY <1>1 DEF Sign, TransactionCount, Mined
<1>3. n \in Nonce
  BY <1>1, IncrementedType DEF IInv, TypeOK
<1> HIDE DEF n
<1> DEFINE b == [c EXCEPT !.nonces[r] = n]
<1>4. b \in Call /\ SameCall(b, c) /\ b.alone = c.alone /\ b.sent = c.sent
      /\ b.nonces = [c.nonces EXCEPT ![r] = n] /\ c.nonces \in [Request -> Nonce]
  BY <1>1, <1>3 DEF Call, SameCall
<1> HIDE DEF b
<1> PICK d : d = Seen(b, r)
  OBVIOUS
<1>5. /\ Going(b) /\ b.phase = "sign" /\ r \in b.todo /\ b.todo = c.todo
      /\ Req(b) = R
  BY <1>1, <1>4 DEF SameCall, Going, Req, Loop
<1>6. /\ d.op = c.op /\ d.table = c.table /\ d.batch = c.batch /\ d.sent = c.sent
      /\ d.id = c.id /\ d.alone = c.alone /\ d.nonces = b.nonces
      /\ \/ d.phase = "sign" /\ d.todo = c.todo \ {r}
         \/ d.phase = "send" /\ d.todo = R /\ c.todo = {r}
  BY <1>1, <1>4, <1>5, SeenTurn, SeenKeeps, AfterLoops DEF SameCall
<1>7. Req(d) = R /\ Own(d) = Own(c)
  BY <1>6 DEF Req, Own
<1>8. UnsentZero(d)
  <2>1. UnsentZero(c)
    BY DEF NInv
  <2> QED  BY <1>1, <1>6, <1>7, <2>1 DEF UnsentZero
<1>9. IsFiniteSet(R) /\ R \subseteq Request
  BY <1>1, FiniteRequests, RequestsType DEF Req
<1> DEFINE m == Cardinality(S)
<1>10. /\ R \ (c.todo \ {r}) = S \cup {r} /\ r \notin S /\ S \subseteq Request
       /\ m \in Nat /\ Cardinality(S \cup {r}) = m + 1 /\ m + 1 <= Cardinality(R)
       /\ c.todo = {r} => S \cup {r} = R
  <2>1. c.todo \in SUBSET R /\ r \in c.todo /\ S \subseteq Request
    BY <1>1, <1>9
  <2> HIDE DEF R
  <2> PICK q : q = c.todo
    OBVIOUS
  <2>2. q \in SUBSET R /\ r \in q
    BY <2>1
  <2>3. /\ R \ (q \ {r}) = (R \ q) \cup {r} /\ r \notin R \ q
        /\ Cardinality(R \ q) \in Nat
        /\ Cardinality((R \ q) \cup {r}) = Cardinality(R \ q) + 1
        /\ Cardinality(R \ q) + 1 <= Cardinality(R)
        /\ q = {r} => (R \ q) \cup {r} = R
    BY ONLY <1>9, <2>2, OneMore
  <2> QED  BY <2>1, <2>3
<1>11. ASSUME d.alone
       PROVE  /\ Pending' = {}
              /\ SignsInOrder(TransactionCount', nonce', d) /\ SentInv(txs', d)
  <2>1. /\ Pending = {} /\ \A q \in R : c.sent[q] = 0
    BY <1>1, <1>6, <1>11, AloneIdle
  <2>2. /\ nonce[c.table] = (C + m + Modulus - 1) % Modulus
        /\ {c.nonces[q] : q \in S} = C..(C + m - 1)
    <3>1. SignsInOrder(TransactionCount, nonce, c)
      BY <1>6, <1>11 DEF NInv
    <3> QED  BY <1>1, <3>1 DEF SignsInOrder
  <2>3. C + Cardinality(R) <= Modulus
    BY <1>1, Room
  <2> HIDE DEF S, m, R
  <2>4. C + m \in Nat /\ C + m < Modulus
    BY <1>1, <1>9, <1>10, <2>3, FS_CardinalityType, ModulusAssumption
  <2>5. n = C + m
    BY <2>2, <2>4, NextNonce DEF n
  <2>6. {d.nonces[q] : q \in S \cup {r}} = C..(C + m)
    <3>1. /\ \A q \in S : d.nonces[q] = c.nonces[q]
          /\ d.nonces[r] = n
      BY <1>4, <1>6, <1>10
    <3>2. {d.nonces[q] : q \in S \cup {r}} = {c.nonces[q] : q \in S} \cup {n}
      BY <3>1
    <3>3. (C..(C + m - 1)) \cup {C + m} = C..(C + m)
      BY <1>1, <1>10
    <3> QED  BY <2>2, <2>5, <3>2, <3>3
  <2>7. nonce'[d.table] = (C + (m + 1) + Modulus - 1) % Modulus
    <3>1. nonce'[d.table] = C + m
      BY <1>1, <1>2, <1>6, <2>5 DEF IInv, TypeOK
    <3>2. C + (m + 1) + Modulus - 1 = (C + m) + Modulus
      BY <1>1, <1>10, ModulusAssumption
    <3> QED  BY <2>4, <3>1, <3>2, ModOnce
  <2>8. Pending' = {}
    BY <1>1, <2>1 DEF Pending
  <2>9. (m + 1) - 1 = m /\ C + (m + 1) - 1 = C + m
    BY <1>1, <1>10
  <2>10. CASE d.phase = "sign" /\ d.todo = c.todo \ {r}
    <3>1. Req(d) \ d.todo = S \cup {r}
      BY <1>7, <1>10, <2>10
    <3>2. SignsInOrder(TransactionCount', nonce', d)
      BY <1>2, <1>10, <2>6, <2>7, <2>9, <3>1 DEF SignsInOrder
    <3> QED  BY <2>8, <2>10, <3>2 DEF SentInv
  <2>11. CASE d.phase = "send" /\ c.todo = {r}
    <3>1. Own(d) \subseteq {0}
      BY <1>7, <2>1 DEF Own, R
    <3>2. Others(txs, d) = {i \in DOMAIN txs : Mined(txs[i])}
      BY <2>1, <3>1, TxStatus DEF Others, Mined, Pending
    <3>3. Before(txs', d) = C
      BY <1>1, <3>2 DEF Before, TransactionCount
    <3>4. Req(d) = S \cup {r} /\ Cardinality(Req(d)) = m + 1
      BY <1>7, <1>10, <2>11
    <3>5. SentInv(txs', d)
      BY <2>6, <2>9, <3>3, <3>4 DEF SentInv
    <3> QED  BY <2>8, <2>11, <3>5 DEF SignsInOrder
  <2> QED  BY <1>6, <2>10, <2>11
<1>12. call' = [call EXCEPT ![s] = d]
  BY <1>2 DEF b
<1> QED  BY <1>1, <1>6, <1>8, <1>11, <1>12, NOne

LEMMA NSend ==
    ASSUME IInv, RInv, NInv, NEW s \in Session, NEW r \in Request, Send(s, r)
    PROVE  NInv'
<1> PICK c : c = call[s]
  OBVIOUS
<1> DEFINE n == Len(txs) + 1
           R == Req(c)
           b == [c EXCEPT !.sent[r] = n]
<1>1. /\ c \in Call /\ Going(c) /\ c.phase = "send" /\ r \in c.todo /\ c.phase \in Loop
      /\ UNCHANGED <<writer, open, nonce, calls>> /\ c.phase # "idle"
      /\ c.todo \subseteq R /\ txs' = Accepted(s, r) /\ n \in Nat
      /\ c.batch # {} /\ c.batch \subseteq Key
  BY UnderWay, TxStatus DEF Send, CallInv, Loop, Going, Call
<1>2. /\ DOMAIN txs' = DOMAIN txs \cup {n} /\ n \notin DOMAIN txs
      /\ txs'[n].call = c.id /\ Kept(txs, txs')
      /\ \A i \in DOMAIN txs : i \notin Rivals(SentNonce(s, r)) => txs'[i] = txs[i]
  <2>1. /\ DOMAIN txs' = DOMAIN txs \cup {n} /\ n \notin DOMAIN txs
        /\ txs'[n] = NewTx(s, r)
        /\ \A i \in DOMAIN txs :
              txs'[i] = IF i \in Rivals(SentNonce(s, r))
                        THEN [txs[i] EXCEPT !.status = "replaced"] ELSE txs[i]
    BY <1>1, AcceptedIs
  <2>2. Kept(txs, txs')
    BY <1>1, AcceptedKept
  <2>3. NewTx(s, r).call = c.id
    BY NewTxIs
  <2> HIDE DEF n
  <2> QED  BY <2>1, <2>2, <2>3
<1>3. Sends(txs, txs')
  BY <1>1, AcceptedSends
<1>4. call' = [call EXCEPT ![s] = Seen(b, r)]
  BY DEF Send
<1> HIDE DEF n
<1>5. b \in Call /\ SameCall(b, c) /\ b.alone = c.alone /\ b.nonces = c.nonces
      /\ b.sent = [c.sent EXCEPT ![r] = n] /\ c.sent \in [Request -> Nat]
  BY <1>1 DEF Call, SameCall
<1> HIDE DEF b
<1> PICK d : d = Seen(b, r)
  OBVIOUS
<1>6. /\ Going(b) /\ b.phase = "send" /\ r \in b.todo /\ b.todo = c.todo
      /\ Req(b) = R
  BY <1>1, <1>5 DEF SameCall, Going, Req, Loop
<1>7. /\ d.op = c.op /\ d.table = c.table /\ d.batch = c.batch /\ d.sent = b.sent
      /\ d.id = c.id /\ d.alone = c.alone /\ d.nonces = c.nonces
      /\ \/ d.phase = "send" /\ d.todo = c.todo \ {r}
         \/ d.phase = "check"
  BY <1>1, <1>5, <1>6, SeenTurn, SeenKeeps, AfterLoops DEF SameCall
<1>8. Req(d) = R /\ R \subseteq Request
  BY <1>1, <1>7, RequestsType DEF Req
<1>9. /\ d.sent[r] = n /\ c.sent[r] = 0
      /\ \A q \in R : q # r => d.sent[q] = c.sent[q]
      /\ \A q \in c.todo : c.sent[q] = 0
  BY <1>1, <1>5, <1>7, <1>8 DEF NInv, UnsentZero
<1>10. UnsentZero(d)
  BY <1>1, <1>7, <1>8, <1>9 DEF UnsentZero
<1>11. ASSUME NEW i \in DOMAIN txs PROVE i \in Own(d) <=> i \in Own(c)
  <2>1. i # 0 /\ i # n
    BY <1>2, TxStatus
  <2> QED  BY <1>1, <1>8, <1>9, <2>1 DEF Own
<1>12. n \in Own(d)
  BY <1>1, <1>8, <1>9 DEF Own
<1>13. ASSUME d.alone
       PROVE  /\ \A i \in Pending' : txs'[i].call = d.id
              /\ Pending' \subseteq Own(d)
              /\ SentInv(txs', d)
  <2>1. /\ \A i \in Pending : txs[i].call = c.id
        /\ Pending \subseteq Own(c) /\ SentInv(txs, c)
    BY <1>1, <1>7, <1>13 DEF NInv, Watched, Quiet
  <2>2. \A i \in Pending' : i = n \/ i \in Pending
    BY <1>2, <1>3 DEF Sends, Pending
  <2>3. \A i \in Pending' : txs'[i].call = d.id /\ i \in Own(d)
    BY <1>2, <1>7, <1>11, <1>12, <2>1, <2>2 DEF Kept, Pending
  <2>4. ASSUME NEW i \in DOMAIN txs, i \notin Own(c) PROVE txs'[i] = txs[i]
    BY <1>2, <2>1, <2>4 DEF Rivals
  <2>5. Others(txs', d) = Others(txs, c)
    BY <1>2, <1>11, <1>12, <2>4 DEF Others
  <2>6. SentInv(txs', d)
    BY <1>1, <1>7, <1>8, <2>1, <2>5 DEF SentInv, Before
  <2> QED  BY <2>3, <2>6
<1>14. SignsInOrder(TransactionCount', nonce', d)
  BY <1>7 DEF SignsInOrder
<1>15. call' = [call EXCEPT ![s] = d]
  BY <1>4
<1> QED  BY <1>1, <1>7, <1>10, <1>13, <1>14, <1>15, NOne

LEMMA NReceipt ==
    ASSUME IInv, NInv, NEW s \in Session, NEW r \in Request, Receipt(s, r)
    PROVE  NInv'
<1> PICK c : c = call[s]
  OBVIOUS
<1>1. /\ c \in Call /\ Going(c) /\ c.phase = "check" /\ r \in c.todo /\ c.phase \in Loop
      /\ UNCHANGED <<txs, writer, open, nonce, calls>> /\ c.phase # "idle"
  BY UnderWay DEF Receipt, CallInv, Loop
<1>2. PICK ok \in {txs[c.sent[r]].status = "success"} \cup
                    IF "answer" \in Faults THEN {FALSE} ELSE {} :
        call' = [call EXCEPT ![s] =
                    Seen([@ EXCEPT !.failed = c.failed \cup IF ok THEN {} ELSE r], r)]
  BY Zenon DEF Receipt
<1> DEFINE more == IF ok THEN {} ELSE r
           b == [c EXCEPT !.failed = c.failed \cup more]
<1>3. call' = [call EXCEPT ![s] = Seen(b, r)]
  BY <1>2
<1>4. more \in SUBSET Key
  BY DEF Request
<1> HIDE DEF more
<1>5. b \in Call /\ SameCall(b, c) /\ b.alone = c.alone /\ b.nonces = c.nonces
      /\ b.sent = c.sent
  BY <1>1, <1>4 DEF Call, SameCall
<1> HIDE DEF b
<1> PICK d : d = Seen(b, r)
  OBVIOUS
<1>6. /\ Going(b) /\ b.phase = "check" /\ r \in b.todo /\ Req(b) = Req(c)
  BY <1>1, <1>5 DEF SameCall, Going, Req, Loop
<1>7. /\ d.op = c.op /\ d.table = c.table /\ d.batch = c.batch /\ d.sent = c.sent
      /\ d.id = c.id /\ d.alone = c.alone /\ d.nonces = c.nonces
      /\ d.phase \in {"check", "return"}
  BY <1>1, <1>5, <1>6, SeenTurn, SeenKeeps, AfterLoops DEF SameCall
<1>8. Req(d) = Req(c) /\ Own(d) = Own(c)
  BY <1>7 DEF Req, Own
<1>9. UnsentZero(d) /\ SignsInOrder(TransactionCount', nonce', d)
  BY <1>7 DEF UnsentZero, SignsInOrder
<1>10. ASSUME d.alone
       PROVE  /\ \A i \in Pending' : txs'[i].call = d.id
              /\ Pending' \subseteq Own(d)
              /\ SentInv(txs', d)
  <2>1. /\ \A i \in Pending : txs[i].call = c.id
        /\ Pending \subseteq Own(c) /\ SentInv(txs, c)
    BY <1>1, <1>7, <1>10 DEF NInv, Watched, Quiet
  <2>2. Pending' = Pending
    BY <1>1 DEF Pending
  <2>3. Others(txs', d) = Others(txs, c)
    BY <1>1, <1>8 DEF Others
  <2>4. SentInv(txs', d)
    BY <1>1, <1>7, <1>8, <2>1, <2>3 DEF SentInv, Before
  <2> QED  BY <1>1, <1>7, <1>8, <2>1, <2>2, <2>4
<1>11. call' = [call EXCEPT ![s] = d]
  BY <1>3
<1> QED  BY <1>1, <1>7, <1>9, <1>10, <1>11, NOne

LEMMA ReturnedKeeps ==
    ASSUME NEW c \in Call, NEW n, NEW B
    PROVE  Returned(c, n, B).alone = c.alone /\ Returned(c, n, B).table = c.table
           /\ Returned(c, n, B).op = c.op /\ Returned(c, n, B).id = c.id
           /\ Returned(c, n, B).phase = "idle" /\ Returned(c, n, B).failed = c.failed
           /\ Returned(c, n, B).rest = c.rest
BY DEF Returned, Call

LEMMA NEnd ==
    ASSUME IInv, NInv, NEW s \in Session, ReturnPut(s) \/ Return(s)
    PROVE  NInv'
<1> PICK c : c = call[s]
  OBVIOUS
<1>1. /\ c.phase = "return" /\ UNCHANGED <<txs, writer, open, nonce, calls>>
      /\ c \in Call /\ c.phase # "idle"
  BY EndTurn, UnderWay
<1>2. PICK n \in {0, 1}, B \in SUBSET Key : call' = [call EXCEPT ![s] = Returned(c, n, B)]
  BY EndTurn
<1> PICK d : d = Returned(c, n, B)
  OBVIOUS
<1>3. d.alone = c.alone /\ d.table = c.table /\ d.id = c.id /\ d.phase = "idle"
  BY <1>1, ReturnedKeeps
<1>4. UnsentZero(d) /\ SignsInOrder(TransactionCount', nonce', d) /\ SentInv(txs', d)
  BY <1>3 DEF UnsentZero, SignsInOrder, SentInv
<1>5. d.alone => \A i \in Pending' : txs'[i].call = d.id
  <2>1. d.alone => \A i \in Pending : txs[i].call = c.id
    BY <1>1, <1>3 DEF NInv, Watched, Quiet
  <2> QED  BY <1>1, <1>3, <2>1 DEF Pending
<1> QED  BY <1>1, <1>2, <1>3, <1>4, <1>5, NOne

LEMMA NNextRemove ==
    ASSUME IInv, NInv, NEW s \in Session, NextRemove(s)
    PROVE  NInv'
<1> PICK c : c = call[s]
  OBVIOUS
<1>1. /\ c \in Call /\ c.phase = "return" /\ UNCHANGED <<txs, writer, open, nonce, calls>>
      /\ c.phase # "idle"
  BY NextRemoveIs
<1>2. PICK k \in c.rest, d \in Call :
        /\ call' = [call EXCEPT ![s] = d]
        /\ d.id = c.id /\ d.op = c.op /\ d.table = c.table /\ d.phase = "update"
        /\ d.batch = {k} /\ d.sent = NoCall.sent /\ d.alone = (c.alone /\ Pending = {})
  BY NextRemoveIs
<1>3. UnsentZero(d) /\ SignsInOrder(TransactionCount', nonce', d) /\ SentInv(txs', d)
  <2>1. d.batch # {} /\ d.batch \in SUBSET Key
    BY <1>1, <1>2 DEF Call
  <2>2. \A r \in Req(d) : d.sent[r] = 0
    <3>1. Req(d) \subseteq Request
      BY <2>1, RequestsType DEF Req
    <3> QED  BY <1>2, <3>1 DEF NoCall
  <2> QED  BY <1>2, <2>2 DEF UnsentZero, SignsInOrder, SentInv
<1>4. d.alone => Pending' = {}
  BY <1>1, <1>2 DEF Pending
<1> QED  BY <1>1, <1>2, <1>3, <1>4, NOne

LEMMA NStart ==
    ASSUME IInv, NInv, NEW s \in Session, NEW t \in Table, NEW op,
           NEW B \in SUBSET Key, NEW more, Start(s, op, t, B, more)
    PROVE  NInv'
<1>1. /\ UNCHANGED <<txs, writer, open, nonce>> /\ t \in open /\ calls' = calls + 1
      /\ call'[s] = Started(op, t, B, more) /\ B # {} /\ Pending' = Pending
  BY DEF Start, Pending
<1> PICK d : d = call'[s]
  OBVIOUS
<1>2. /\ d.op = op /\ d.table = t /\ d.phase = "update" /\ d.batch = B
      /\ d.sent = NoCall.sent
      /\ d.alone = (Pending = {} /\ \A x \in Session : call[x].phase = "idle")
  BY <1>1, StartedIs
<1>3. ASSUME NEW x \in Session, x # s
      PROVE  /\ call'[x].alone = FALSE /\ call'[x].phase = call[x].phase
             /\ call'[x].phase # "idle" => call'[x].table \in open
             /\ UnsentZero(call'[x])
  <2> PICK e, f : e = call[x] /\ f = call'[x]
    OBVIOUS
  <2>1. /\ f.op = e.op /\ f.table = e.table /\ f.phase = e.phase /\ f.batch = e.batch
        /\ f.todo = e.todo /\ f.sent = e.sent /\ f.alone = FALSE
    BY <1>3, StartOthers
  <2>2. UnsentZero(e) /\ (e.phase # "idle" => e.table \in open)
    BY DEF NInv
  <2>3. Req(f) = Req(e)
    BY <2>1 DEF Req
  <2> QED  BY <2>1, <2>2, <2>3 DEF UnsentZero
<1>4. UnsentZero(d) /\ SignsInOrder(TransactionCount', nonce', d) /\ SentInv(txs', d)
  <2>1. Req(d) \subseteq Request
    BY <1>1, <1>2, RequestsType DEF Req
  <2>2. \A r \in Req(d) : d.sent[r] = 0
    BY <1>2, <2>1 DEF NoCall
  <2> QED  BY <1>2, <2>2 DEF UnsentZero, SignsInOrder, SentInv
<1>5. Watched(s)' => Quiet(s)'
  <2>1. SUFFICES ASSUME d.alone PROVE Quiet(s)'
    BY DEF Watched
  <2>2. Pending' = {} /\ \A x \in Session : x # s => call'[x].phase = "idle"
    BY <1>1, <1>2, <1>3, <2>1
  <2> QED  BY <2>2 DEF Quiet
<1>6. \A x \in Session : x # s => ~(Watched(x)')
  BY <1>3 DEF Watched
<1> QED  BY <1>1, <1>2, <1>3, <1>4, <1>5, <1>6 DEF NInv

LEMMA NRefused ==
    ASSUME IInv, NInv, NEW s \in Session, NEW t, NEW op, NEW B, NEW r,
           Refused(s, op, t, B, r)
    PROVE  NInv'
<1>1. /\ UNCHANGED <<txs, writer, open, nonce>> /\ calls' = calls + 1
      /\ Pending' = Pending /\ TransactionCount' = TransactionCount
      /\ call[s].phase = "idle"
  BY DEF Refused, Pending, TransactionCount, Mined
<1>2. call'[s].phase = "idle" /\ call'[s].alone = FALSE
  BY RefusedIs
<1>3. \A x \in Session : x # s => call'[x] = call[x]
  BY RefusedIs
<1>4. ASSUME NEW x \in Session, x # s, Watched(x)' PROVE Watched(x)
  <2>1. call[x].id <= calls /\ call[x].id \in Nat /\ calls \in Nat
    BY CountsAssumption DEF IInv, Ids, TypeOK, Call
  <2> QED  BY <1>1, <1>3, <1>4, <2>1 DEF Watched
<1>5. ASSUME NEW x \in Session, x # s, Watched(x)' PROVE Quiet(x)'
  <2>1. Quiet(x)
    BY <1>4, <1>5 DEF NInv
  <2> QED  BY <1>1, <1>2, <1>3, <1>5, <2>1 DEF Quiet
<1>6. ~(Watched(s)')
  BY <1>2 DEF Watched
<1>7. ASSUME NEW x \in Session
      PROVE  /\ call'[x].phase # "idle" => call'[x].table \in open'
             /\ UnsentZero(call'[x])
             /\ Watched(x)' => Quiet(x)'
             /\ call'[x].alone => /\ SignsInOrder(TransactionCount', nonce', call'[x])
                                  /\ SentInv(txs', call'[x])
  <2>1. CASE x = s
    BY <1>2, <1>6, <2>1 DEF UnsentZero
  <2>2. CASE x # s
    BY <1>1, <1>3, <1>5, <2>2 DEF NInv
  <2> QED  BY <2>1, <2>2
<1> QED  BY <1>7 DEF NInv

LEMMA NLoad ==
    ASSUME IInv, NInv, NEW t \in Table, LoadTable(t)
    PROVE  NInv'
<1>1. /\ UNCHANGED <<txs, writer, calls, call>> /\ open \subseteq open' /\ t \notin open
      /\ \A x \in Table : x # t => nonce'[x] = nonce[x]
      /\ Pending' = Pending /\ TransactionCount' = TransactionCount
  BY DEF LoadTable, IInv, TypeOK, Pending, TransactionCount, Mined
<1>2. ASSUME NEW x \in Session
      PROVE  /\ call'[x].phase # "idle" => call'[x].table \in open'
             /\ UnsentZero(call'[x])
             /\ Watched(x)' => Quiet(x)'
             /\ call'[x].alone => /\ SignsInOrder(TransactionCount', nonce', call'[x])
                                  /\ SentInv(txs', call'[x])
  <2> PICK c : c = call[x]
    OBVIOUS
  <2>1. /\ c.phase # "idle" => c.table \in open
        /\ UnsentZero(c)
        /\ Watched(x) => Quiet(x)
        /\ c.alone => /\ SignsInOrder(TransactionCount, nonce, c)
                      /\ SentInv(txs, c)
    BY DEF NInv
  <2>2. (Watched(x)' <=> Watched(x)) /\ (Quiet(x)' <=> Quiet(x))
    BY <1>1 DEF Watched, Quiet
  <2>3. c.phase # "idle" => nonce'[c.table] = nonce[c.table]
    BY <1>1, <2>1 DEF IInv, TypeOK
  <2>4. SignsInOrder(TransactionCount, nonce, c) => SignsInOrder(TransactionCount', nonce', c)
    BY <1>1, <2>3 DEF SignsInOrder
  <2> QED  BY <1>1, <2>1, <2>2, <2>4
<1> QED  BY <1>2 DEF NInv

LEMMA NMine ==
    ASSUME IInv, NInv, NEW i \in DOMAIN txs, Mine(i)
    PROVE  NInv'
<1>1. /\ Kept(txs, txs') /\ DOMAIN txs' = DOMAIN txs
      /\ \A j \in DOMAIN txs : j # i => txs'[j] = txs[j]
      /\ txs[i].status = "pending" /\ txs'[i].status \in {"success", "reverted"}
      /\ UNCHANGED <<open, nonce, calls, call>>
  BY MineIs
<1>2. Pending' \subseteq Pending /\ i \in Pending
  BY <1>1 DEF Pending
<1>3. ASSUME NEW x \in Session
      PROVE  /\ call'[x].phase # "idle" => call'[x].table \in open'
             /\ UnsentZero(call'[x])
             /\ Watched(x)' => Quiet(x)'
             /\ call'[x].alone => /\ SignsInOrder(TransactionCount', nonce', call'[x])
                                  /\ SentInv(txs', call'[x])
  <2> PICK c : c = call[x]
    OBVIOUS
  <2>1. /\ c.phase # "idle" => c.table \in open
        /\ UnsentZero(c)
        /\ Watched(x) => Quiet(x)
        /\ c.alone => SentInv(txs, c)
    BY DEF NInv
  <2>2. Watched(x)' <=> Watched(x)
    BY <1>1 DEF Watched
  <2>3. Quiet(x) => Quiet(x)'
    BY <1>1, <1>2 DEF Quiet, Kept, Pending
  <2>4. c.alone => c.phase # "sign"
    BY <1>2, AloneIdle
  <2>5. c.alone => SignsInOrder(TransactionCount', nonce', c)
    BY <2>4 DEF SignsInOrder
  <2>6. \A j \in DOMAIN txs : txs'[j].status # "replaced" <=> txs[j].status # "replaced"
    BY <1>1
  <2>7. Others(txs', c) = Others(txs, c)
    BY <1>1, <2>6 DEF Others
  <2>8. SentInv(txs, c) => SentInv(txs', c)
    BY <2>7 DEF SentInv, Before
  <2> QED  BY <1>1, <2>1, <2>2, <2>3, <2>5, <2>8
<1> QED  BY <1>3 DEF NInv

LEMMA NCrash ==
    ASSUME NEW U, Crashed(U)
    PROVE  NInv'
<1>1. \A x \in Session : call'[x] = NoCall
  BY DEF Crashed
<1>2. NoCall.phase = "idle" /\ NoCall.alone = FALSE
  BY DEF NoCall
<1>3. UnsentZero(NoCall)
  BY <1>2 DEF UnsentZero
<1> QED  BY <1>1, <1>2, <1>3 DEF NInv, Watched

LEMMA NStep ==
    ASSUME IInv, RInv, NInv, NEW s \in Session, Step(s)
    PROVE  NInv'
<1>1. ASSUME NEW r \in Request, SendThrows(s, r) PROVE NInv'
  BY <1>1, NCrash DEF SendThrows
<1>2. ASSUME ReturnPutFaults(s) PROVE NInv'
  BY <1>2, NCrash DEF ReturnPutFaults
<1> QED
  BY <1>1, <1>2, NUpdate, NSign, NSend, NReceipt, NEnd, NNextRemove DEF Step

LEMMA NInit == Init => NInv
<1> SUFFICES ASSUME Init PROVE NInv
  OBVIOUS
<1>1. \A x \in Session : call[x] = NoCall
  BY DEF Init
<1>2. NoCall.phase = "idle" /\ NoCall.alone = FALSE
  BY DEF NoCall
<1>3. UnsentZero(NoCall)
  BY <1>2 DEF UnsentZero
<1> QED  BY <1>1, <1>2, <1>3 DEF NInv, Watched

LEMMA NNext == IInv /\ RInv /\ NInv /\ [Next]_vars => NInv'
<1> SUFFICES ASSUME IInv, RInv, NInv, [Next]_vars PROVE NInv'
  OBVIOUS
<1>1. ASSUME UNCHANGED vars PROVE NInv'
  BY <1>1 DEF vars, NInv, Watched, Quiet, Pending, TransactionCount, Mined
<1>2. ASSUME NEW s \in Session, NEW t \in Table, Begin(s, t) PROVE NInv'
  BY <1>2, BeginIs, NStart, NRefused
<1>3. ASSUME Crash PROVE NInv'
  BY <1>3, NCrash DEF Crash
<1> QED  BY <1>1, <1>2, <1>3, NLoad, NStep, NMine DEF Next

(* The transactions of a call that nobody disturbs carry exactly the nonces *)
(* that follow those of all earlier ones, also for a new account and for an *)
(* adapter that slept while others sent: tmp_nonce - 1, ++nonce_ and the    *)
(* nonce left out when it is 0 (update_nonce, call, createRpcBatch).        *)
THEOREM NoncesFollow == Spec => []NoncesFollowCount
<1>1. NInv => NoncesFollowCount
  <2> SUFFICES ASSUME NInv, NEW s \in Session, call[s].alone,
                      call[s].phase \in {"send", "check"}
               PROVE  LET R == Requests(call[s].op, call[s].batch)
                          own == {call[s].sent[r] : r \in R}
                          before == Deployed + Cardinality(
                              {i \in DOMAIN txs \ own : txs[i].status # "replaced"})
                      IN  {call[s].nonces[r] : r \in R}
                             = before..(before + Cardinality(R) - 1)
    BY DEF NoncesFollowCount
  <2>1. SentInv(txs, call[s])
    BY DEF NInv
  <2> QED  BY <2>1 DEF SentInv, Before, Others, Own, Req
<1>2. Spec => [](IInv /\ RInv)
  BY Invariance, RInvariance, PTL
<1>3. Spec => []NInv
  BY <1>2, NInit, NNext, PTL DEF Spec
<1> QED  BY <1>1, <1>3, PTL
-----------------------------------------------------------------------------
(* drop_table.                                                             *)
(* The rows a table can still have: keys to be removed, keys whose remove   *)
(* failed, and the one being removed.                                       *)
Here(W, t) == {k \in Key : W[t][k] # 0}
Left(c) == c.rest \cup c.failed \cup IF c.phase = "idle" THEN {} ELSE c.batch

DropInv(T, W, c) ==
    c.op = "drop_table" =>
        /\ Here(W, c.table) \subseteq Left(c)
        /\ \A i \in DOMAIN T : T[i].call = c.id =>
              /\ T[i].table = c.table /\ T[i].put = FALSE
              /\ T[i].status = "success" => T[i].keys \cap Here(W, c.table) = {}

DInv == \A s \in Session : Watched(s) => DropInv(txs, writer, call[s])

LEMMA DOne ==
    ASSUME IInv, NInv, DInv, NEW s \in Session, call[s].phase # "idle",
           NEW d, call' = [call EXCEPT ![s] = d], calls' = calls,
           d.alone => call[s].alone,
           d.alone /\ DropInv(txs, writer, call[s]) => DropInv(txs', writer', d)
    PROVE  DInv'
<1>1. call'[s] = d /\ \A x \in Session : x # s => call'[x] = call[x]
  BY DEF IInv, TypeOK
<1>2. ASSUME NEW x \in Session, x # s PROVE ~(Watched(x)')
  <2>1. ~Watched(x)
    BY <1>2 DEF NInv, Quiet
  <2> QED  BY <1>1, <1>2, <2>1 DEF Watched
<1>3. ASSUME Watched(s)' PROVE DropInv(txs', writer', call'[s])
  <2>1. d.alone /\ Watched(s)
    BY <1>1, <1>3 DEF Watched
  <2>2. DropInv(txs, writer, call[s])
    BY <2>1 DEF DInv
  <2> QED  BY <1>1, <2>1, <2>2
<1>4. \A x \in Session : Watched(x)' => DropInv(txs', writer', call'[x])
  BY <1>2, <1>3
<1> QED  BY <1>4 DEF DInv

LEMMA DTurn ==
    ASSUME IInv, NInv, DInv, NEW s \in Session, NEW r \in Request,
           UpdateNonce(s, r) \/ Sign(s, r) \/ Receipt(s, r)
    PROVE  DInv'
<1>1. /\ call[s] \in Call /\ Going(call[s])
      /\ call[s].phase \in {"update", "sign", "check"} /\ r \in call[s].todo
      /\ UNCHANGED <<txs, writer, open, calls>>
  BY QuietTurn
<1>2. PICK b \in Call : /\ SameCall(b, call[s])
                        /\ call[s].failed \subseteq b.failed
                        /\ b.alone => call[s].alone
                        /\ call' = [call EXCEPT ![s] = Seen(b, r)]
  BY QuietTurn
<1> PICK c, d : c = call[s] /\ d = Seen(b, r)
  OBVIOUS
<1>3. c.phase \in Loop /\ c.phase # "idle"
  BY <1>1 DEF Loop
<1>4. Going(b) /\ b.phase \in Loop /\ r \in b.todo
  BY <1>1, <1>2, <1>3 DEF Going, SameCall, Req, Loop
<1>5. /\ d.id = c.id /\ d.op = c.op /\ d.table = c.table /\ d.batch = c.batch
      /\ d.rest = c.rest /\ d.phase # "idle" /\ c.failed \subseteq d.failed
      /\ d.alone => c.alone
  <2>1. /\ d.id = b.id /\ d.op = b.op /\ d.table = b.table /\ d.batch = b.batch
        /\ d.rest = b.rest /\ d.failed = b.failed /\ d.alone = b.alone
    BY <1>4, SeenTurn, SeenKeeps
  <2>2. d.phase # "idle"
    BY <1>1, <1>2, <1>3, TurnUnsent
  <2> QED  BY <1>2, <2>1, <2>2 DEF SameCall
<1>6. DropInv(txs, writer, c) => DropInv(txs', writer', d)
  BY <1>1, <1>3, <1>5 DEF DropInv, Left
<1> QED  BY <1>1, <1>2, <1>3, <1>5, <1>6, DOne

LEMMA DSend ==
    ASSUME IInv, RInv, NInv, DInv, NEW s \in Session, NEW r \in Request, Send(s, r)
    PROVE  DInv'
<1> DEFINE n == Len(txs) + 1
           b == [call[s] EXCEPT !.sent[r] = n]
<1>1. /\ call[s] \in Call /\ Going(call[s]) /\ call[s].phase = "send" /\ r \in call[s].todo
      /\ txs' = Accepted(s, r) /\ call' = [call EXCEPT ![s] = Seen(b, r)]
      /\ UNCHANGED <<writer, calls>>
  BY UnderWay DEF Send, CallInv
<1>2. b \in Call /\ SameCall(b, call[s]) /\ b.failed = call[s].failed
      /\ b.alone = call[s].alone
  <2>1. n \in Nat
    BY TxStatus
  <2> HIDE DEF n
  <2> QED  BY <1>1, <2>1 DEF Call, SameCall
<1> HIDE DEF b
<1> PICK c, d : c = call[s] /\ d = Seen(b, r)
  OBVIOUS
<1>3. c.phase \in Loop /\ c.phase # "idle"
  BY <1>1 DEF Loop
<1>4. Going(b) /\ b.phase \in Loop /\ r \in b.todo
  BY <1>1, <1>2, <1>3 DEF Going, SameCall, Req, Loop
<1>5. /\ d.id = c.id /\ d.op = c.op /\ d.table = c.table /\ d.batch = c.batch
      /\ d.rest = c.rest /\ d.phase # "idle" /\ d.failed = c.failed
      /\ d.alone = c.alone
  <2>1. /\ d.id = b.id /\ d.op = b.op /\ d.table = b.table /\ d.batch = b.batch
        /\ d.rest = b.rest /\ d.failed = b.failed /\ d.alone = b.alone
    BY <1>2, <1>4, SeenTurn, SeenKeeps
  <2>2. d.phase # "idle"
    BY <1>1, <1>2, <1>3, TurnUnsent
  <2> QED  BY <1>2, <2>1, <2>2 DEF SameCall
<1>6. /\ DOMAIN txs' = DOMAIN txs \cup {n} /\ n \notin DOMAIN txs /\ Sends(txs, txs')
      /\ txs'[n].table = c.table /\ txs'[n].put = PutOp(c.op)
  <2>1. DOMAIN txs' = DOMAIN txs \cup {n} /\ n \notin DOMAIN txs /\ txs'[n] = NewTx(s, r)
    BY <1>1, <1>3, AcceptedIs
  <2> QED  BY <1>1, <2>1, AcceptedSends, NewTxIs
<1> HIDE DEF n
<1>7. DropInv(txs, writer, c) => DropInv(txs', writer', d)
  <2> SUFFICES ASSUME DropInv(txs, writer, c), d.op = "drop_table"
               PROVE  DropInv(txs', writer', d)
    BY DEF DropInv
  <2>1. Here(writer', d.table) \subseteq Left(d) /\ Here(writer', d.table) = Here(writer, c.table)
    BY <1>1, <1>3, <1>5 DEF DropInv, Left
  <2>2. ASSUME NEW i \in DOMAIN txs', txs'[i].call = d.id
        PROVE  /\ txs'[i].table = d.table /\ txs'[i].put = FALSE
               /\ txs'[i].status = "success" => txs'[i].keys \cap Here(writer, c.table) = {}
    <3>1. CASE i \in DOMAIN txs
      BY <1>5, <1>6, <2>2, <3>1 DEF DropInv, Sends, Kept
    <3>2. CASE i = n
      <4>1. PutOp(c.op) = FALSE
        BY <1>5 DEF PutOp
      <4>2. txs'[n].put = FALSE
        BY <1>6, <4>1
      <4>3. txs'[n].status # "success"
        BY <1>6 DEF Sends
      <4> QED  BY <1>5, <1>6, <3>2, <4>2, <4>3
    <3> QED  BY <1>6, <2>2, <3>1, <3>2
  <2> QED  BY <2>1, <2>2 DEF DropInv
<1> QED  BY <1>1, <1>3, <1>5, <1>7, DOne

(* At the end of a remove its key is gone, or it failed.                   *)
LEMMA KeyGone ==
    ASSUME NEW T, NEW W, NEW c, CallInv(T, c), c.phase = "return", c.op = "drop_table",
           DropInv(T, W, c)
    PROVE  Here(W, c.table) \subseteq c.rest \cup c.failed
<1>1. SUFFICES ASSUME NEW k \in Here(W, c.table), k \in c.batch, k \notin c.failed
               PROVE  FALSE
  BY DEF DropInv, Left
<1>2. {k} \in Req(c)
  BY <1>1 DEF Req, Requests
<1>3. Wrote(T, c.id, k)
  BY <1>1, <1>2 DEF CallInv, AllJudged, IsJudged
<1>4. PICK i \in DOMAIN T : T[i].call = c.id /\ k \in T[i].keys /\ T[i].status = "success"
  BY <1>3 DEF Wrote
<1> QED  BY <1>1, <1>4 DEF DropInv

LEMMA DEnd ==
    ASSUME IInv, NInv, DInv, NEW s \in Session, ReturnPut(s) \/ Return(s)
    PROVE  DInv'
<1> PICK c : c = call[s]
  OBVIOUS
<1>1. /\ c.phase = "return" /\ UNCHANGED <<txs, writer, open, nonce, calls>>
      /\ c \in Call /\ c.phase # "idle" /\ CallInv(txs, c)
  BY EndTurn, UnderWay
<1>2. PICK n \in {0, 1}, B \in SUBSET Key : call' = [call EXCEPT ![s] = Returned(c, n, B)]
  BY EndTurn
<1> PICK d : d = Returned(c, n, B)
  OBVIOUS
<1>3. /\ d.alone = c.alone /\ d.table = c.table /\ d.id = c.id /\ d.phase = "idle"
      /\ d.op = c.op /\ d.failed = c.failed /\ d.rest = c.rest
  BY <1>1, ReturnedKeeps
<1>4. DropInv(txs, writer, c) => DropInv(txs', writer', d)
  <2>1. DropInv(txs, writer, c) /\ c.op = "drop_table" =>
           Here(writer, c.table) \subseteq c.rest \cup c.failed
    BY <1>1, KeyGone
  <2> QED  BY <1>1, <1>3, <2>1 DEF DropInv, Left
<1> QED  BY <1>1, <1>2, <1>3, <1>4, DOne

LEMMA DNextRemove ==
    ASSUME IInv, NInv, DInv, NEW s \in Session, NextRemove(s)
    PROVE  DInv'
<1> PICK c : c = call[s]
  OBVIOUS
<1>1. /\ c \in Call /\ c.phase = "return" /\ UNCHANGED <<txs, writer, open, nonce, calls>>
      /\ c.phase # "idle" /\ CallInv(txs, c)
  BY NextRemoveIs, UnderWay
<1>2. PICK k \in c.rest, d \in Call :
        /\ call' = [call EXCEPT ![s] = d]
        /\ d.id = c.id /\ d.op = c.op /\ d.table = c.table /\ d.phase = "update"
        /\ d.batch = {k} /\ d.rest = c.rest \ {k} /\ d.failed = c.failed
        /\ d.alone = (c.alone /\ Pending = {})
  BY NextRemoveIs
<1>3. DropInv(txs, writer, c) => DropInv(txs', writer', d)
  <2>1. DropInv(txs, writer, c) /\ c.op = "drop_table" =>
           Here(writer, c.table) \subseteq c.rest \cup c.failed
    BY <1>1, KeyGone
  <2> QED  BY <1>1, <1>2, <2>1 DEF DropInv, Left
<1> QED  BY <1>1, <1>2, <1>3, DOne

LEMMA DStart ==
    ASSUME IInv, DInv, NEW s \in Session, NEW t \in Table, NEW op,
           NEW B \in SUBSET Key, NEW more, Start(s, op, t, B, more),
           op = "drop_table" => B \cup more = Present(t)
    PROVE  DInv'
<1>1. /\ UNCHANGED <<txs, writer>> /\ call'[s] = Started(op, t, B, more)
  BY DEF Start
<1> PICK d : d = call'[s]
  OBVIOUS
<1>2. /\ d.id = calls + 1 /\ d.op = op /\ d.table = t /\ d.phase = "update"
      /\ d.batch = B /\ d.rest = more
  BY <1>1, StartedIs
<1>3. \A i \in DOMAIN txs : txs[i].call # calls + 1
  BY OldTxs DEF IInv
<1>4. DropInv(txs', writer', d)
  BY <1>1, <1>2, <1>3 DEF DropInv, Left, Here, Present
<1>5. \A x \in Session : x # s => ~(Watched(x)')
  BY StartOthers DEF Watched
<1> QED  BY <1>4, <1>5 DEF DInv

LEMMA DRefused ==
    ASSUME IInv, DInv, NEW s \in Session, NEW t, NEW op, NEW B, NEW r,
           Refused(s, op, t, B, r)
    PROVE  DInv'
<1>1. UNCHANGED <<txs, writer>> /\ calls' = calls + 1
  BY DEF Refused
<1>2. call'[s].phase = "idle" /\ call'[s].alone = FALSE
  BY RefusedIs
<1>3. \A x \in Session : x # s => call'[x] = call[x]
  BY RefusedIs
<1>4. ASSUME NEW x \in Session, Watched(x)' PROVE DropInv(txs', writer', call'[x])
  <2>1. x # s
    BY <1>2, <1>4 DEF Watched
  <2>2. call[x].id <= calls /\ call[x].id \in Nat /\ calls \in Nat
    BY CountsAssumption DEF IInv, Ids, TypeOK, Call
  <2>3. Watched(x)
    BY <1>1, <1>3, <1>4, <2>1, <2>2 DEF Watched
  <2> QED  BY <1>1, <1>3, <2>1, <2>3 DEF DInv
<1> QED  BY <1>4 DEF DInv

LEMMA DMine ==
    ASSUME IInv, NInv, DInv, NEW i \in DOMAIN txs, Mine(i)
    PROVE  DInv'
<1> PICK tx : tx = txs[i]
  OBVIOUS
<1>1. /\ Kept(txs, txs') /\ DOMAIN txs' = DOMAIN txs
      /\ \A j \in DOMAIN txs : j # i => txs'[j] = txs[j]
      /\ tx \in Tx /\ tx.status = "pending" /\ UNCHANGED <<open, nonce, calls, call>>
      /\ \/ /\ txs'[i].status = "success"
            /\ writer' = [writer EXCEPT ![tx.table] = [k \in Key |->
                  IF k \notin tx.keys THEN writer[tx.table][k]
                  ELSE IF tx.put THEN tx.call ELSE 0]]
         \/ txs'[i].status = "reverted" /\ writer' = writer
  BY MineIs
<1>2. ASSUME NEW x \in Session, Watched(x)' PROVE DropInv(txs', writer', call'[x])
  <2> PICK c : c = call[x]
    OBVIOUS
  <2>1. Watched(x)
    BY <1>1, <1>2 DEF Watched
  <2>2. DropInv(txs, writer, c) /\ Quiet(x)
    BY <2>1 DEF DInv, NInv
  <2>3. tx.call = c.id
    BY <1>1, <2>2 DEF Quiet, Pending
  <2> SUFFICES ASSUME c.op = "drop_table" PROVE DropInv(txs', writer', c)
    BY <1>1 DEF DropInv
  <2>4. tx.table = c.table /\ tx.put = FALSE /\ tx.table \in Table
    BY <1>1, <2>2, <2>3 DEF DropInv, Tx
  <2>5. /\ Here(writer', c.table) \subseteq Here(writer, c.table)
        /\ txs'[i].status = "success" => tx.keys \cap Here(writer', c.table) = {}
    <3>1. CASE txs'[i].status = "reverted" /\ writer' = writer
      BY <3>1
    <3>2. CASE /\ txs'[i].status = "success"
               /\ writer' = [writer EXCEPT ![tx.table] = [k \in Key |->
                     IF k \notin tx.keys THEN writer[tx.table][k]
                     ELSE IF tx.put THEN tx.call ELSE 0]]
      <4>1. writer \in [Table -> [Key -> 0..MaxCalls]]
        BY DEF IInv, TypeOK
      <4>2. \A k \in Key : writer'[c.table][k] =
                              IF k \notin tx.keys THEN writer[c.table][k] ELSE 0
        BY <2>4, <3>2, <4>1
      <4> QED  BY <4>2 DEF Here
    <3> QED  BY <1>1, <3>1, <3>2
  <2>6. ASSUME NEW j \in DOMAIN txs', txs'[j].call = c.id
        PROVE  /\ txs'[j].table = c.table /\ txs'[j].put = FALSE
               /\ txs'[j].status = "success" => txs'[j].keys \cap Here(writer', c.table) = {}
    <3>1. txs'[j].table = c.table /\ txs'[j].put = FALSE /\ txs'[j].keys = txs[j].keys
      BY <1>1, <2>2, <2>6 DEF Kept, DropInv
    <3>2. CASE j = i
      BY <2>5, <3>1, <3>2
    <3>3. CASE j # i
      BY <1>1, <2>2, <2>5, <2>6, <3>1, <3>3 DEF DropInv
    <3> QED  BY <3>1, <3>2, <3>3
  <2> QED  BY <2>2, <2>5, <2>6 DEF DropInv
<1> QED  BY <1>2 DEF DInv

LEMMA DCrash ==
    ASSUME NEW U, Crashed(U)
    PROVE  DInv'
<1>1. \A x \in Session : call'[x] = NoCall
  BY DEF Crashed
<1>2. NoCall.alone = FALSE
  BY DEF NoCall
<1> QED  BY <1>1, <1>2 DEF DInv, Watched

LEMMA DStep ==
    ASSUME IInv, RInv, NInv, DInv, NEW s \in Session, Step(s)
    PROVE  DInv'
<1>1. ASSUME NEW r \in Request, SendThrows(s, r) PROVE DInv'
  BY <1>1, DCrash DEF SendThrows
<1>2. ASSUME ReturnPutFaults(s) PROVE DInv'
  BY <1>2, DCrash DEF ReturnPutFaults
<1> QED
  BY <1>1, <1>2, DTurn, DSend, DEnd, DNextRemove DEF Step

LEMMA DNext == IInv /\ RInv /\ NInv /\ DInv /\ [Next]_vars => DInv'
<1> SUFFICES ASSUME IInv, RInv, NInv, DInv, [Next]_vars PROVE DInv'
  OBVIOUS
<1>1. ASSUME UNCHANGED <<txs, writer, calls, call>> PROVE DInv'
  BY <1>1 DEF DInv, Watched
<1>2. ASSUME NEW s \in Session, NEW t \in Table, Begin(s, t) PROVE DInv'
  BY <1>2, BeginIs, DStart, DRefused
<1>3. ASSUME Crash PROVE DInv'
  BY <1>3, DCrash DEF Crash
<1> QED  BY <1>1, <1>2, <1>3, DStep, DMine DEF Next, LoadTable, vars

LEMMA DInit == Init => DInv
BY DEF Init, DInv, Watched, NoCall

(* What a drop_table that nobody disturbed leaves in the table, until the    *)
(* next call, are keys whose remove failed: get_all and the loop of removes *)
(* leave out no row, however many there are.                                *)
THEOREM DropsRest == Spec => []DropLeavesFailed
<1>1. RInv /\ DInv => DropLeavesFailed
  <2> SUFFICES ASSUME RInv, DInv, NEW s \in Session, ~Running(s),
                      call[s].op = "drop_table", call[s].alone,
                      call[s].id = calls
               PROVE  Present(call[s].table) \subseteq call[s].failed
    BY DEF DropLeavesFailed
  <2>1. call[s].phase = "idle" /\ Watched(s)
    BY DEF Running, Watched
  <2>2. DropInv(txs, writer, call[s]) /\ call[s].rest = {}
    BY <2>1 DEF DInv, RInv, Settled
  <2> QED  BY <2>1, <2>2 DEF DropInv, Left, Here, Present
<1>2. Spec => [](IInv /\ RInv)
  BY Invariance, RInvariance, PTL
<1>3. Spec => []NInv
  BY <1>2, NInit, NNext, PTL DEF Spec
<1>4. Spec => []DInv
  BY <1>2, <1>3, DInit, DNext, PTL DEF Spec
<1> QED  BY <1>1, <1>2, <1>4, PTL
=============================================================================
