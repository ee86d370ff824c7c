----------------------- MODULE EthereumAdapter_proofs -----------------------
(***************************************************************************)
(* EthereumAdapter, for every set of sessions, tables and keys, any number *)
(* of calls and all faults: its types, that a put or a remove that returns *)
(* 0 has changed each of its keys on the blockchain, and that a put takes  *)
(* no key out of the batch that is not stored.                             *)
(***************************************************************************)
EXTENDS EthereumAdapter, FiniteSetTheorems, SequenceTheorems,
        WellFoundedInduction, TLAPS

(* What the transactions T say of a call c.                                *)
Wrote(T, id, k) == \E i \in DOMAIN T :
    T[i].call = id /\ k \in T[i].keys /\ T[i].status = "success"
Req(c) == Requests(c.op, c.batch)
IsSent(T, c, r) ==
    c.sent[r] \in DOMAIN T /\ T[c.sent[r]].call = c.id /\ T[c.sent[r]].keys = r
IsJudged(T, c, r) == r \subseteq c.failed \/ \A k \in r : Wrote(T, c.id, k)

(* A call under way.  In a loop, todo are requests; those that the loops   *)
(* of sending and of waiting have seen are sent, or judged.                *)
Loop == {"update", "sign", "send", "check"}
Going(c) ==
    /\ c.phase # "idle" => c.table \in Table /\ c.id # 0 /\ c.batch # {}
    /\ c.phase \in Loop => c.todo \subseteq Req(c)
    /\ c.rest # {} => c.op = "drop_table"
AllSent(T, c) ==
    c.phase \in {"send", "check"} =>
        \A r \in Req(c) : (c.phase = "send" /\ r \in c.todo) \/ IsSent(T, c, r)
AllJudged(T, c) ==
    c.phase \in {"check", "return"} =>
        \A r \in Req(c) : (c.phase = "check" /\ r \in c.todo) \/ IsJudged(T, c, r)

(* The transactions of a put are about keys of its batch.                  *)
OwnKeys(T, c) ==
    (c.op = "put" /\ c.phase # "idle") =>
        /\ c.failed \subseteq c.batch
        /\ \A i \in DOMAIN T : T[i].call = c.id => T[i].keys \in Req(c)

(* A call that has ended.                                                  *)
DoneZero(T, c) ==
    (c.phase = "idle" /\ c.op \in {"put", "remove"} /\ c.result = 0) =>
        \A k \in c.batch : Wrote(T, c.id, k)
DoneOne(T, c) ==
    (c.phase = "idle" /\ c.op = "put" /\ c.result = 1) =>
        /\ c.id # 0
        /\ c.failed \subseteq c.batch
        /\ \A i \in DOMAIN T : T[i].call = c.id =>
              \A k \in T[i].keys \ c.batch : Wrote(T, c.id, k)

CallInv(T, c) ==
    /\ Going(c) /\ AllSent(T, c) /\ AllJudged(T, c)
    /\ OwnKeys(T, c) /\ DoneZero(T, c) /\ DoneOne(T, c)

(* Calls have numbers of their own, and transactions the numbers of calls. *)
Ids ==
    /\ \A s \in Session : call[s].id <= calls
    /\ \A s, x \in Session : s # x /\ call[s].id = call[x].id => call[s].id = 0
    /\ \A i \in DOMAIN txs : txs[i].call <= calls

(* The inductive invariant.                                                *)
IInv == TypeOK /\ Ids /\ \A s \in Session : CallInv(txs, call[s])
-----------------------------------------------------------------------------
(* Numbers.                                                                *)
LEMMA CountType ==
    ASSUME txs \in Seq(Tx)
    PROVE  TransactionCount \in Nat
<1> DEFINE S == {i \in DOMAIN txs : Mined(txs[i])}
<1>1. IsFiniteSet(DOMAIN txs)
  BY FS_Interval, LenProperties
<1>2. IsFiniteSet(S)
  BY <1>1, FS_Subset
<1>3. Cardinality(S) \in Nat
  BY <1>2, FS_CardinalityType
<1> QED
  BY <1>3, CountsAssumption DEF TransactionCount

LEMMA LatestType ==
    ASSUME txs \in Seq(Tx)
    PROVE  LatestNonce \in Nonce
BY CountType, ModulusAssumption DEF LatestNonce, Nonce

LEMMA IncrementedType ==
    ASSUME NEW n \in Nonce
    PROVE  Incremented(n) \in Nonce
BY ModulusAssumption DEF Incremented, Nonce

(* Fewer nonces are pending than numbers are tried: one is free.           *)
LEMMA LeastMember ==
    ASSUME NEW S, S \subseteq Nat, S # {}
    PROVE  Min(S) \in S
<1> DEFINE less == OpToRel(<, Nat)
<1>1. IsWellFoundedOn(less, Nat)
  BY NatLessThanWellFounded
<1> HIDE DEF less
<1>2. \E x \in S : \A y \in S : <<y, x>> \notin less
  BY ONLY <1>1, WFMin, S \subseteq Nat, S # {}
<1>3. \A x, y \in Nat : <<y, x>> \notin less => x <= y
  BY DEF less, OpToRel
<1>4. \E x \in S : \A y \in S : x <= y
  BY <1>2, <1>3
<1> QED
  BY <1>4 DEF Min

LEMMA FreeType ==
    ASSUME txs \in Seq(Tx)
    PROVE  NextFree \in Nat
<1> DEFINE C == TransactionCount
           R == C..(C + Len(txs))
           f == [i \in Pending |-> txs[i].nonce]
           N == {txs[i].nonce : i \in Pending}
           F == {n \in R : \A i \in Pending : txs[i].nonce # n}
<1>1. C \in Nat /\ Len(txs) \in Nat /\ DOMAIN txs = 1..Len(txs)
  BY CountType, LenProperties
<1>2. IsFiniteSet(Pending) /\ Cardinality(Pending) <= Len(txs) /\ Cardinality(Pending) \in Nat
  <2>1. IsFiniteSet(1..Len(txs)) /\ Cardinality(1..Len(txs)) = Len(txs)
    BY <1>1, FS_Interval
  <2> QED
    BY <1>1, <2>1, FS_Subset, FS_CardinalityType DEF Pending
<1>3. IsFiniteSet(N) /\ Cardinality(N) <= Cardinality(Pending) /\ Cardinality(N) \in Nat
  <2>1. f \in Surjection(Pending, N)
    BY DEF Surjection
  <2> QED
    BY <1>2, <2>1, FS_Surjection, FS_CardinalityType
<1>4. Cardinality(R) = Len(txs) + 1
  BY <1>1, FS_Interval
<1>5. F # {}
  <2>1. SUFFICES ASSUME R \subseteq N PROVE FALSE
    OBVIOUS
  <2>2. Cardinality(R) <= Cardinality(N)
    BY <1>3, <2>1, FS_Subset
  <2> QED
    BY <1>1, <1>2, <1>3, <1>4, <2>2
<1>6. F \subseteq Nat
  BY <1>1
<1>7. Min(F) \in F
  BY <1>5, <1>6, LeastMember
<1> QED
  BY <1>6, <1>7 DEF NextFree
-----------------------------------------------------------------------------
(* Calls, as values.                                                       *)
LEMMA RequestsType ==
    ASSUME NEW op, NEW B \in SUBSET Key, B # {}
    PROVE  Requests(op, B) \subseteq Request
<1>1. CASE op = "put_batch"
  BY <1>1 DEF Requests, Request
<1>2. CASE op # "put_batch"
  BY <1>2 DEF Requests, Request
<1> QED
  BY <1>1, <1>2

(* The next turn of a loop.                                                *)
LEMMA SeenTurn ==
    ASSUME NEW c \in Call, NEW r \in c.todo, c.phase \in Loop, Going(c)
    PROVE  /\ Seen(c, r) \in Call
           /\ Seen(c, r).id = c.id /\ Seen(c, r).op = c.op
           /\ Seen(c, r).table = c.table /\ Seen(c, r).batch = c.batch
           /\ Seen(c, r).sent = c.sent /\ Seen(c, r).failed = c.failed
           /\ Seen(c, r).result = c.result /\ Seen(c, r).rest = c.rest
           /\ \/ Seen(c, r).phase = c.phase /\ Seen(c, r).todo = c.todo \ {r}
              \/ /\ c.todo = {r}
                 /\ Seen(c, r).phase = After(c.phase)
                 /\ Seen(c, r).todo = IF c.phase = "check" THEN {} ELSE Req(c)
           /\ After(c.phase) \in {"sign", "send", "check", "return"}
<1>1. Req(c) \subseteq Request
  BY RequestsType DEF Going, Req, Loop, Call
<1>2. After(c.phase) \in {"sign", "send", "check", "return"}
  BY DEF After, Loop
<1>3. CASE c.todo # {r}
  BY <1>2, <1>3 DEF Seen, Call
<1>4. CASE c.todo = {r}
  <2> DEFINE d == [c EXCEPT !.phase = After(c.phase),
                            !.todo = IF c.phase = "check" THEN {} ELSE Req(c)]
  <2>1. Seen(c, r) = d
    BY <1>4 DEF Seen, Call, Req
  <2>2. (IF c.phase = "check" THEN {} ELSE Req(c)) \in SUBSET Request
    BY <1>1
  <2>3. d \in Call
    BY <1>2, <2>2 DEF Call
  <2> QED
    BY <1>2, <1>4, <2>1, <2>3 DEF Call
<1> QED
  BY <1>3, <1>4

LEMMA AfterLoops ==
    /\ After("update") = "sign" /\ After("sign") = "send"
    /\ After("send") = "check" /\ After("check") = "return"
BY DEF After

(* Transactions are added and change their status, but not once they have  *)
(* succeeded; what is added is of call n.                                  *)
Grown(T, U, n) ==
    /\ T \in Seq(Tx) /\ U \in Seq(Tx) /\ DOMAIN T \subseteq DOMAIN U
    /\ \A i \in DOMAIN T :
          /\ U[i].call = T[i].call /\ U[i].keys = T[i].keys
          /\ T[i].status = "success" => U[i].status = "success"
    /\ \A i \in DOMAIN U \ DOMAIN T : U[i].call = n

LEMMA WroteStays ==
    ASSUME NEW T, NEW U, NEW n, Grown(T, U, n), NEW id, NEW k, Wrote(T, id, k)
    PROVE  Wrote(U, id, k)
BY DEF Grown, Wrote

(* What others do to the transactions does not disturb a call.             *)
LEMMA CallStays ==
    ASSUME NEW T, NEW U, NEW n, Grown(T, U, n), NEW c, c.id # n, CallInv(T, c)
    PROVE  CallInv(U, c)
<1>1. \A k : Wrote(T, c.id, k) => Wrote(U, c.id, k)
  BY WroteStays
<1>2. \A i \in DOMAIN U : U[i].call = c.id =>
            i \in DOMAIN T /\ T[i].call = c.id /\ U[i].keys = T[i].keys
  BY DEF Grown
<1>3. \A r : IsSent(T, c, r) => IsSent(U, c, r)
  BY DEF Grown, IsSent
<1>4. \A r : IsJudged(T, c, r) => IsJudged(U, c, r)
  BY <1>1 DEF IsJudged
<1>5. AllSent(U, c)
  BY <1>3 DEF CallInv, AllSent
<1>6. AllJudged(U, c)
  BY <1>4 DEF CallInv, AllJudged
<1>7. OwnKeys(U, c)
  BY <1>2 DEF CallInv, OwnKeys
<1>8. DoneZero(U, c)
  BY <1>1 DEF CallInv, DoneZero
<1>9. DoneOne(U, c)
  BY <1>1, <1>2 DEF CallInv, DoneOne
<1> QED
  BY <1>5, <1>6, <1>7, <1>8, <1>9 DEF CallInv

(* The same of a call whose history is changed.                            *)
LEMMA NotAlone ==
    ASSUME NEW T, NEW c \in Call, CallInv(T, c)
    PROVE  /\ [c EXCEPT !.alone = FALSE] \in Call
           /\ [c EXCEPT !.alone = FALSE].id = c.id
           /\ CallInv(T, [c EXCEPT !.alone = FALSE])
<1> DEFINE d == [c EXCEPT !.alone = FALSE]
<1>1. d \in Call /\ d.id = c.id /\ d.op = c.op /\ d.table = c.table
      /\ d.phase = c.phase /\ d.batch = c.batch /\ d.todo = c.todo
      /\ d.sent = c.sent /\ d.failed = c.failed /\ d.result = c.result
      /\ d.rest = c.rest
  BY DEF Call
<1> HIDE DEF d
<1>2. CallInv(T, d)
  BY <1>1 DEF CallInv, Going, AllSent, AllJudged, OwnKeys, DoneZero, DoneOne,
              IsSent, IsJudged, Req
<1> QED
  BY <1>1, <1>2 DEF d
-----------------------------------------------------------------------------
(* Steps of the node.                                                      *)
LEMMA SameTxs ==
    ASSUME NEW T \in Seq(Tx), NEW n
    PROVE  Grown(T, T, n)
BY DEF Grown

LEMMA NoCallInv ==
    /\ NoCall \in Call /\ NoCall.id = 0
    /\ \A T : CallInv(T, NoCall)
<1>1. NoCall \in Call
  BY CountsAssumption, ModulusAssumption DEF NoCall, Call, Op, Nonce
<1>2. /\ NoCall.id = 0 /\ NoCall.phase = "idle" /\ NoCall.batch = {}
      /\ NoCall.result = 0 /\ NoCall.rest = {}
  BY DEF NoCall
<1> HIDE DEF NoCall
<1>3. \A T : CallInv(T, NoCall)
  BY <1>2 DEF CallInv, Going, AllSent, AllJudged, OwnKeys, DoneZero, DoneOne, Loop
<1> QED
  BY <1>1, <1>2, <1>3

(* A transaction that gets another status, unless it has succeeded.        *)
LEMMA Restatus ==
    ASSUME NEW T \in Seq(Tx), NEW I, \A i \in DOMAIN T \cap I : T[i].status # "success",
           NEW st \in {"pending", "success", "reverted", "replaced"}, NEW n
    PROVE  LET U == [i \in DOMAIN T |-> IF i \in I THEN [T[i] EXCEPT !.status = st] ELSE T[i]]
           IN  Grown(T, U, n) /\ Len(U) = Len(T)
<1> DEFINE U == [i \in DOMAIN T |-> IF i \in I THEN [T[i] EXCEPT !.status = st] ELSE T[i]]
<1>1. DOMAIN T = 1..Len(T) /\ Len(T) \in Nat
  BY LenProperties
<1>2. \A i \in DOMAIN T :
          /\ U[i] \in Tx
          /\ U[i].call = T[i].call /\ U[i].keys = T[i].keys
          /\ T[i].status = "success" => U[i].status = "success"
  <2> SUFFICES ASSUME NEW i \in DOMAIN T
               PROVE  /\ U[i] \in Tx
                      /\ U[i].call = T[i].call /\ U[i].keys = T[i].keys
                      /\ T[i].status = "success" => U[i].status = "success"
    OBVIOUS
  <2>1. T[i] \in Tx
    BY <1>1, ElementOfSeq
  <2>2. CASE i \in I
    BY <2>1, <2>2 DEF Tx
  <2>3. CASE i \notin I
    BY <2>1, <2>3
  <2> QED
    BY <2>2, <2>3
<1>3. U \in [1..Len(T) -> Tx]
  BY <1>1, <1>2
<1>4. U \in Seq(Tx) /\ Len(U) = Len(T)
  BY <1>1, <1>3, SeqDef
<1> QED
  BY <1>1, <1>2, <1>4 DEF Grown

LEMMA MineGrown ==
    ASSUME TypeOK, NEW i \in DOMAIN txs, Mine(i)
    PROVE  Grown(txs, txs', MaxCalls + 1) /\ DOMAIN txs' = DOMAIN txs
<1>1. txs \in Seq(Tx)
  BY DEF TypeOK
<1>2. txs[i].status # "success"
  BY DEF Mine
<1>3. PICK st \in {"success", "reverted"} : txs' = [txs EXCEPT ![i].status = st]
  BY DEF Mine
<1>4. txs' = [j \in DOMAIN txs |-> IF j \in {i} THEN [txs[j] EXCEPT !.status = st] ELSE txs[j]]
  BY <1>3
<1> QED
  BY <1>1, <1>2, <1>4, Restatus

LEMMA AcceptedGrown ==
    ASSUME TypeOK, NEW s \in Session, call[s].phase # "idle", Going(call[s]),
           call[s].id # 0, NEW r \in Request
    PROVE  /\ Grown(txs, Accepted(s, r), call[s].id)
           /\ Len(txs) + 1 \in DOMAIN Accepted(s, r)
           /\ Accepted(s, r)[Len(txs) + 1].call = call[s].id
           /\ Accepted(s, r)[Len(txs) + 1].keys = r
           /\ DOMAIN Accepted(s, r) = DOMAIN txs \cup {Len(txs) + 1}
           /\ Len(txs) + 1 \notin DOMAIN txs
<1> DEFINE new == NewTx(s, r)
           n == SentNonce(s, r)
           U == [i \in DOMAIN txs |-> IF i \in Rivals(n)
                       THEN [txs[i] EXCEPT !.status = "replaced"] ELSE txs[i]]
<1>1. txs \in Seq(Tx) /\ call[s] \in Call /\ call[s].table \in Table
  BY DEF TypeOK, Going
<1>2. n \in Nat
  BY <1>1, FreeType DEF SentNonce, Call, Nonce
<1>3. new \in Tx
  <2>1. call[s].id \in 1..MaxCalls
    BY <1>1, CountsAssumption DEF Call
  <2> QED
    BY <1>1, <1>2, <2>1 DEF NewTx, Tx
<1>4. new.call = call[s].id /\ new.keys = r
  BY DEF NewTx
<1> HIDE DEF new
<1>5. Grown(txs, U, call[s].id) /\ Len(U) = Len(txs)
  <2>1. \A i \in DOMAIN txs \cap Rivals(n) : txs[i].status # "success"
    BY DEF Rivals, Pending
  <2> QED
    BY <1>1, <2>1, Restatus
<1>6. Accepted(s, r) = Append(U, new)
  BY DEF Accepted, new
<1> HIDE DEF U, n
<1>7. U \in Seq(Tx)
  BY <1>5 DEF Grown
<1>8. /\ Append(U, new) \in Seq(Tx) /\ Len(Append(U, new)) = Len(txs) + 1
      /\ \A i \in 1..Len(txs) : Append(U, new)[i] = U[i]
      /\ Append(U, new)[Len(txs) + 1] = new
  BY <1>3, <1>5, <1>7, AppendProperties
<1>9. /\ DOMAIN txs = 1..Len(txs) /\ Len(txs) \in Nat
      /\ DOMAIN Append(U, new) = 1..(Len(txs) + 1)
  BY <1>1, <1>8, LenProperties
<1>10. Grown(txs, Append(U, new), call[s].id)
  BY <1>4, <1>5, <1>8, <1>9 DEF Grown
<1> QED
  BY <1>4, <1>6, <1>8, <1>9, <1>10
-----------------------------------------------------------------------------
(* The turns of the loops: b is the call c with what the turn has noted.   *)
SameCall(b, c) ==
    /\ b.id = c.id /\ b.op = c.op /\ b.table = c.table /\ b.phase = c.phase
    /\ b.batch = c.batch /\ b.todo = c.todo /\ b.result = c.result
    /\ b.rest = c.rest

(* update_nonce and ++nonce_.                                              *)
LEMMA NonceTurn ==
    ASSUME NEW T, NEW c \in Call, CallInv(T, c), c.phase \in {"update", "sign"},
           NEW r \in c.todo,
           NEW b \in Call, SameCall(b, c), b.failed = c.failed
    PROVE  /\ Seen(b, r) \in Call /\ Seen(b, r).id = c.id
           /\ CallInv(T, Seen(b, r))
<1> DEFINE d == Seen(b, r)
<1>1. Going(b) /\ Req(b) = Req(c) /\ b.phase \in Loop /\ r \in b.todo
  BY DEF CallInv, Going, SameCall, Req, Loop
<1>2. /\ d \in Call /\ d.id = c.id /\ d.op = c.op /\ d.table = c.table
      /\ d.batch = c.batch /\ d.failed = c.failed /\ d.result = c.result
      /\ d.rest = c.rest
      /\ \/ d.phase = c.phase /\ d.todo = c.todo \ {r}
         \/ d.phase = After(c.phase) /\ d.todo = Req(c)
  BY <1>1, SeenTurn DEF SameCall
<1>3. Req(d) = Req(c)
  BY <1>2 DEF Req
<1>4. d.phase \in {"update", "sign", "send"} /\ (d.phase = "send" => d.todo = Req(c))
  BY <1>2, AfterLoops
<1> HIDE DEF d
<1>5. Going(d)
  BY <1>2, <1>3, <1>4 DEF CallInv, Going, Loop
<1>6. AllSent(T, d) /\ AllJudged(T, d) /\ DoneZero(T, d) /\ DoneOne(T, d)
  BY <1>3, <1>4 DEF AllSent, AllJudged, DoneZero, DoneOne
<1>7. OwnKeys(T, d)
  BY <1>2, <1>3 DEF CallInv, OwnKeys
<1>8. CallInv(T, d)
  BY <1>5, <1>6, <1>7 DEF CallInv
<1> QED
  BY <1>2, <1>8 DEF d

(* A transaction is sent: it is the last of U.                             *)
LEMMA SendTurn ==
    ASSUME NEW T, NEW U, NEW c \in Call, Grown(T, U, c.id), CallInv(T, c),
           c.phase = "send", NEW r \in c.todo, NEW n \in Nat,
           DOMAIN U = DOMAIN T \cup {n}, n \notin DOMAIN T,
           U[n].call = c.id, U[n].keys = r,
           NEW b \in Call, SameCall(b, c), b.failed = c.failed,
           b.sent = [c.sent EXCEPT ![r] = n]
    PROVE  /\ Seen(b, r) \in Call /\ Seen(b, r).id = c.id
           /\ CallInv(U, Seen(b, r))
<1> DEFINE d == Seen(b, r)
<1>1. Going(b) /\ Req(b) = Req(c) /\ b.phase \in Loop /\ r \in b.todo /\ r \in Req(c)
  BY DEF CallInv, Going, SameCall, Req, Loop
<1>2. /\ d \in Call /\ d.id = c.id /\ d.op = c.op /\ d.table = c.table
      /\ d.batch = c.batch /\ d.failed = c.failed /\ d.result = c.result
      /\ d.rest = c.rest
      /\ d.sent = b.sent
      /\ \/ d.phase = "send" /\ d.todo = c.todo \ {r}
         \/ c.todo = {r} /\ d.phase = "check" /\ d.todo = Req(c)
  BY <1>1, SeenTurn, AfterLoops DEF SameCall
<1>3. Req(d) = Req(c)
  BY <1>2 DEF Req
<1>4. r \in Request /\ c.sent \in [Request -> Nat]
  BY DEF Call
<1> HIDE DEF d
<1>5. Going(d)
  BY <1>2, <1>3 DEF CallInv, Going, Loop
<1>6. \A q : IsSent(T, c, q) /\ q # r => IsSent(U, d, q)
  BY <1>2, <1>4 DEF IsSent, Grown
<1>7. IsSent(U, d, r)
  BY <1>2, <1>4 DEF IsSent
<1>8. \A q \in Req(c) : q \in c.todo \/ IsSent(T, c, q)
  BY DEF CallInv, AllSent
<1>9. AllSent(U, d)
  BY <1>2, <1>3, <1>6, <1>7, <1>8 DEF AllSent
<1>10. AllJudged(U, d) /\ DoneZero(U, d) /\ DoneOne(U, d)
  BY <1>2, <1>3 DEF AllJudged, DoneZero, DoneOne
<1>11. OwnKeys(U, d)
  <2>1. \A i \in DOMAIN U : i = n \/ (i \in DOMAIN T /\ U[i].call = T[i].call /\ U[i].keys = T[i].keys)
    BY DEF Grown
  <2>2. c.op = "put" => c.failed \subseteq c.batch
            /\ \A i \in DOMAIN T : T[i].call = c.id => T[i].keys \in Req(c)
    BY DEF CallInv, OwnKeys
  <2> QED
    BY <1>1, <1>2, <1>3, <2>1, <2>2 DEF OwnKeys
<1>12. CallInv(U, d)
  BY <1>5, <1>9, <1>10, <1>11 DEF CallInv
<1> QED
  BY <1>2, <1>12 DEF d

(* A receipt is read.                                                      *)
LEMMA ReceiptTurn ==
    ASSUME NEW T, NEW c \in Call, CallInv(T, c), c.phase = "check", NEW r \in c.todo,
           NEW b \in Call, SameCall(b, c), b.sent = c.sent,
           \/ (b.failed = c.failed /\ T[c.sent[r]].status = "success")
           \/ b.failed = c.failed \cup r
    PROVE  /\ Seen(b, r) \in Call /\ Seen(b, r).id = c.id
           /\ CallInv(T, Seen(b, r))
<1> DEFINE d == Seen(b, r)
<1>1. Going(b) /\ Req(b) = Req(c) /\ b.phase \in Loop /\ r \in b.todo /\ r \in Req(c)
  BY DEF CallInv, Going, SameCall, Req, Loop
<1>2. /\ d \in Call /\ d.id = c.id /\ d.op = c.op /\ d.table = c.table
      /\ d.batch = c.batch /\ d.failed = b.failed /\ d.result = c.result
      /\ d.rest = c.rest
      /\ d.sent = c.sent
      /\ \/ d.phase = "check" /\ d.todo = c.todo \ {r}
         \/ c.todo = {r} /\ d.phase = "return" /\ d.todo = {}
  BY <1>1, SeenTurn, AfterLoops DEF SameCall
<1>3. Req(d) = Req(c)
  BY <1>2 DEF Req
<1> HIDE DEF d
<1>4. Going(d)
  BY <1>2, <1>3 DEF CallInv, Going, Loop
<1>5. \A q \in Req(c) : IsSent(T, c, q)
  BY DEF CallInv, AllSent
<1>6. \A q : IsSent(T, c, q) => IsSent(T, d, q)
  BY <1>2 DEF IsSent
<1>7. AllSent(T, d)
  BY <1>2, <1>3, <1>5, <1>6 DEF AllSent
<1>8. \A q : IsJudged(T, c, q) => IsJudged(T, d, q)
  BY <1>2 DEF IsJudged
<1>9. IsJudged(T, d, r)
  <2>1. CASE b.failed = c.failed \cup r
    BY <1>2, <2>1 DEF IsJudged
  <2>2. CASE T[c.sent[r]].status = "success"
    <3>1. \A k \in r : Wrote(T, c.id, k)
      BY <1>1, <1>5, <2>2 DEF IsSent, Wrote
    <3> QED
      BY <1>2, <3>1 DEF IsJudged
  <2> QED
    BY <2>1, <2>2
<1>10. \A q \in Req(c) : q \in c.todo \/ IsJudged(T, c, q)
  BY DEF CallInv, AllJudged
<1>11. AllJudged(T, d)
  BY <1>2, <1>3, <1>8, <1>9, <1>10 DEF AllJudged
<1>12. DoneZero(T, d) /\ DoneOne(T, d)
  BY <1>2 DEF DoneZero, DoneOne
<1>13. OwnKeys(T, d)
  <2>1. c.op = "put" => r \subseteq c.batch
    BY <1>1 DEF Req, Requests
  <2> QED
    BY <1>2, <1>3, <2>1 DEF CallInv, OwnKeys
<1>14. CallInv(T, d)
  BY <1>4, <1>7, <1>11, <1>12, <1>13 DEF CallInv
<1> QED
  BY <1>2, <1>14 DEF d
-----------------------------------------------------------------------------
(* The ends of a call, as values.                                          *)
LEMMA ReturnedType ==
    ASSUME NEW c \in Call, NEW n \in {0, 1}, NEW B \in SUBSET Key
    PROVE  /\ Returned(c, n, B) \in Call
           /\ Returned(c, n, B).id = c.id /\ Returned(c, n, B).op = c.op
           /\ Returned(c, n, B).phase = "idle" /\ Returned(c, n, B).batch = B
           /\ Returned(c, n, B).failed = c.failed /\ Returned(c, n, B).result = n
           /\ Returned(c, n, B).rest = c.rest
<1>1. NoCall.nonces \in [Request -> Nonce] /\ NoCall.sent \in [Request -> Nat]
  BY NoCallInv DEF Call
<1> QED
  BY <1>1 DEF Returned, Call

(* The keys of a put or a remove are requests of their own.                *)
LEMMA KeyJudged ==
    ASSUME NEW T, NEW c, CallInv(T, c), c.phase = "return",
           c.op \in {"put", "remove"}, NEW k \in c.batch, k \notin c.failed
    PROVE  Wrote(T, c.id, k)
<1>1. {k} \in Req(c)
  BY DEF Req, Requests
<1>2. IsJudged(T, c, {k})
  BY <1>1 DEF CallInv, AllJudged
<1> QED
  BY <1>2 DEF IsJudged

LEMMA ReturnPutTurn ==
    ASSUME NEW T, NEW c \in Call, CallInv(T, c), c.phase = "return", c.op = "put",
           NEW B \in Erased(c)
    PROVE  /\ Returned(c, 1, B) \in Call /\ Returned(c, 1, B).id = c.id
           /\ CallInv(T, Returned(c, 1, B))
<1> DEFINE d == Returned(c, 1, B)
<1>1. c.failed \subseteq c.batch /\ c.id # 0
      /\ \A i \in DOMAIN T : T[i].call = c.id => T[i].keys \in Req(c)
  BY DEF CallInv, OwnKeys, Going
<1>2. c.failed \subseteq B /\ B \in SUBSET Key
  BY <1>1 DEF Erased, Call
<1>3. /\ d \in Call /\ d.id = c.id /\ d.op = "put" /\ d.phase = "idle"
      /\ d.batch = B /\ d.failed = c.failed /\ d.result = 1 /\ d.rest = c.rest
  BY <1>2, ReturnedType
<1> HIDE DEF d
<1>4. DoneOne(T, d)
  <2>1. SUFFICES ASSUME NEW i \in DOMAIN T, T[i].call = c.id, NEW k \in T[i].keys \ B
                 PROVE  Wrote(T, c.id, k)
    BY <1>1, <1>2, <1>3 DEF DoneOne
  <2>2. k \in c.batch
    BY <1>1, <2>1 DEF Req, Requests
  <2> QED
    BY <1>2, <2>2, KeyJudged
<1>5. Going(d) /\ AllSent(T, d) /\ AllJudged(T, d) /\ OwnKeys(T, d) /\ DoneZero(T, d)
  BY <1>3 DEF CallInv, Going, AllSent, AllJudged, OwnKeys, DoneZero, Loop
<1> QED
  BY <1>3, <1>4, <1>5 DEF CallInv, d

LEMMA ReturnTurn ==
    ASSUME NEW T, NEW c \in Call, CallInv(T, c), c.phase = "return",
           ~(c.op = "put" /\ c.failed # {}),
           NEW n, n = IF c.op = "remove" /\ c.failed # {} THEN 1 ELSE 0
    PROVE  /\ Returned(c, n, c.batch) \in Call /\ Returned(c, n, c.batch).id = c.id
           /\ CallInv(T, Returned(c, n, c.batch))
<1> DEFINE d == Returned(c, n, c.batch)
<1>1. /\ d \in Call /\ d.id = c.id /\ d.op = c.op /\ d.phase = "idle"
      /\ d.batch = c.batch /\ d.failed = c.failed /\ d.result = n /\ d.rest = c.rest
  <2>1. n \in {0, 1} /\ c.batch \in SUBSET Key
    BY DEF Call
  <2> QED
    BY <2>1, ReturnedType
<1> HIDE DEF d
<1>2. DoneZero(T, d)
  <2>1. SUFFICES ASSUME c.op \in {"put", "remove"}, n = 0, NEW k \in c.batch
                 PROVE  Wrote(T, c.id, k)
    BY <1>1 DEF DoneZero
  <2>2. c.failed = {}
    BY <2>1
  <2> QED
    BY <2>1, <2>2, KeyJudged
<1>3. Going(d) /\ AllSent(T, d) /\ AllJudged(T, d) /\ OwnKeys(T, d) /\ DoneOne(T, d)
  BY <1>1 DEF CallInv, Going, AllSent, AllJudged, OwnKeys, DoneOne, Loop
<1> QED
  BY <1>1, <1>2, <1>3 DEF CallInv, d

LEMMA NextRemoveTurn ==
    ASSUME NEW T, NEW c \in Call, CallInv(T, c), c.phase = "return",
           NEW k \in c.rest, NEW h \in BOOLEAN, NEW d,
           d = [c EXCEPT !.phase = "update", !.batch = {k}, !.rest = c.rest \ {k},
                         !.todo = {{k}}, !.sent = NoCall.sent,
                         !.nonces = NoCall.nonces, !.alone = h]
    PROVE  d \in Call /\ d.id = c.id /\ CallInv(T, d)
<1>1. c.op = "drop_table" /\ c.table \in Table /\ c.id # 0
  BY DEF CallInv, Going
<1>2. NoCall.nonces \in [Request -> Nonce] /\ NoCall.sent \in [Request -> Nat]
  BY NoCallInv DEF Call
<1>3. k \in Key /\ {{k}} \in SUBSET Request
  BY DEF Call, Request
<1>4. /\ d \in Call /\ d.id = c.id /\ d.op = "drop_table" /\ d.table = c.table
      /\ d.phase = "update" /\ d.batch = {k} /\ d.todo = {{k}}
  BY <1>1, <1>2, <1>3 DEF Call
<1>5. Req(d) = {{k}}
  BY <1>4 DEF Req, Requests
<1>6. Going(d)
  BY <1>1, <1>4, <1>5 DEF Going
<1>7. AllSent(T, d) /\ AllJudged(T, d) /\ OwnKeys(T, d) /\ DoneZero(T, d) /\ DoneOne(T, d)
  BY <1>4 DEF AllSent, AllJudged, OwnKeys, DoneZero, DoneOne
<1> QED
  BY <1>4, <1>6, <1>7 DEF CallInv
-----------------------------------------------------------------------------
(* Steps of one call, of a new call, and of a server that dies.            *)
LEMMA OneCall ==
    ASSUME IInv, NEW s \in Session, NEW d \in Call, d.id = call[s].id,
           call' = [call EXCEPT ![s] = d], calls' = calls,
           Grown(txs, txs', call[s].id), call[s].id # 0, CallInv(txs', d),
           writer' = writer, open' = open, nonce' \in [Table -> Nonce]
    PROVE  IInv'
<1>1. TypeOK /\ Ids /\ call \in [Session -> Call]
  BY DEF IInv, TypeOK
<1>2. /\ call' \in [Session -> Call] /\ call'[s] = d
      /\ \A x \in Session : x # s => call'[x] = call[x]
      /\ \A x \in Session : call'[x].id = call[x].id
  BY <1>1
<1>3. TypeOK'
  BY <1>1, <1>2 DEF TypeOK, Grown
<1>4. \A i \in DOMAIN txs' : txs'[i].call <= calls
  BY <1>1 DEF Ids, Grown
<1>5. Ids'
  BY <1>1, <1>2, <1>4 DEF Ids
<1>6. \A x \in Session : CallInv(txs', call'[x])
  <2>1. SUFFICES ASSUME NEW x \in Session, x # s
                 PROVE  CallInv(txs', call[x])
    BY <1>2
  <2>2. call[x].id # call[s].id
    BY <1>1, <2>1 DEF Ids
  <2>3. CallInv(txs, call[x])
    BY DEF IInv
  <2> QED
    BY <2>2, <2>3, CallStays
<1>7. (\A x \in Session : CallInv(txs, call[x]))'
  BY <1>6
<1> QED
  BY <1>3, <1>5, <1>7 DEF IInv

LEMMA OldTxs ==
    ASSUME TypeOK, Ids
    PROVE  \A i \in DOMAIN txs : txs[i].call <= calls + 1 /\ txs[i].call # calls + 1
<1>1. \A i \in DOMAIN txs : txs[i] \in Tx
  BY ElementOfSeq, LenProperties DEF TypeOK
<1>2. calls \in Nat /\ \A i \in DOMAIN txs : txs[i].call \in Nat
  BY <1>1, CountsAssumption DEF Tx, TypeOK
<1> QED
  BY <1>2 DEF Ids

LEMMA NewCall ==
    ASSUME IInv, calls < MaxCalls, NEW s \in Session, NEW d \in Call,
           d.id = calls + 1, CallInv(txs, d), calls' = calls + 1,
           call' \in [Session -> Call], call'[s] = d,
           \A x \in Session : x # s =>
              call'[x] \in {call[x], [call[x] EXCEPT !.alone = FALSE]},
           UNCHANGED <<txs, writer, open, nonce>>
    PROVE  IInv'
<1>1. TypeOK /\ Ids /\ call \in [Session -> Call] /\ calls \in Nat
  BY CountsAssumption DEF IInv, TypeOK
<1>2. \A x \in Session : CallInv(txs, call[x])
  BY DEF IInv
<1>3. \A x \in Session : x # s => call'[x].id = call[x].id /\ CallInv(txs, call'[x])
  <2> SUFFICES ASSUME NEW x \in Session, x # s
               PROVE  call'[x].id = call[x].id /\ CallInv(txs, call'[x])
    OBVIOUS
  <2>1. call[x] \in Call /\ CallInv(txs, call[x])
    BY <1>1, <1>2
  <2>2. CASE call'[x] = call[x]
    BY <2>1, <2>2
  <2>3. CASE call'[x] = [call[x] EXCEPT !.alone = FALSE]
    <3> DEFINE c == call[x]
    <3> HIDE DEF c
    <3>1. c \in Call /\ CallInv(txs, c) /\ call'[x] = [c EXCEPT !.alone = FALSE]
      BY <2>1, <2>3 DEF c
    <3>2. call'[x].id = c.id /\ CallInv(txs, call'[x])
      BY <3>1, NotAlone
    <3> QED
      BY <3>2 DEF c
  <2> QED
    BY <2>2, <2>3
<1>4. TypeOK'
  <2>1. calls' \in 0..MaxCalls
    BY <1>1, CountsAssumption
  <2> QED
    BY <1>1, <2>1 DEF TypeOK
<1>5. Ids'
  <2>1. \A x \in Session : call[x].id \in Nat
    BY <1>1 DEF Call
  <2>2. \A x \in Session : call[x].id <= calls
    BY <1>1 DEF Ids
  <2>3. \A x \in Session : call'[x].id <= calls'
    BY <1>1, <1>3, <2>1, <2>2
  <2>4. \A x, y \in Session : x # y /\ call'[x].id = call'[y].id => call'[x].id = 0
    <3> SUFFICES ASSUME NEW x \in Session, NEW y \in Session, x # y,
                        call'[x].id = call'[y].id
                 PROVE  call'[x].id = 0
      OBVIOUS
    <3>1. x # s /\ y # s
      BY <1>1, <1>3, <2>1, <2>2
    <3> QED
      BY <1>1, <1>3, <3>1 DEF Ids
  <2>5. \A i \in DOMAIN txs : txs[i].call <= calls + 1
    BY <1>1, OldTxs
  <2> QED
    BY <2>3, <2>4, <2>5 DEF Ids
<1>6. (\A x \in Session : CallInv(txs, call[x]))'
  BY <1>3
<1> QED
  BY <1>4, <1>5, <1>6 DEF IInv

LEMMA ServerDies ==
    ASSUME IInv, NEW U, NEW n, n <= calls, Grown(txs, U, n), Crashed(U)
    PROVE  IInv'
<1>1. TypeOK /\ Ids
  BY DEF IInv
<1>2. txs' = U /\ calls' = calls /\ call' = [s \in Session |-> NoCall]
  BY DEF Crashed
<1>3. 0 \in Nonce
  BY ModulusAssumption DEF Nonce
<1>4. TypeOK'
  BY <1>1, <1>2, <1>3, NoCallInv DEF TypeOK, Crashed, Grown
<1>5. \A i \in DOMAIN U : U[i].call <= calls
  BY <1>1 DEF Ids, Grown
<1>6. Ids'
  BY <1>1, <1>2, <1>5, NoCallInv, CountsAssumption DEF Ids, TypeOK
<1>7. (\A x \in Session : CallInv(txs, call[x]))'
  BY <1>2, NoCallInv
<1> QED
  BY <1>4, <1>6, <1>7 DEF IInv

(* A call that begins, and one that returns at once.                       *)
LEMMA StartInv ==
    ASSUME IInv, NEW s \in Session, NEW op \in Op, NEW t \in Table,
           NEW B \in SUBSET Key, NEW more \in SUBSET Key,
           more # {} => op = "drop_table", Start(s, op, t, B, more)
    PROVE  IInv'
<1> DEFINE d == Started(op, t, B, more)
<1>1. TypeOK /\ Ids /\ call \in [Session -> Call] /\ calls \in Nat /\ calls < MaxCalls
      /\ B # {}
  BY CountsAssumption DEF IInv, TypeOK, Start
<1>2. Requests(op, B) \subseteq Request
  BY <1>1, RequestsType
<1>3. /\ d \in Call /\ d.id = calls + 1 /\ d.op = op /\ d.table = t
      /\ d.phase = "update" /\ d.batch = B /\ d.rest = more /\ d.failed = {}
      /\ d.todo = Requests(op, B)
  <2>1. NoCall \in Call /\ NoCall.failed = {}
    BY NoCallInv DEF NoCall
  <2>2. calls + 1 \in 0..MaxCalls
    BY <1>1, CountsAssumption
  <2>3. (Pending = {} /\ \A x \in Session : call[x].phase = "idle") \in BOOLEAN
    OBVIOUS
  <2> HIDE DEF NoCall
  <2> QED
    BY <1>2, <2>1, <2>2, <2>3 DEF Started, Call
<1> HIDE DEF d
<1>4. CallInv(txs, d)
  <2>1. \A i \in DOMAIN txs : txs[i].call # d.id
    BY <1>1, <1>3, OldTxs
  <2>2. Going(d)
    BY <1>1, <1>3 DEF Going, Req
  <2>3. OwnKeys(txs, d)
    BY <1>3, <2>1 DEF OwnKeys
  <2> QED
    BY <1>3, <2>2, <2>3 DEF CallInv, AllSent, AllJudged, DoneZero, DoneOne
<1>5. call' = [x \in Session |-> IF x = s THEN d ELSE [call[x] EXCEPT !.alone = FALSE]]
  BY DEF Start, d
<1>6. \A x \in Session : [call[x] EXCEPT !.alone = FALSE] \in Call
  BY <1>1 DEF Call
<1>7. calls' = calls + 1 /\ UNCHANGED <<txs, writer, open, nonce>>
  BY DEF Start
<1> QED
  BY <1>1, <1>3, <1>4, <1>5, <1>6, <1>7, NewCall

LEMMA RefusedInv ==
    ASSUME IInv, NEW s \in Session, NEW op \in Op, NEW t \in Table,
           NEW B \in SUBSET Key, NEW r \in {0, 1},
           (op = "put" /\ r = 1) \/ (op = "drop_table" /\ r = 0), Refused(s, op, t, B, r)
    PROVE  IInv'
<1> DEFINE d == [NoCall EXCEPT !.id = calls + 1, !.op = op, !.table = t,
                               !.batch = B, !.failed = B, !.result = r]
<1>1. TypeOK /\ Ids /\ call \in [Session -> Call] /\ calls \in Nat /\ calls < MaxCalls
  BY CountsAssumption DEF IInv, TypeOK, Refused
<1>2. /\ d \in Call /\ d.id = calls + 1 /\ d.op = op /\ d.phase = "idle"
      /\ d.batch = B /\ d.failed = B /\ d.result = r /\ d.rest = {}
  <2>1. NoCall \in Call /\ NoCall.phase = "idle" /\ NoCall.rest = {}
    BY NoCallInv DEF NoCall
  <2>2. calls + 1 \in 0..MaxCalls
    BY <1>1, CountsAssumption
  <2> HIDE DEF NoCall
  <2> QED
    BY <2>1, <2>2 DEF Call
<1> HIDE DEF d
<1>3. CallInv(txs, d)
  <2>1. \A i \in DOMAIN txs : txs[i].call # d.id
    BY <1>1, <1>2, OldTxs
  <2>2. DoneOne(txs, d)
    BY <1>1, <1>2, <2>1 DEF DoneOne
  <2> QED
    BY <1>2, <2>2
    DEF CallInv, Going, AllSent, AllJudged, OwnKeys, DoneZero, Loop
<1>4. call' = [call EXCEPT ![s] = d]
  BY DEF Refused, d
<1>5. calls' = calls + 1 /\ UNCHANGED <<txs, writer, open, nonce>>
  BY DEF Refused
<1>6. call' \in [Session -> Call] /\ call'[s] = d /\ \A x \in Session : x # s => call'[x] = call[x]
  BY <1>1, <1>2, <1>4
<1> QED
  BY <1>1, <1>2, <1>3, <1>5, <1>6, NewCall
-----------------------------------------------------------------------------
(* The actions.                                                            *)
LEMMA UnderWay ==
    ASSUME IInv, NEW s \in Session, call[s].phase # "idle"
    PROVE  /\ call[s] \in Call /\ CallInv(txs, call[s]) /\ call[s].id # 0
           /\ call[s].table \in Table /\ Grown(txs, txs, call[s].id)
           /\ call[s].id <= calls /\ TypeOK
<1>1. TypeOK /\ CallInv(txs, call[s]) /\ Ids
  BY DEF IInv
<1> QED
  BY <1>1, SameTxs DEF TypeOK, CallInv, Going, Ids

LEMMA LoadTableInv ==
    ASSUME IInv, NEW t \in Table, LoadTable(t)
    PROVE  IInv'
<1>1. TypeOK /\ txs \in Seq(Tx) /\ 0 \in Nonce
  BY ModulusAssumption DEF IInv, TypeOK, Nonce
<1>2. nonce' \in [Table -> Nonce]
  BY <1>1, LatestType DEF LoadTable, Updated, TypeOK
<1>3. TypeOK'
  BY <1>1, <1>2 DEF TypeOK, LoadTable
<1>4. UNCHANGED <<txs, calls, call>>
  BY DEF LoadTable
<1> QED
  BY <1>3, <1>4 DEF IInv, Ids

LEMMA MineInv ==
    ASSUME IInv, NEW i \in DOMAIN txs, Mine(i)
    PROVE  IInv'
<1>1. TypeOK /\ Ids /\ UNCHANGED <<open, nonce, calls, call>>
  BY DEF IInv, Mine
<1>2. Grown(txs, txs', MaxCalls + 1) /\ DOMAIN txs' = DOMAIN txs
  BY <1>1, MineGrown
<1>3. txs[i] \in Tx
  BY <1>1, ElementOfSeq, LenProperties DEF TypeOK
<1>4. writer' \in [Table -> [Key -> 0..MaxCalls]]
  <2>1. CASE UNCHANGED writer
    BY <1>1, <2>1 DEF TypeOK
  <2>2. CASE writer' = [writer EXCEPT ![txs[i].table] = [k \in Key |->
                IF k \notin txs[i].keys THEN @[k]
                ELSE IF txs[i].put THEN txs[i].call ELSE 0]]
    <3>1. txs[i].table \in Table /\ txs[i].call \in 0..MaxCalls /\ 0 \in 0..MaxCalls
      BY <1>3, CountsAssumption DEF Tx
    <3> QED
      BY <1>1, <2>2, <3>1 DEF TypeOK
  <2> QED
    BY <2>1, <2>2 DEF Mine
<1>5. TypeOK'
  BY <1>1, <1>2, <1>4 DEF TypeOK, Grown
<1>6. Ids'
  BY <1>1, <1>2 DEF Ids, Grown
<1>7. \A s \in Session : CallInv(txs', call[s])
  <2> SUFFICES ASSUME NEW s \in Session PROVE CallInv(txs', call[s])
    OBVIOUS
  <2>1. CallInv(txs, call[s]) /\ call[s].id # MaxCalls + 1
    BY <1>1, CountsAssumption DEF IInv, TypeOK, Call
  <2> QED
    BY <1>2, <2>1, CallStays
<1>8. (\A s \in Session : CallInv(txs, call[s]))'
  BY <1>1, <1>7
<1> QED
  BY <1>5, <1>6, <1>8 DEF IInv

LEMMA CrashInv ==
    ASSUME IInv, Crashed(txs)
    PROVE  IInv'
<1>1. Grown(txs, txs, 0) /\ 0 <= calls
  BY SameTxs DEF IInv, TypeOK
<1> QED
  BY <1>1, ServerDies

LEMMA UpdateNonceInv ==
    ASSUME IInv, NEW s \in Session, NEW r \in Request, UpdateNonce(s, r)
    PROVE  IInv'
<1> DEFINE c == call[s]
<1>1. /\ c \in Call /\ CallInv(txs, c) /\ c.id # 0 /\ c.table \in Table
      /\ Grown(txs, txs, c.id) /\ TypeOK
  BY UnderWay DEF UpdateNonce
<1>2. PICK n \in Updated(nonce[call[s].table]) :
        /\ nonce' = [nonce EXCEPT ![call[s].table] = n]
        /\ call' = [call EXCEPT ![s] =
                Seen([@ EXCEPT !.alone = call[s].alone /\ n = LatestNonce], r)]
  BY Zenon DEF UpdateNonce
<1> DEFINE b == [call[s] EXCEPT !.alone = call[s].alone /\ n = LatestNonce]
<1>3. n \in Nonce
  BY <1>1, LatestType DEF Updated, TypeOK
<1>4. nonce' \in [Table -> Nonce]
  BY <1>1, <1>2, <1>3 DEF TypeOK
<1>5. b \in Call /\ SameCall(b, c) /\ b.failed = c.failed
  BY <1>1 DEF Call, SameCall
<1>6. c.phase = "update" /\ r \in c.todo /\ UNCHANGED <<txs, writer, open, calls>>
  BY DEF UpdateNonce
<1>7. call' = [call EXCEPT ![s] = Seen(b, r)]
  BY <1>2
<1> HIDE DEF b, c
<1>8. Seen(b, r) \in Call /\ Seen(b, r).id = c.id /\ CallInv(txs, Seen(b, r))
  BY <1>1, <1>5, <1>6, NonceTurn
<1> QED
  BY <1>1, <1>4, <1>6, <1>7, <1>8, OneCall DEF c

LEMMA SignInv ==
    ASSUME IInv, NEW s \in Session, NEW r \in Request, Sign(s, r)
    PROVE  IInv'
<1> DEFINE c == call[s]
           n == Incremented(nonce[c.table])
           b == [c EXCEPT !.nonces[r] = n]
<1>1. /\ c \in Call /\ CallInv(txs, c) /\ c.id # 0 /\ c.table \in Table
      /\ Grown(txs, txs, c.id) /\ TypeOK
  BY UnderWay DEF Sign
<1>2. /\ c.phase = "sign" /\ r \in c.todo /\ UNCHANGED <<txs, writer, open, calls>>
      /\ nonce' = [nonce EXCEPT ![c.table] = n]
      /\ call' = [call EXCEPT ![s] = Seen(b, r)]
  BY DEF Sign
<1>3. n \in Nonce
  <2>1. nonce[c.table] \in Nonce
    BY <1>1 DEF TypeOK
  <2> QED
    BY <2>1, IncrementedType
<1>4. nonce' \in [Table -> Nonce]
  BY <1>1, <1>2, <1>3 DEF TypeOK
<1> HIDE DEF n
<1>5. b \in Call /\ SameCall(b, c) /\ b.failed = c.failed
  BY <1>1, <1>3 DEF Call, SameCall
<1> HIDE DEF b, c
<1>6. Seen(b, r) \in Call /\ Seen(b, r).id = c.id /\ CallInv(txs, Seen(b, r))
  BY <1>1, <1>2, <1>5, NonceTurn
<1> QED
  BY <1>1, <1>2, <1>4, <1>6, OneCall DEF c

LEMMA SendInv ==
    ASSUME IInv, NEW s \in Session, NEW r \in Request, Send(s, r)
    PROVE  IInv'
<1> DEFINE c == call[s]
           n == Len(txs) + 1
           b == [c EXCEPT !.sent[r] = n]
<1>1. /\ c \in Call /\ CallInv(txs, c) /\ c.id # 0 /\ TypeOK
  BY UnderWay DEF Send
<1>2. /\ c.phase = "send" /\ r \in c.todo /\ UNCHANGED <<writer, open, nonce, calls>>
      /\ txs' = Accepted(s, r)
      /\ call' = [call EXCEPT ![s] = Seen(b, r)]
  BY DEF Send
<1>3. /\ Grown(txs, txs', c.id) /\ DOMAIN txs' = DOMAIN txs \cup {n}
      /\ n \notin DOMAIN txs /\ txs'[n].call = c.id /\ txs'[n].keys = r
  BY <1>1, <1>2, AcceptedGrown DEF CallInv
<1>4. n \in Nat
  BY <1>1, LenProperties DEF TypeOK
<1> HIDE DEF n
<1>5. b \in Call /\ SameCall(b, c) /\ b.failed = c.failed /\ b.sent = [c.sent EXCEPT ![r] = n]
  BY <1>1, <1>4 DEF Call, SameCall
<1> HIDE DEF b, c
<1>6. Seen(b, r) \in Call /\ Seen(b, r).id = c.id /\ CallInv(txs', Seen(b, r))
  BY <1>1, <1>2, <1>3, <1>4, <1>5, SendTurn
<1>7. nonce' \in [Table -> Nonce]
  BY <1>1, <1>2 DEF TypeOK
<1> QED
  BY <1>1, <1>2, <1>3, <1>6, <1>7, OneCall DEF c

LEMMA SendThrowsInv ==
    ASSUME IInv, NEW s \in Session, NEW r \in Request, SendThrows(s, r)
    PROVE  IInv'
<1>1. call[s].phase = "send" /\ (Crashed(txs) \/ Crashed(Accepted(s, r)))
  BY DEF SendThrows
<1>2. TypeOK /\ call[s].id # 0 /\ Going(call[s]) /\ call[s].id <= calls
  BY <1>1, UnderWay DEF CallInv
<1>3. Grown(txs, Accepted(s, r), call[s].id)
  BY <1>1, <1>2, AcceptedGrown
<1> QED
  BY <1>1, <1>2, <1>3, CrashInv, ServerDies

LEMMA ReceiptInv ==
    ASSUME IInv, NEW s \in Session, NEW r \in Request, Receipt(s, r)
    PROVE  IInv'
<1> DEFINE c == call[s]
           tx == txs[c.sent[r]]
<1>1. /\ c \in Call /\ CallInv(txs, c) /\ c.id # 0 /\ Grown(txs, txs, c.id) /\ TypeOK
  BY UnderWay DEF Receipt
<1>2. PICK ok \in {tx.status = "success"} \cup
                    IF "answer" \in Faults THEN {FALSE} ELSE {} :
        call' = [call EXCEPT ![s] =
                    Seen([@ EXCEPT !.failed = call[s].failed
                                       \cup IF ok THEN {} ELSE r], r)]
  BY Zenon DEF Receipt
<1>3. ok => tx.status = "success"
  BY <1>2
<1> DEFINE b == [c EXCEPT !.failed = c.failed \cup IF ok THEN {} ELSE r]
<1>4. c.phase = "check" /\ r \in c.todo /\ UNCHANGED <<txs, writer, open, nonce, calls>>
  BY DEF Receipt
<1>5. call' = [call EXCEPT ![s] = Seen(b, r)]
  BY <1>2
<1>6. /\ b \in Call /\ SameCall(b, c) /\ b.sent = c.sent
      /\ (b.failed = c.failed /\ tx.status = "success") \/ b.failed = c.failed \cup r
  <2>1. r \in SUBSET Key
    BY DEF Request
  <2>2. CASE ok
    <3>1. b = [c EXCEPT !.failed = c.failed]
      BY <2>2
    <3> QED
      BY <1>1, <1>3, <2>2, <3>1 DEF Call, SameCall
  <2>3. CASE ~ok
    <3>1. b = [c EXCEPT !.failed = c.failed \cup r]
      BY <2>3
    <3> QED
      BY <1>1, <2>1, <3>1 DEF Call, SameCall
  <2> QED
    BY <2>2, <2>3
<1> HIDE DEF b, c
<1>7. Seen(b, r) \in Call /\ Seen(b, r).id = c.id /\ CallInv(txs, Seen(b, r))
  BY <1>1, <1>4, <1>6, ReceiptTurn
<1>8. nonce' \in [Table -> Nonce]
  BY <1>1, <1>4 DEF TypeOK
<1> QED
  BY <1>1, <1>4, <1>5, <1>7, <1>8, OneCall DEF c

LEMMA ReturnPutInv ==
    ASSUME IInv, NEW s \in Session, ReturnPut(s)
    PROVE  IInv'
<1>1. /\ call[s] \in Call /\ CallInv(txs, call[s]) /\ call[s].id # 0
      /\ Grown(txs, txs, call[s].id) /\ TypeOK
  BY UnderWay DEF ReturnPut
<1>2. PICK B \in Erased(call[s]) : call' = [call EXCEPT ![s] = Returned(call[s], 1, B)]
  BY DEF ReturnPut
<1>3. /\ call[s].phase = "return" /\ call[s].op = "put"
      /\ UNCHANGED <<txs, writer, open, nonce, calls>>
  BY DEF ReturnPut
<1> DEFINE d == Returned(call[s], 1, B)
<1>4. d \in Call /\ d.id = call[s].id /\ CallInv(txs, d)
  BY <1>1, <1>3, ReturnPutTurn
<1>5. nonce' \in [Table -> Nonce]
  BY <1>1, <1>3 DEF TypeOK
<1> HIDE DEF d
<1>6. call' = [call EXCEPT ![s] = d]
  BY <1>2 DEF d
<1> QED
  BY <1>1, <1>3, <1>4, <1>5, <1>6, OneCall

LEMMA ReturnInv ==
    ASSUME IInv, NEW s \in Session, Return(s)
    PROVE  IInv'
<1> DEFINE c == call[s]
           n == IF c.op = "remove" /\ c.failed # {} THEN 1 ELSE 0
           d == Returned(c, n, c.batch)
<1>1. c \in Call /\ CallInv(txs, c) /\ c.id # 0 /\ Grown(txs, txs, c.id) /\ TypeOK
  BY UnderWay DEF Return
<1>2. /\ c.phase = "return" /\ ~(c.op = "put" /\ c.failed # {})
      /\ UNCHANGED <<txs, writer, open, nonce, calls>>
      /\ call' = [call EXCEPT ![s] = d]
  BY DEF Return
<1>3. nonce' \in [Table -> Nonce]
  BY <1>1, <1>2 DEF TypeOK
<1>4. d \in Call /\ d.id = c.id /\ CallInv(txs, d)
  BY <1>1, <1>2, ReturnTurn
<1> HIDE DEF d
<1> QED
  BY <1>1, <1>2, <1>3, <1>4, OneCall

LEMMA NextRemoveInv ==
    ASSUME IInv, NEW s \in Session, NextRemove(s)
    PROVE  IInv'
<1> DEFINE c == call[s]
           h == c.alone /\ Pending = {}
<1>1. c \in Call /\ CallInv(txs, c) /\ c.id # 0 /\ Grown(txs, txs, c.id) /\ TypeOK
  BY UnderWay DEF NextRemove
<1>2. PICK k \in c.rest : call' = [call EXCEPT ![s] = [c EXCEPT
            !.phase = "update", !.batch = {k}, !.rest = c.rest \ {k},
            !.todo = {{k}}, !.sent = NoCall.sent, !.nonces = NoCall.nonces,
            !.alone = h]]
  BY DEF NextRemove
<1>3. c.phase = "return" /\ UNCHANGED <<txs, writer, open, nonce, calls>>
  BY DEF NextRemove
<1>4. nonce' \in [Table -> Nonce]
  BY <1>1, <1>3 DEF TypeOK
<1>5. h \in BOOLEAN
  OBVIOUS
<1> HIDE DEF h
<1> DEFINE d == [c EXCEPT !.phase = "update", !.batch = {k}, !.rest = c.rest \ {k},
                          !.todo = {{k}}, !.sent = NoCall.sent,
                          !.nonces = NoCall.nonces, !.alone = h]
<1>6. d \in Call /\ d.id = c.id /\ CallInv(txs, d)
  BY <1>1, <1>3, <1>5, NextRemoveTurn
<1>7. call' = [call EXCEPT ![s] = d]
  BY <1>2
<1> HIDE DEF d
<1> QED
  BY <1>1, <1>3, <1>4, <1>6, <1>7, OneCall

LEMMA BeginInv ==
    ASSUME IInv, NEW s \in Session, NEW t \in Table, Begin(s, t)
    PROVE  IInv'
<1>1. ASSUME NEW B \in SUBSET Key, Put(s, t, B) PROVE IInv'
  <2>1. Start(s, "put", t, B, {}) => IInv'
    BY StartInv DEF Op
  <2>2. Refused(s, "put", t, B, 1) => IInv'
    BY RefusedInv DEF Op
  <2> QED
    BY <1>1, <2>1, <2>2 DEF Put
<1>2. ASSUME NEW B \in SUBSET Key, PutBatch(s, t, B) PROVE IInv'
  BY <1>2, StartInv DEF PutBatch, Op
<1>3. ASSUME NEW k \in Key, Remove(s, t, k) PROVE IInv'
  BY <1>3, StartInv DEF Remove, Op
<1>4. ASSUME DropTable(s, t) PROVE IInv'
  <2>1. ASSUME NEW k \in Present(t), Start(s, "drop_table", t, {k}, Present(t) \ {k})
        PROVE  IInv'
    <3>1. {k} \in SUBSET Key /\ Present(t) \ {k} \in SUBSET Key
      BY DEF Present
    <3> QED
      BY <2>1, <3>1, StartInv DEF Op
  <2>2. ASSUME Refused(s, "drop_table", t, {}, 0) PROVE IInv'
    BY <2>2, RefusedInv DEF Op
  <2> QED
    BY <1>4, <2>1, <2>2 DEF DropTable
<1> QED
  BY <1>1, <1>2, <1>3, <1>4 DEF Begin

LEMMA StepInv ==
    ASSUME IInv, NEW s \in Session, Step(s)
    PROVE  IInv'
<1>1. ASSUME NEW r \in Request,
             UpdateNonce(s, r) \/ Sign(s, r) \/ Send(s, r) \/ SendThrows(s, r) \/ Receipt(s, r)
      PROVE  IInv'
  BY <1>1, UpdateNonceInv, SignInv, SendInv, SendThrowsInv, ReceiptInv
<1>2. ReturnPutFaults(s) => IInv'
  BY CrashInv DEF ReturnPutFaults
<1> QED
  BY <1>1, <1>2, ReturnPutInv, ReturnInv, NextRemoveInv DEF Step
-----------------------------------------------------------------------------
(* The invariant, and what follows from it.                                *)
LEMMA InitInv == Init => IInv
<1> SUFFICES ASSUME Init PROVE IInv
  OBVIOUS
<1>1. 0 \in Nonce /\ 0 \in 0..MaxCalls /\ <<>> \in Seq(Tx)
  BY ModulusAssumption, CountsAssumption DEF Nonce
<1>2. TypeOK
  BY <1>1, NoCallInv DEF Init, TypeOK
<1>3. Ids
  BY NoCallInv DEF Init, Ids
<1> QED
  BY <1>2, <1>3, NoCallInv DEF Init, IInv

LEMMA NextInv == IInv /\ [Next]_vars => IInv'
<1> SUFFICES ASSUME IInv, [Next]_vars PROVE IInv'
  OBVIOUS
<1>1. CASE UNCHANGED vars
  BY <1>1 DEF vars, IInv, TypeOK, Ids
<1>2. CASE Next
  BY <1>2, LoadTableInv, BeginInv, StepInv, MineInv, CrashInv DEF Next, Crash
<1> QED
  BY <1>1, <1>2

(* What holds of the calls and the transactions after every step.          *)
THEOREM Invariance == Spec => []IInv
BY InitInv, NextInv, PTL DEF Spec

(* Every variable keeps its type: the unsigned nonces stay below 2^64, and *)
(* the calls of all sessions keep their form through all their loops.      *)
THEOREM TypeCorrect == Spec => []TypeOK
<1>1. IInv => TypeOK
  BY DEF IInv
<1> QED
  BY <1>1, Invariance, PTL

(* put and remove return 0 only if each of their keys has a transaction    *)
(* that succeeded: sendRpcBatch puts every key into failed_transactions    *)
(* whose receipt does not say so, and an unsent one throws before.         *)
THEOREM ZeroIsDone == Spec => []ZeroMeansDone
<1>1. IInv => ZeroMeansDone
  <2>1. SUFFICES ASSUME IInv, NEW s \in Session, ~Running(s),
                        call[s].op \in {"put", "remove"}, call[s].result = 0,
                        NEW k \in call[s].batch
                 PROVE  WroteKey(call[s].id, k)
    BY DEF ZeroMeansDone
  <2>2. Wrote(txs, call[s].id, k)
    BY <2>1 DEF IInv, CallInv, DoneZero, Running
  <2> QED
    BY <2>2 DEF Wrote, WroteKey
<1> QED
  BY <1>1, Invariance, PTL

(* Whatever elements the loop of put over the failed keys erases or passes *)
(* over, it leaves those that failed, and what it erased is stored.        *)
THEOREM LeavingIsStored == Spec => []OnlyStoredLeave
<1>1. IInv => OnlyStoredLeave
  <2>1. SUFFICES ASSUME IInv, NEW s \in Session, ~Running(s),
                        call[s].op = "put", call[s].result = 1
                 PROVE  /\ call[s].failed \subseteq call[s].batch
                        /\ \A i \in DOMAIN txs : txs[i].call = call[s].id =>
                              \A k \in txs[i].keys \ call[s].batch :
                                  WroteKey(call[s].id, k)
    BY DEF OnlyStoredLeave
  <2>2. DoneOne(txs, call[s]) /\ call[s].phase = "idle"
    BY <2>1 DEF IInv, CallInv, Running
  <2> QED
    BY <2>1, <2>2 DEF DoneOne, Wrote, WroteKey
<1> QED
  BY <1>1, Invariance, PTL
=============================================================================
