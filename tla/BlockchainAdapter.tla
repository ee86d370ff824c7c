------------------------- MODULE BlockchainAdapter -------------------------
(***************************************************************************)
(* What a caller of the interface BcAdapter can count on (adapter_         *)
(* interface.h), whatever blockchain is behind it: a call writes each of   *)
(* its keys at most once, a put or a remove that returns 0 has written all *)
(* of them, and a call that failed or was cut off by a crash may still     *)
(* write some of them later.  Nonces, transactions and polling do not      *)
(* appear; EthereumAdapter.tla implements this.                            *)
(***************************************************************************)
EXTENDS Integers, FiniteSets

CONSTANTS
    Session, Table, Key,
    MaxCalls        \* bound: calls made

VARIABLES
    writer,         \* [Table -> [Key -> Nat]]: the call that wrote the value
                    \* of a key, 0 when the key is absent
    calls,          \* how many calls were made
    active,         \* the call each session is in, 0 when in none
    asked,          \* what that call is, and which keys it must write
    owed,           \* writes that can still happen
    done,           \* writes that have happened
    result          \* what the last call of each session returned

avars == <<writer, calls, active, asked, owed, done, result>>

Op == {"put", "put_batch", "remove", "drop_table"}
NoAsk == [op |-> "none", keys |-> {}]
Write == [call : 1..MaxCalls, table : Table, key : Key, put : BOOLEAN]

Writes(c, t, op, B) ==
    {[call |-> c, table |-> t, key |-> k,
      put |-> op \in {"put", "put_batch"}] : k \in B}

Init ==
    /\ writer = [t \in Table |-> [k \in Key |-> 0]]
    /\ calls = 0
    /\ active = [s \in Session |-> 0]
    /\ asked = [s \in Session |-> NoAsk]
    /\ owed = {}
    /\ done = {}
    /\ result = [s \in Session |-> 0]

\* A call begins; from now on each of its writes may happen.
Begin(s, t, op, B) ==
    /\ active[s] = 0 /\ calls < MaxCalls
    /\ calls' = calls + 1
    /\ active' = [active EXCEPT ![s] = calls + 1]
    /\ asked' = [asked EXCEPT ![s] =
                    [op |-> op, keys |-> IF op \in {"put", "remove"} THEN B ELSE {}]]
    /\ owed' = owed \cup Writes(calls + 1, t, op, B)
    /\ result' = [result EXCEPT ![s] = 0]
    /\ UNCHANGED <<writer, done>>

\* A call ends at once, without an effect.
Refuse(s, r) ==
    /\ active[s] = 0 /\ calls < MaxCalls
    /\ calls' = calls + 1
    /\ result' = [result EXCEPT ![s] = r]
    /\ asked' = [asked EXCEPT ![s] = NoAsk]
    /\ UNCHANGED <<writer, active, owed, done>>

\* Writes of one transaction happen.
Take(E) ==
    /\ E # {} /\ E \subseteq owed
    /\ writer' = [t \in Table |-> [k \in Key |->
                    IF \E w \in E : w.table = t /\ w.key = k
                    THEN LET w == CHOOSE w \in E : w.table = t /\ w.key = k
                         IN IF w.put THEN w.call ELSE 0
                    ELSE writer[t][k]]]
    /\ owed' = owed \ E
    /\ done' = done \cup E
    /\ UNCHANGED <<calls, active, asked, result>>

\* Writes turn out never to happen.
Lose(E) ==
    /\ owed' = owed \ E
    /\ UNCHANGED <<writer, calls, active, asked, done, result>>

\* Result 0 of put and remove: every key was written.  put_batch and
\* drop_table return 0 whatever happened.
Truthful(s, r) ==
    (r = 0 /\ asked[s].op \in {"put", "remove"}) =>
        \A k \in asked[s].keys : \E w \in done : w.call = active[s] /\ w.key = k

Return(s, r) ==
    /\ active[s] # 0
    /\ Truthful(s, r)
    /\ active' = [active EXCEPT ![s] = 0]
    /\ asked' = [asked EXCEPT ![s] = NoAsk]
    /\ result' = [result EXCEPT ![s] = r]
    /\ UNCHANGED <<writer, calls, owed, done>>

\* The process dies; the writes under way may still happen.
Crash(E) ==
    /\ active' = [s \in Session |-> 0]
    /\ asked' = [s \in Session |-> NoAsk]
    /\ result' = [s \in Session |-> 0]
    /\ owed' = owed \ E
    /\ UNCHANGED <<writer, calls, done>>

Next ==
    \/ \E s \in Session, t \in Table, op \in Op, B \in SUBSET Key : Begin(s, t, op, B)
    \/ \E s \in Session, r \in {0, 1} : Refuse(s, r) \/ Return(s, r)
    \/ \E E \in SUBSET owed : Take(E) \/ Lose(E) \/ Crash(E)

Spec == Init /\ [][Next]_avars
=============================================================================
