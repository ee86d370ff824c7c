--------------------------- MODULE KeyValueStore ---------------------------
(***************************************************************************)
(* What a table contract promises to its callers: a map from keys to       *)
(* values, from which only a stored key can be removed, and on which the   *)
(* writes of a batch take effect all together, in their order, or not at   *)
(* all.  TableStorage.tla is shown to implement it.                        *)
(***************************************************************************)
EXTENDS Naturals, Sequences

CONSTANTS
    Key,        \* the keys of a table
    Value,      \* the values a key can be given
    NoValue     \* what the store holds for an absent key

VARIABLES
    store,
    open,       \* a batch has been asked for and is not answered yet
    keys,       \* its keys
    values      \* the value for each of them

vars == <<store, open, keys, values>>

Contents == [Key -> Value \cup {NoValue}]

Init ==
    /\ store = [k \in Key |-> NoValue]
    /\ open = FALSE
    /\ keys = <<>>
    /\ values = <<>>

Put(k, v) ==
    /\ ~open
    /\ store' = [store EXCEPT ![k] = v]
    /\ UNCHANGED <<open, keys, values>>

Remove(k) ==
    /\ ~open
    /\ store[k] # NoValue
    /\ store' = [store EXCEPT ![k] = NoValue]
    /\ UNCHANGED <<open, keys, values>>

Begin ==
    /\ ~open
    /\ open'
    /\ keys' \in Seq(Key)
    /\ values' \in Seq(Value)
    /\ UNCHANGED store

\* new is old after the first n writes of the batch: of several writes of one
\* key the last stays.
Written(old, new, n) ==
    /\ \A k \in Key : (\A m \in 1..n : keys[m] # k) => new[k] = old[k]
    /\ \A m \in 1..n :
          (\A l \in (m + 1)..n : keys[l] # keys[m]) => new[keys[m]] = values[m]

End ==
    /\ open
    /\ ~open'
    /\ keys' = <<>>
    /\ values' = <<>>

Apply ==
    /\ End
    /\ Len(keys) <= Len(values)
    /\ store' \in Contents
    /\ Written(store, store', Len(keys))

Abort == End /\ UNCHANGED store

Next ==
    \/ \E k \in Key, v \in Value : Put(k, v)
    \/ \E k \in Key : Remove(k)
    \/ Begin
    \/ Apply
    \/ Abort

Spec == Init /\ [][Next]_vars
=============================================================================
