------------------------------ MODULE ScanCodec ------------------------------
(***************************************************************************)
(* How rows travel: put and put_batch code them as the data of a           *)
(* transaction, the contract's get and tableScan answer in hexadecimal,    *)
(* and get and split decode the answers.  A text is a sequence of          *)
(* hexadecimal digits, a value a sequence of bytes; a word, 64 digits in   *)
(* the code, has W.  The contract's side is the coding that Solidity's ABI *)
(* gives its arguments and results.                                        *)
(***************************************************************************)
EXTENDS Integers, Sequences, SequencesExt

CONSTANTS
    W,              \* VALUE_SIZE: the digits of a word
    Byte,           \* the bytes that values are made of
    MaxLong, MaxShort   \* bounds: of two values one is long, one short

ASSUME WidthAssumption == W \in {2 * i : i \in 1..32}
ASSUME ByteAssumption == Byte \subseteq 0..255
ASSUME LengthAssumption == MaxLong \in Nat /\ MaxShort \in Nat

VARIABLES
    table,          \* the rows of the contract, in the order of keyList
    op,             \* the operation that ran
    result          \* what its decoder made of them: rows, or an exception

vars == <<table, op, result>>

Digit == 0..15
WB == W \div 2      \* bytes of a word
Key == {[i \in 1..WB |-> k] : k \in {1, 2}}
Value(max) == UNION {[1..m -> Byte] : m \in 0..max}
Row(max) == [key : Key, value : Value(max)]
Pairs(m, n) == {p \in Row(m) \X Row(n) : p[1].key # p[2].key}
Tables == {<<>>} \cup {<<r>> : r \in Row(MaxLong)}
                 \cup Pairs(MaxLong, MaxShort) \cup Pairs(MaxShort, MaxLong)

TypeOK ==
    /\ table \in Tables
    /\ op \in {"none", "tableScan", "get", "put", "put_batch"}
    /\ result.is \in {"none", "rows", "out_of_range", "runtime_error", "revert"}
    /\ \A r \in result.rows : Len(r.key) = WB /\ r.value \in Seq(0..255)

Failed(e) == [is |-> e, rows |-> {}]
Decoded(rows) == [is |-> "rows", rows |-> rows]

Init == table \in Tables /\ op = "none" /\ result = Failed("none")

Rows(t) == {t[i] : i \in DOMAIN t}

-----------------------------------------------------------------------------
(* Digits, bytes and words. *)

byte_array_to_hex(v) ==
    [i \in 1..(2 * Len(v)) |-> IF i % 2 = 1 THEN v[(i + 1) \div 2] \div 16
                                            ELSE v[i \div 2] % 16]

\* Of an even number of digits (wrongly: a byte for each of them).
hex_to_byte_array_Digits(d) == d
hex_to_byte_array(d) == [i \in 1..(Len(d) \div 2) |-> 16 * d[2 * i - 1] + d[2 * i]]

\* What is left of a number without its last digits.
Rests(n) ==
    LET rest[i \in 0..W] == IF i = 0 THEN n ELSE rest[i - 1] \div 16 IN rest

\* A number in W digits, with leading zeros.
int_to_hex(n) == LET rest == Rests(n) IN [i \in 1..W |-> rest[W - i] % 16]

hex_to_int(d) ==
    LET number[i \in 0..Len(d)] == IF i = 0 THEN 0 ELSE 16 * number[i - 1] + d[i]
    IN number[Len(d)]

\* The length of what travels, with its tokens, is a number of W digits, and an
\* int, which hex_to_int returns.
ASSUME RoomAssumption == \A n \in 0..(MaxLong + MaxShort + 8) : Rests(n)[W] = 0
ASSUME IntAssumption == MaxLong + MaxShort + 8 <= 2147483647

Zeros(n) == [i \in 1..n |-> 0]

\* Zeros behind a short text; a long one is cut.
convert_to_32byte(d) == SubSeq(d \o Zeros(W), 1, W)

Word(text, i) == SubSeq(text, (i - 1) * W + 1, i * W)
From(text, i) == SubSeq(text, (i - 1) * W + 1, Len(text))

\* A value is filled up to whole words.
Padded(d) == d \o Zeros((-Len(d)) % W)

-----------------------------------------------------------------------------
(* tableScan and split. *)

Token == <<2, 3, 2, 3, 2, 3, 2, 3>>     \* "####"

\* The values of the rows, each followed by the token (wrongly: none behind the
\* last).
Joined_Between(t) ==
    FlattenSeq([i \in DOMAIN t |-> byte_array_to_hex(t[i].value)
                                    \o (IF i = Len(t) THEN <<>> ELSE Token)])
Joined(t) == FlattenSeq([i \in DOMAIN t |-> byte_array_to_hex(t[i].value) \o Token])

\* Offsets of the two results, the keys, and the text of all values.
tableScan(t) ==
    int_to_hex(2 * WB) \o int_to_hex((3 + Len(t)) * WB) \o int_to_hex(Len(t))
      \o FlattenSeq([i \in DOMAIN t |-> byte_array_to_hex(t[i].key)])
      \o int_to_hex(Len(Joined(t)) \div 2) \o Padded(Joined(t))

\* Where the token is found, at any digit (wrongly: only at whole bytes).
Found_AtBytes(text, i) == i % 2 = 1 /\ SubSeq(text, i, i + 7) = Token
Found(text, i) == SubSeq(text, i, i + 7) = Token

\* The pieces before each token; what is behind the last one is left.
Pieces(text) ==
    LET cut[p \in 1..(Len(text) + 1)] ==
          LET at == {i \in p..(Len(text) - 7) : Found(text, i)} IN
          IF at = {} THEN <<>>
          ELSE LET i == CHOOSE j \in at : \A k \in at : j <= k
               IN <<SubSeq(text, p, i - 1)>> \o cut[i + 8]
    IN cut[1]

\* Keys from the fourth word on, the values behind the keys and a length.
ValuesAt(n) == n + 5

split(response) ==
    LET n == hex_to_int(Word(response, 3))
        keys == [i \in 1..n |-> Word(response, i + 3)]
        values == Pieces(From(response, ValuesAt(n)))
    IN  IF \E i \in 1..n : i <= Len(values) /\ Len(values[i]) % 2 = 1
        THEN Failed("runtime_error")
        ELSE IF Len(values) < n THEN Failed("out_of_range")
        ELSE Decoded({[key |-> hex_to_byte_array(keys[i]),
                       value |-> hex_to_byte_array(values[i])] : i \in 1..n})

get_all ==
    /\ op = "none" /\ op' = "tableScan"
    /\ result' = split(tableScan(table))
    /\ UNCHANGED table

-----------------------------------------------------------------------------
(* get *)

\* The contract answers an offset, a length and the value.
Answer(v) == int_to_hex(WB) \o int_to_hex(Len(v)) \o Padded(byte_array_to_hex(v))

\* Wrongly: the length is taken as digits.
ValueLength_Digits(d) == hex_to_int(Word(d, 2))
ValueLength(d) == 2 * hex_to_int(Word(d, 2))

DecodedGet(d) == hex_to_byte_array(SubSeq(d, 2 * W + 1, 2 * W + ValueLength(d)))

get ==
    /\ op = "none" /\ op' = "get"
    /\ result' = Decoded({[r EXCEPT !.value = DecodedGet(Answer(@))] : r \in Rows(table)})
    /\ UNCHANGED table

-----------------------------------------------------------------------------
(* put and put_batch, as the contract decodes them. *)

\* ABI: the value whose length is at a byte of the data; it may not end beyond
\* the data.
ValueEnd(data, b) == 2 * b + W + 2 * hex_to_int(SubSeq(data, 2 * b + 1, 2 * b + W))
ValueAt(data, b) == hex_to_byte_array(SubSeq(data, 2 * b + W + 1, ValueEnd(data, b)))

put_data(r) ==
    convert_to_32byte(byte_array_to_hex(r.key)) \o int_to_hex(W)
      \o int_to_hex(Len(r.value)) \o byte_array_to_hex(r.value)

DecodedPut(data) == [key |-> hex_to_byte_array(Word(data, 1)),
                     value |-> ValueAt(data, hex_to_int(Word(data, 2)))]
PutReverts(data) == ValueEnd(data, hex_to_int(Word(data, 2))) > Len(data)

put ==
    /\ op = "none" /\ op' = "put"
    /\ result' = IF \E r \in Rows(table) : PutReverts(put_data(r)) THEN Failed("revert")
                 ELSE Decoded({DecodedPut(put_data(r)) : r \in Rows(table)})
    /\ UNCHANGED table

\* Where the i-th of n values begins, behind the n offsets: each value has a word
\* for its length and one for itself (wrongly: one word).
ValueOffset_OneWord(n, i) == n * WB + WB * (i - 1)
ValueOffset(n, i) == n * WB + 2 * WB * (i - 1)

put_batch_data(t) ==
    int_to_hex(W) \o int_to_hex(Len(t) * WB + 3 * WB) \o int_to_hex(Len(t))
      \o FlattenSeq([i \in DOMAIN t |-> convert_to_32byte(byte_array_to_hex(t[i].key))])
      \o int_to_hex(Len(t))
      \o FlattenSeq([i \in DOMAIN t |-> convert_to_32byte(int_to_hex(ValueOffset(Len(t), i)))])
      \o FlattenSeq([i \in DOMAIN t |-> int_to_hex(Len(t[i].value))
                        \o convert_to_32byte(byte_array_to_hex(t[i].value))])

\* ABI: two arrays at the offsets in the first two words; the values of the
\* second are at offsets from the word behind its length.
DecodedBatch(data) ==
    LET n == hex_to_int(Word(data, 3))
        base == hex_to_int(Word(data, 2)) + WB
        at(i) == base + hex_to_int(Word(data, base \div WB + i))
    IN  IF \E i \in 1..n : ValueEnd(data, at(i)) > Len(data) THEN Failed("revert")
        ELSE Decoded({[key |-> hex_to_byte_array(Word(data, 3 + i)),
                       value |-> ValueAt(data, at(i))] : i \in 1..n})

put_batch ==
    /\ op = "none" /\ op' = "put_batch"
    /\ result' = DecodedBatch(put_batch_data(table))
    /\ UNCHANGED table

Next == get_all \/ get \/ put \/ put_batch

Spec == Init /\ [][Next]_vars

-----------------------------------------------------------------------------
(* Properties *)

\* split finds the end of a value: the first token in the value and the token
\* behind it is that token.
Clean(v) ==
    LET text == byte_array_to_hex(v) \o Token IN
    \A i \in 1..(Len(text) - 8) : SubSeq(text, i, i + 7) # Token

\* split gives back the table exactly when no value hides the token: inside
\* itself, at half a byte, or across its end (a value that ends in '#', or with
\* five '2').
ScanExactlyIfClean ==
    op = "tableScan" =>
        (result = Decoded(Rows(table)) <=> \A r \in Rows(table) : Clean(r.value))

\* Whatever the values hold, split finds a piece for every key: values.at never
\* throws, and every key of the table comes back once.
ScanKeepsKeys ==
    op = "tableScan" =>
        \/ result.is = "runtime_error"
        \/ /\ result.is = "rows"
           /\ {r.key : r \in result.rows} = {r.key : r \in Rows(table)}

\* A value that is written with put, and one that is read with get, is the same
\* on both sides, of any length and any bytes.
OneRowExact == op \in {"get", "put"} => result = Decoded(Rows(table))

\* put_batch writes its rows when no value is longer than a word.
ShortBatchExact ==
    (op = "put_batch" /\ \A r \in Rows(table) : Len(r.value) <= WB)
        => result = Decoded(Rows(table))

=============================================================================
