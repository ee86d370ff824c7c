----------------------------- MODULE PrimaryKey -----------------------------
(***************************************************************************)
(* The key of a row: write_row hashes the bytes that the columns of the    *)
(* primary key have in the row, index_read the bytes of the index key that *)
(* MySQL hands it, after it has adjusted them.  A lookup finds a row when  *)
(* the bytes are the same.                                                 *)
(*                                                                         *)
(* External: the formats.  A VARCHAR of n characters of c bytes has in a   *)
(* row one byte of length if n * c <= ShortMax (255), else two, and then   *)
(* its text in n * c bytes; in an index key always two bytes of length.    *)
(* Other columns are the same in both.  A text is any bytes, 0 too: so it  *)
(* is in VARBINARY, ucs2, utf16 and utf32, and for a '\0' in any charset.  *)
(* What follows a text is zeros.                                           *)
(***************************************************************************)
EXTENDS Integers, Sequences, SequencesExt

CONSTANTS
    CharBytes,      \* the bytes of a character in the charsets of the columns
    Chars,          \* the declared lengths of VARCHAR columns
    ShortMax,       \* the greatest value of a byte
    NumberSize,     \* the bytes of a number
    Text            \* the texts and numbers that are stored or looked up

ASSUME CharAssumption == CharBytes \subseteq Nat \ {0} /\ Chars \subseteq Nat \ {0}
ASSUME NumberAssumption == NumberSize \in Nat \ {0}
ASSUME TextAssumption == ShortMax \in Nat /\ Text \subseteq Seq(0..ShortMax)

VARIABLES
    parts,          \* the columns of the primary key
    row,            \* the key of the row in the table
    sought,         \* the key that is looked up
    found           \* "none", or whether index_read found the row

keyVars == <<parts, row, sought, found>>

Varchar(n, c) == [type |-> "VARCHAR", prefix |-> IF n * c <= ShortMax THEN 1 ELSE 2,
                  size |-> n * c]
Number == [type |-> "LONG", prefix |-> 0, size |-> NumberSize]
Part == {Varchar(n, c) : n \in Chars, c \in CharBytes} \cup {Number}

\* The contents of a column: a text that fits, or a number.
Texts(p) == {t \in Text : IF p.type = "LONG" THEN Len(t) = p.size ELSE Len(t) <= p.size}
Keys(ps) == IF Len(ps) = 1 THEN {<<t>> : t \in Texts(ps[1])}
            ELSE {<<t, u>> : t \in Texts(ps[1]), u \in Texts(ps[2])}

\* Wrongly: without the bytes of length.
pack_length_TextOnly(p) == p.size
pack_length(p) == p.prefix + p.size
Blanks(n) == [i \in 1..n |-> 0]

-----------------------------------------------------------------------------
(* Formats. *)

\* The length of a text in n bytes, the lowest first.
Low(text) == Len(text) % (ShortMax + 1)
High(text) == Len(text) \div (ShortMax + 1)
LengthBytes(text, n) == SubSeq(<<Low(text), High(text)>>, 1, n)
Filled(p, text) == text \o Blanks(p.size - Len(text))
RowBytes(p, text) == LengthBytes(text, p.prefix) \o Filled(p, text)
IndexBytes(p, text) ==
    LengthBytes(text, IF p.type = "VARCHAR" THEN 2 ELSE 0) \o Filled(p, text)

RowBuffer(ps, key) == FlattenSeq([i \in DOMAIN ps |-> RowBytes(ps[i], key[i])])
IndexKey(ps, key) == FlattenSeq([i \in DOMAIN ps |-> IndexBytes(ps[i], key[i])])

\* Where column i begins when columns are as long as in a row.
Position(ps, i) ==
    LET at[j \in 1..(Len(ps) + 1)] ==
          IF j = 1 THEN 0 ELSE at[j - 1] + pack_length(ps[j - 1])
    IN at[i]
\* The size of the key (wrongly: of its last column).
KeySize_Last(ps) == pack_length(ps[Len(ps)])
KeySize(ps) == Position(ps, Len(ps) + 1)

-----------------------------------------------------------------------------
(* The two ways to the key. *)

\* The columns of the primary key, one after the other.
get_primary_key(ps, key) ==
    LET buf == RowBuffer(ps, key) IN
    FlattenSeq([i \in DOMAIN ps |->
        SubSeq(buf, Position(ps, i) + 1, Position(ps, i) + pack_length(ps[i]))])

\* A VARCHAR whose size says that it has one byte of length (wrongly: any).
Adjusted_Always(p) == p.type = "VARCHAR"
Adjusted(p) == p.type = "VARCHAR" /\ pack_length(p) % 4 = 1

\* The second byte of column i goes, what follows moves to the front; the last
\* byte stays where it was (wrongly: the first byte goes).
Shifted_First(bytes, at) ==
    SubSeq(bytes, 1, at) \o SubSeq(bytes, at + 2, Len(bytes)) \o <<bytes[Len(bytes)]>>
Shifted(bytes, at) ==
    SubSeq(bytes, 1, at + 1) \o SubSeq(bytes, at + 3, Len(bytes)) \o <<bytes[Len(bytes)]>>

\* The index key after the loop over the columns, cut to their size in a row.
KeyAdj(ps, key) ==
    LET adj[i \in 0..Len(ps)] ==
          IF i = 0 THEN IndexKey(ps, key)
          ELSE IF Adjusted(ps[i]) THEN Shifted(adj[i - 1], Position(ps, i))
          ELSE adj[i - 1]
    IN SubSeq(adj[Len(ps)], 1, KeySize(ps))

-----------------------------------------------------------------------------

KeyTypeOK ==
    /\ parts \in {<<p>> : p \in Part} \cup (Part \X Part)
    /\ row \in Keys(parts)
    /\ sought \in Keys(parts)
    /\ found \in {"none", "yes", "no"}
    /\ Len(KeyAdj(parts, sought)) = Len(get_primary_key(parts, row))

KeyInit ==
    /\ parts \in {<<p>> : p \in Part} \cup (Part \X Part)
    /\ row \in Keys(parts) /\ sought \in Keys(parts)
    /\ found = "none"

\* A different hash for different bytes.
index_read ==
    /\ found = "none"
    /\ found' = IF KeyAdj(parts, sought) = get_primary_key(parts, row) THEN "yes" ELSE "no"
    /\ UNCHANGED <<parts, row, sought>>

KeySpec == KeyInit /\ [][index_read]_keyVars

-----------------------------------------------------------------------------
(* Properties *)

\* "key_size % 4 will give us either 1 or 2 and therefore we know in which range
\* the key size falls" (index_read): so it is for characters of four bytes, and
\* for others only by chance.
SizeTells(p) == p.type = "VARCHAR" => (pack_length(p) % 4 = 1 <=> p.prefix = 1)

\* Where the size of each VARCHAR tells the format of its length, alone, in either
\* place of a key of two columns, and of either format, a lookup finds the row it
\* asks for and no other, whatever bytes the texts have and however long they are.
LookupExact ==
    (found # "none" /\ \A i \in DOMAIN parts : SizeTells(parts[i])) =>
        (found = "yes" <=> sought = row)

\* Where the size of the only column misleads, what the loop of index_read leaves is
\* the text moved by one byte against that of a row.  With one byte of length, the
\* second one stays: VARBINARY(3) 'abX' finds '\0ab'.  With two, the second one goes
\* though a row has it: the first byte of the text stands in its place.
MisledExact ==
    (found # "none" /\ Len(parts) = 1 /\ ~SizeTells(parts[1])) =>
        LET old == Filled(parts[1], row[1])
            new == Filled(parts[1], sought[1])
        IN found = "yes" <=>
             /\ Low(sought[1]) = Low(row[1])
             /\ IF parts[1].prefix = 1 THEN old = <<0>> \o Front(new)
                ELSE new = <<High(row[1])>> \o Front(old) /\ Last(new) = Last(old)

\* A number behind a VARCHAR whose size misleads: it is taken from a byte too far
\* on or too far back, and as numbers have bytes of 0, ('', 1) finds ('', 256).
Displaced(ps) ==
    \E i, j \in DOMAIN ps : i < j /\ ~SizeTells(ps[i]) /\ ps[j].type = "LONG"

\* The texts have no byte of 0, and their length is in the lower of its bytes.
Plain(ps, key) ==
    \A i \in DOMAIN ps : ps[i].type = "VARCHAR" =>
        Len(key[i]) <= ShortMax /\ \A j \in DOMAIN key[i] : key[i][j] # 0

\* Whatever the sizes, and in keys of two columns too, a lookup with plain texts
\* takes no row with plain texts for another, unless a number is displaced.
NoWrongRow ==
    (found = "yes" /\ ~Displaced(parts) /\ Plain(parts, row) /\ Plain(parts, sought)) =>
        sought = row

=============================================================================
