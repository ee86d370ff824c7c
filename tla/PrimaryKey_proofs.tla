------------------------- MODULE PrimaryKey_proofs -------------------------
(***************************************************************************)
(* Theorems about PrimaryKey: what a lookup finds, for every charset, all  *)
(* declared lengths, and texts and numbers of any bytes.  A key has one or *)
(* two columns, so that the loops over columns are unrolled.               *)
(***************************************************************************)
EXTENDS PrimaryKey, SequenceTheorems, TLAPS

-----------------------------------------------------------------------------
(* Columns and their bytes. *)

Lead(p) == IF p.type = "VARCHAR" THEN 2 ELSE 0
Pad(t, i) == IF i <= Len(t) THEN t[i] ELSE 0

LEMMA PartIs ==
    ASSUME NEW p \in Part
    PROVE  /\ p.size \in Nat \ {0} /\ pack_length(p) = p.prefix + p.size
           /\ \/ p.type = "VARCHAR" /\ p.prefix \in {1, 2}
              \/ p.type = "LONG" /\ p.prefix = 0
           /\ p.type = "VARCHAR" => p.type # "LONG"
           /\ p.prefix = 1 => p.size <= ShortMax
<1>1. CASE p = Number
  BY <1>1, NumberAssumption DEF Number, pack_length
<1>2. ASSUME NEW n \in Chars, NEW c \in CharBytes, p = Varchar(n, c)
      PROVE  /\ p.size \in Nat \ {0} /\ p.type = "VARCHAR" /\ p.prefix \in {1, 2}
             /\ p.prefix = 1 => p.size <= ShortMax
  <2>1. n \in Nat \ {0} /\ c \in Nat \ {0}
    BY CharAssumption
  <2>2. n * c \in Nat \ {0}
    BY <2>1, SMT
  <2> QED  BY <1>2, <2>2 DEF Varchar
<1> QED  BY <1>1, <1>2 DEF Part, pack_length

LEMMA TextIs ==
    ASSUME NEW p \in Part, NEW t \in Texts(p)
    PROVE  /\ t \in Seq(Nat) /\ Len(t) \in Nat /\ Len(t) <= p.size
           /\ p.type = "LONG" => Len(t) = p.size
<1>1. t \in Seq(0..ShortMax) /\ p.size \in Nat
  BY TextAssumption, PartIs DEF Texts
<1>2. 0..ShortMax \subseteq Nat
  BY TextAssumption
<1>3. t \in [1..Len(t) -> Nat] /\ Len(t) \in Nat
  BY <1>1, <1>2, LenProperties
<1> QED  BY <1>1, <1>3 DEF Texts

(* The two bytes of a length are enough to know it.                        *)
LEMMA LowHigh ==
    ASSUME NEW t \in Seq(Nat)
    PROVE  /\ Low(t) \in Nat /\ High(t) \in Nat
           /\ Len(t) = (ShortMax + 1) * High(t) + Low(t)
           /\ Len(t) <= ShortMax => Low(t) = Len(t) /\ High(t) = 0
<1>1. PICK n, b : n = Len(t) /\ b = ShortMax + 1
  OBVIOUS
<1>2. n \in Nat /\ b \in Nat \ {0}
  BY <1>1, TextAssumption, LenProperties
<1>3. n % b \in Nat /\ n \div b \in Nat /\ n = b * (n \div b) + (n % b)
  BY <1>2
<1>4. n < b => n % b = n /\ n \div b = 0
  BY <1>2
<1>5. ShortMax \in Nat
  BY TextAssumption
<1> QED  BY <1>1, <1>2, <1>3, <1>4, <1>5 DEF Low, High

(* Texts of a length that are the same when filled up are the same.        *)
LEMMA FilledDiffer ==
    ASSUME NEW p \in Part, NEW t \in Texts(p), NEW u \in Texts(p), Len(t) = Len(u),
           \A i \in 1..p.size : Pad(t, i) = Pad(u, i)
    PROVE  t = u
<1>1. p.size \in Nat
  BY PartIs
<1>2. t \in Seq(Nat) /\ u \in Seq(Nat) /\ Len(t) \in Nat /\ Len(t) <= p.size
  BY TextIs
<1>3. \A i \in 1..Len(t) : t[i] = u[i]
  BY <1>1, <1>2 DEF Pad
<1> QED  BY <1>2, <1>3, SeqEqual

(* A text without a byte of 0, whose length is in one byte.                *)
PlainText(t) == Len(t) <= ShortMax /\ \A j \in DOMAIN t : t[j] # 0

LEMMA EmptyText ==
    ASSUME NEW p \in Part, NEW t \in Texts(p), PlainText(t), Pad(t, 1) = 0
    PROVE  Len(t) = 0
BY TextIs DEF Pad, PlainText

LEMMA BothEmpty ==
    ASSUME NEW p \in Part, NEW t \in Texts(p), NEW u \in Texts(p), Len(t) = 0, Len(u) = 0
    PROVE  t = u
BY TextIs, SeqEqual

LEMMA BlanksAre ==
    ASSUME NEW n \in Nat
    PROVE  Blanks(n) \in Seq(Nat) /\ Len(Blanks(n)) = n /\ \A i \in 1..n : Blanks(n)[i] = 0
BY DEF Blanks

LEMMA FilledIs ==
    ASSUME NEW p \in Part, NEW t \in Texts(p)
    PROVE  /\ Filled(p, t) \in Seq(Nat) /\ Len(Filled(p, t)) = p.size
           /\ \A i \in 1..p.size : Filled(p, t)[i] = Pad(t, i)
<1>1. p.size \in Nat /\ t \in Seq(Nat) /\ Len(t) \in Nat /\ Len(t) <= p.size
  BY PartIs, TextIs
<1> PICK b : b = Blanks(p.size - Len(t))
  OBVIOUS
<1>2. p.size - Len(t) \in Nat
  BY <1>1
<1>3. b \in Seq(Nat) /\ Len(b) = p.size - Len(t) /\ \A i \in 1..(p.size - Len(t)) : b[i] = 0
  BY <1>2, BlanksAre
<1>4. /\ t \o b \in Seq(Nat) /\ Len(t \o b) = Len(t) + Len(b)
      /\ \A i \in 1..(Len(t) + Len(b)) :
            (t \o b)[i] = IF i <= Len(t) THEN t[i] ELSE b[i - Len(t)]
  BY <1>1, <1>3, ConcatProperties
<1>5. Filled(p, t) = t \o b
  BY DEF Filled
<1>6. Len(t \o b) = p.size
  <2>1. Len(t \o b) = Len(t) + Len(b)
    BY <1>4
  <2>2. Len(b) = p.size - Len(t)
    BY <1>3
  <2>3. Len(t) + (p.size - Len(t)) = p.size
    BY <1>1
  <2> QED  BY <2>1, <2>2, <2>3
<1>7. \A i \in 1..p.size : (t \o b)[i] = Pad(t, i)
  BY <1>1, <1>3, <1>4 DEF Pad
<1> QED  BY <1>4, <1>5, <1>7, <1>6

LEMMA SubSeqOfAll ==
    ASSUME NEW x \in Seq(Nat), NEW n \in Nat, n <= Len(x)
    PROVE  /\ SubSeq(x, 1, n) \in Seq(Nat) /\ Len(SubSeq(x, 1, n)) = n
           /\ \A j \in 1..n : SubSeq(x, 1, n)[j] = x[j]
<1>1. \A i \in 1..n : x[i] \in Nat
  BY ElementOfSeq, LenProperties
<1>2. PICK y : y = SubSeq(x, 1, n)
  OBVIOUS
<1>3. /\ y \in Seq(Nat) /\ Len(y) = IF 1 <= n THEN n - 1 + 1 ELSE 0
      /\ \A i \in 1..(n - 1 + 1) : y[i] = x[1 + i - 1]
  BY <1>1, <1>2, SubSeqProperties
<1>4. y \in Seq(Nat) /\ Len(y) = n
  BY <1>3
<1>5. \A j \in 1..n : y[j] = x[j]
  BY <1>3
<1> QED  BY <1>2, <1>4, <1>5

LEMMA LengthIs ==
    ASSUME NEW t \in Seq(Nat), NEW n \in {0, 1, 2}
    PROVE  /\ LengthBytes(t, n) \in Seq(Nat) /\ Len(LengthBytes(t, n)) = n
           /\ n > 0 => LengthBytes(t, n)[1] = Low(t)
           /\ n = 2 => LengthBytes(t, n)[2] = High(t)
<1> PICK b : b = <<Low(t), High(t)>>
  OBVIOUS
<1>1. b \in Seq(Nat) /\ Len(b) = 2 /\ b[1] = Low(t) /\ b[2] = High(t)
  BY LowHigh
<1>2. n \in Nat /\ n <= Len(b)
  BY <1>1
<1>3. PICK x : x = SubSeq(b, 1, n)
  OBVIOUS
<1>4. x \in Seq(Nat) /\ Len(x) = n /\ \A j \in 1..n : x[j] = b[j]
  BY <1>1, <1>2, <1>3, SubSeqOfAll
<1>5. LengthBytes(t, n) = x
  BY <1>3 DEF LengthBytes
<1>6. (n > 0 => 1 \in 1..n) /\ (n = 2 => 2 \in 1..n)
  OBVIOUS
<1> QED  BY <1>1, <1>4, <1>5, <1>6

LEMMA ColumnBytes ==
    ASSUME NEW p \in Part, NEW t \in Texts(p), NEW n \in {0, 1, 2},
           NEW x, x = LengthBytes(t, n) \o Filled(p, t)
    PROVE  /\ x \in Seq(Nat) /\ Len(x) = n + p.size
           /\ n > 0 => x[1] = Low(t)
           /\ n = 2 => x[2] = High(t)
           /\ \A i \in 1..p.size : x[n + i] = Pad(t, i)
<1>1. p.size \in Nat /\ t \in Seq(Nat)
  BY PartIs, TextIs
<1> PICK a : a = LengthBytes(t, n)
  OBVIOUS
<1> PICK b : b = Filled(p, t)
  OBVIOUS
<1>2. /\ a \in Seq(Nat) /\ Len(a) = n /\ (n > 0 => a[1] = Low(t)) /\ (n = 2 => a[2] = High(t))
  BY <1>1, LengthIs
<1>3. /\ b \in Seq(Nat) /\ Len(b) = p.size /\ \A i \in 1..p.size : b[i] = Pad(t, i)
  BY FilledIs
<1>4. /\ x \in Seq(Nat) /\ Len(x) = n + p.size
      /\ \A i \in 1..(n + p.size) : x[i] = IF i <= n THEN a[i] ELSE b[i - n]
  BY <1>2, <1>3, ConcatProperties
<1>5. ASSUME NEW i \in 1..n PROVE x[i] = a[i]
  <2>1. i \in 1..(n + p.size) /\ i <= n
    BY <1>1
  <2> QED  BY <1>4, <2>1
<1>6. ASSUME NEW i \in 1..p.size PROVE x[n + i] = Pad(t, i)
  <2> PICK j : j = n + i
    OBVIOUS
  <2>1. j \in 1..(n + p.size) /\ ~(j <= n) /\ j - n = i
    BY <1>1
  <2>2. x[j] = b[j - n]
    BY <1>4, <2>1
  <2> QED  BY <1>3, <2>1, <2>2
<1>7. n > 0 => x[1] = Low(t)
  BY <1>2, <1>5
<1>8. n = 2 => x[2] = High(t)
  BY <1>2, <1>5
<1> QED  BY <1>4, <1>6, <1>7, <1>8

LEMMA RowIs ==
    ASSUME NEW p \in Part, NEW t \in Texts(p)
    PROVE  /\ RowBytes(p, t) \in Seq(Nat) /\ Len(RowBytes(p, t)) = pack_length(p)
           /\ p.prefix > 0 => RowBytes(p, t)[1] = Low(t)
           /\ p.prefix = 2 => RowBytes(p, t)[2] = High(t)
           /\ \A i \in 1..p.size : RowBytes(p, t)[p.prefix + i] = Pad(t, i)
<1>1. p.prefix \in {0, 1, 2} /\ pack_length(p) = p.prefix + p.size
  BY PartIs
<1> PICK x : x = RowBytes(p, t)
  OBVIOUS
<1>n. PICK n \in {0, 1, 2} : n = p.prefix
  BY <1>1
<1>2. x = LengthBytes(t, n) \o Filled(p, t)
  BY <1>n DEF RowBytes
<1>3. /\ x \in Seq(Nat) /\ Len(x) = n + p.size
      /\ n > 0 => x[1] = Low(t)
      /\ n = 2 => x[2] = High(t)
      /\ \A i \in 1..p.size : x[n + i] = Pad(t, i)
  BY <1>2, ColumnBytes
<1> QED  BY <1>1, <1>n, <1>3

LEMMA IndexIs ==
    ASSUME NEW p \in Part, NEW t \in Texts(p)
    PROVE  /\ IndexBytes(p, t) \in Seq(Nat) /\ Len(IndexBytes(p, t)) = Lead(p) + p.size
           /\ p.type = "VARCHAR" => IndexBytes(p, t)[1] = Low(t) /\ IndexBytes(p, t)[2] = High(t)
           /\ \A i \in 1..p.size : IndexBytes(p, t)[Lead(p) + i] = Pad(t, i)
<1>1. Lead(p) \in {0, 1, 2} /\ (p.type = "VARCHAR" => Lead(p) = 2)
  BY DEF Lead
<1> PICK x : x = IndexBytes(p, t)
  OBVIOUS
<1>2. x = LengthBytes(t, Lead(p)) \o Filled(p, t)
  BY DEF IndexBytes, Lead
<1>3. /\ x \in Seq(Nat) /\ Len(x) = Lead(p) + p.size
      /\ Lead(p) > 0 => x[1] = Low(t)
      /\ Lead(p) = 2 => x[2] = High(t)
      /\ \A i \in 1..p.size : x[Lead(p) + i] = Pad(t, i)
  BY <1>1, <1>2, ColumnBytes
<1> QED  BY <1>1, <1>3

-----------------------------------------------------------------------------
(* Loops over one or two columns. *)

LEMMA FlatOne ==
    ASSUME NEW s, Len(s) = 1
    PROVE  FlattenSeq(s) = s[1]
<1> DEFINE G(f) == [i \in 1..Len(s) |-> IF i = 1 THEN s[i] ELSE f[i - 1] \o s[i]]
           F == CHOOSE f : f = G(f)
<1>1. \E f : f = G(f)
  <2> DEFINE h == [i \in 1..1 |-> s[1]]
  <2>1. h = G(h)
    OBVIOUS
  <2> QED  BY <2>1
<1>2. F = G(F)
  BY <1>1
<1>3. FlattenSeq(s) = F[Len(s)]
  BY DEF FlattenSeq
<1> HIDE DEF F
<1> QED  BY <1>2, <1>3

LEMMA FlatTwo ==
    ASSUME NEW s, Len(s) = 2
    PROVE  FlattenSeq(s) = s[1] \o s[2]
<1> DEFINE G(f) == [i \in 1..Len(s) |-> IF i = 1 THEN s[i] ELSE f[i - 1] \o s[i]]
           F == CHOOSE f : f = G(f)
<1>1. \E f : f = G(f)
  <2> DEFINE h == [i \in 1..2 |-> IF i = 1 THEN s[1] ELSE s[1] \o s[2]]
  <2>1. h = G(h)
    OBVIOUS
  <2> QED  BY <2>1
<1>2. F = G(F)
  BY <1>1
<1>3. FlattenSeq(s) = F[Len(s)]
  BY DEF FlattenSeq
<1> HIDE DEF F
<1>4. F[1] = s[1] /\ F[2] = F[1] \o s[2]
  BY <1>2
<1> QED  BY <1>3, <1>4

LEMMA PositionIs ==
    ASSUME NEW ps, Len(ps) \in {1, 2}
    PROVE  /\ Position(ps, 1) = 0
           /\ Position(ps, 2) = 0 + pack_length(ps[1])
           /\ Len(ps) = 2 => Position(ps, 3) = 0 + pack_length(ps[1]) + pack_length(ps[2])
<1> DEFINE G(f) == [j \in 1..(Len(ps) + 1) |->
                       IF j = 1 THEN 0 ELSE f[j - 1] + pack_length(ps[j - 1])]
           F == CHOOSE f : f = G(f)
<1>1. \E f : f = G(f)
  <2> DEFINE h == [j \in 1..(Len(ps) + 1) |->
                     IF j = 1 THEN 0 ELSE IF j = 2 THEN 0 + pack_length(ps[1])
                     ELSE 0 + pack_length(ps[1]) + pack_length(ps[2])]
  <2>1. ASSUME NEW j \in 1..(Len(ps) + 1) PROVE h[j] = G(h)[j]
    <3> PICK n : n = Len(ps)
      OBVIOUS
    <3>1. j \in {1, 2, 3}
      <4>1. n \in {1, 2} /\ j \in 1..(n + 1)
        OBVIOUS
      <4> QED  BY <4>1
    <3> QED  BY <3>1
  <2>2. h = G(h)
    BY <2>1
  <2> QED  BY <2>2
<1>2. F = G(F)
  BY <1>1
<1>3. \A i : Position(ps, i) = F[i]
  BY DEF Position
<1> HIDE DEF F
<1>4. /\ F[1] = 0 /\ F[2] = F[1] + pack_length(ps[1])
      /\ Len(ps) = 2 => F[3] = F[2] + pack_length(ps[2])
  BY <1>2
<1> QED  BY <1>3, <1>4

(* The shift moves every byte behind the second of a column to the front, *)
(* but the last.                                                           *)
LEMMA ShiftedIs ==
    ASSUME NEW x \in Seq(Nat), NEW at \in Nat, at + 2 <= Len(x)
    PROVE  /\ Shifted(x, at) \in Seq(Nat) /\ Len(Shifted(x, at)) = Len(x)
           /\ \A j \in 1..Len(x) :
                 Shifted(x, at)[j] = x[IF at + 1 < j /\ j < Len(x) THEN j + 1 ELSE j]
<1>1. PICK n : n = Len(x)
  OBVIOUS
<1>2. n \in Nat /\ \A i \in 1..n : x[i] \in Nat
  BY <1>1, ElementOfSeq, LenProperties
<1>3. PICK a : a = SubSeq(x, 1, at + 1)
  OBVIOUS
<1>4. PICK b : b = SubSeq(x, at + 3, n)
  OBVIOUS
<1>5. PICK c : c = <<x[n]>>
  OBVIOUS
<1>6. /\ a \in Seq(Nat) /\ Len(a) = at + 1
      /\ \A i \in 1..(at + 1) : a[i] = x[i]
  <2>1. \A i \in 1..(at + 1) : x[i] \in Nat
    BY <1>2
  <2>2. /\ a \in Seq(Nat) /\ Len(a) = IF 1 <= at + 1 THEN at + 1 - 1 + 1 ELSE 0
        /\ \A i \in 1..(at + 1 - 1 + 1) : a[i] = x[1 + i - 1]
    BY <2>1, <1>3, SubSeqProperties
  <2> QED  BY <2>2
<1>7. /\ b \in Seq(Nat) /\ Len(b) = n - at - 2
      /\ \A i \in 1..(n - at - 2) : b[i] = x[at + 2 + i]
  <2>1. \A i \in (at + 3)..n : x[i] \in Nat
    BY <1>2
  <2>2. /\ b \in Seq(Nat) /\ Len(b) = IF at + 3 <= n THEN n - (at + 3) + 1 ELSE 0
        /\ \A i \in 1..(n - (at + 3) + 1) : b[i] = x[at + 3 + i - 1]
    BY <1>2, <1>4, <2>1, SubSeqProperties
  <2>3. Len(b) = n - at - 2
    BY <1>2, <1>1, <2>2
  <2>4. ASSUME NEW i \in 1..(n - at - 2) PROVE b[i] = x[at + 2 + i]
    <3>1. i \in 1..(n - (at + 3) + 1) /\ at + 3 + i - 1 = at + 2 + i
      BY <1>2
    <3>2. b[i] = x[at + 3 + i - 1]
      BY <2>2, <3>1
    <3> QED  BY <3>1, <3>2
  <2> QED  BY <2>2, <2>3, <2>4
<1>8. c \in Seq(Nat) /\ Len(c) = 1 /\ c[1] = x[n]
  <2>1. n \in 1..n
    BY <1>2, <1>1
  <2> QED  BY <1>2, <1>5, <2>1
<1>9. PICK d : d = a \o b
  OBVIOUS
<1>10. /\ d \in Seq(Nat) /\ Len(d) = n - 1
      /\ \A j \in 1..(n - 1) : d[j] = IF j <= at + 1 THEN a[j] ELSE b[j - (at + 1)]
  <2>1. /\ d \in Seq(Nat) /\ Len(d) = Len(a) + Len(b)
        /\ \A j \in 1..(Len(a) + Len(b)) : d[j] = IF j <= Len(a) THEN a[j] ELSE b[j - Len(a)]
    BY <1>6, <1>7, <1>9, ConcatProperties
  <2>2. Len(a) + Len(b) = n - 1
    BY <1>2, <1>6, <1>7
  <2> QED  BY <1>2, <1>6, <2>1, <2>2
<1>11. PICK e : e = d \o c
  OBVIOUS
<1>12. /\ e \in Seq(Nat) /\ Len(e) = n
      /\ \A j \in 1..n : e[j] = IF j <= n - 1 THEN d[j] ELSE c[j - (n - 1)]
  <2>1. /\ e \in Seq(Nat) /\ Len(e) = Len(d) + Len(c)
        /\ \A j \in 1..(Len(d) + Len(c)) : e[j] = IF j <= Len(d) THEN d[j] ELSE c[j - Len(d)]
    BY <1>8, <1>10, <1>11, ConcatProperties
  <2>2. Len(d) + Len(c) = n
    BY <1>2, <1>8, <1>10
  <2> QED  BY <1>10, <2>1, <2>2
<1>13. Shifted(x, at) = e
  BY <1>1, <1>3, <1>4, <1>5, <1>9, <1>11 DEF Shifted
<1>14. ASSUME NEW j \in 1..n
      PROVE  e[j] = x[IF at + 1 < j /\ j < n THEN j + 1 ELSE j]
  <2>1. CASE j = n
    <3>1. ~(j <= n - 1) /\ j - (n - 1) = 1
      BY <1>2, <2>1
    <3> QED  BY <1>8, <1>12, <2>1, <3>1
  <2>2. CASE j <= at + 1 /\ j # n
    <3>1. j \in 1..(n - 1) /\ j \in 1..(at + 1)
      BY <1>2, <2>2
    <3> QED  BY <1>6, <1>10, <1>12, <2>2, <3>1, SMTT(30)
  <2>3. CASE at + 1 < j /\ j < n
    <3>1. PICK i : i = j - (at + 1)
      OBVIOUS
    <3>2. j \in 1..(n - 1) /\ ~(j <= at + 1) /\ i \in 1..(n - at - 2) /\ at + 2 + i = j + 1
      BY <1>2, <2>3, <3>1
    <3>3. e[j] = d[j] /\ d[j] = b[j - (at + 1)]
      <4>1. j \in 1..n /\ j <= n - 1
        BY <1>2, <2>3
      <4>2. e[j] = d[j]
        BY <1>12, <4>1
      <4>3. d[j] = b[j - (at + 1)]
        BY <1>10, <3>2
      <4> QED  BY <4>2, <4>3
    <3>4. e[j] = b[i]
      BY <3>1, <3>3
    <3> QED  BY <1>7, <2>3, <3>2, <3>4
  <2> QED  BY <1>2, <2>1, <2>2, <2>3
<1> QED  BY <1>12, <1>13, <1>14, <1>1

Columns == {<<p>> : p \in Part} \cup (Part \X Part)

LEMMA KeyParts ==
    ASSUME NEW ps \in Columns, NEW key \in Keys(ps)
    PROVE  /\ Len(ps) \in {1, 2} /\ DOMAIN ps = 1..Len(ps)
           /\ \A i \in 1..Len(ps) : ps[i] \in Part /\ key[i] \in Texts(ps[i])
           /\ Len(ps) = 1 => key = <<key[1]>>
           /\ Len(ps) = 2 => key = <<key[1], key[2]>>
<1>1. CASE Len(ps) = 1
  <2>1. PICK p \in Part : ps = <<p>>
    BY <1>1 DEF Columns
  <2>2. PICK t \in Texts(p) : key = <<t>>
    BY <1>1, <2>1 DEF Keys
  <2> QED  BY <2>1, <2>2
<1>2. CASE Len(ps) # 1
  <2>1. PICK p \in Part, q \in Part : ps = <<p, q>>
    BY <1>2 DEF Columns
  <2>2. PICK t \in Texts(p), u \in Texts(q) : key = <<t, u>>
    BY <1>2, <2>1 DEF Keys
  <2> QED  BY <2>1, <2>2
<1> QED  BY <1>1, <1>2

LEMMA ConcatHalves ==
    ASSUME NEW x \in Seq(Nat), NEW y \in Seq(Nat)
    PROVE  /\ SubSeq(x \o y, 1, Len(x)) = x
           /\ SubSeq(x \o y, Len(x) + 1, Len(x) + Len(y)) = y
<1>1. PICK m : m = Len(x)
  OBVIOUS
<1>2. PICK n : n = Len(y)
  OBVIOUS
<1>3. PICK z : z = x \o y
  OBVIOUS
<1>4. m \in Nat /\ n \in Nat
  BY <1>1, <1>2, LenProperties
<1>5. /\ z \in Seq(Nat) /\ Len(z) = m + n
      /\ \A i \in 1..(m + n) : z[i] = IF i <= m THEN x[i] ELSE y[i - m]
  BY <1>1, <1>2, <1>3, ConcatProperties
<1>6. \A i \in 1..(m + n) : z[i] \in Nat
  BY <1>5, ElementOfSeq
<1>7. PICK a : a = SubSeq(z, 1, m)
  OBVIOUS
<1>8. a = x
  <2>1. /\ a \in Seq(Nat) /\ Len(a) = m /\ \A j \in 1..m : a[j] = z[j]
    BY <1>4, <1>5, <1>7, SubSeqOfAll
  <2>2. \A j \in 1..m : a[j] = x[j]
    BY <1>4, <1>5, <2>1
  <2> QED  BY <1>1, <2>1, <2>2, SeqEqual
<1>9. PICK b : b = SubSeq(z, m + 1, m + n)
  OBVIOUS
<1>10. b = y
  <2>1. \A i \in (m + 1)..(m + n) : z[i] \in Nat
    BY <1>4, <1>6
  <2>2. /\ b \in Seq(Nat) /\ Len(b) = IF m + 1 <= m + n THEN m + n - (m + 1) + 1 ELSE 0
        /\ \A i \in 1..(m + n - (m + 1) + 1) : b[i] = z[m + 1 + i - 1]
    BY <1>4, <1>9, <2>1, SubSeqProperties
  <2>3. Len(b) = n
    BY <1>4, <2>2
  <2>4. ASSUME NEW i \in 1..n PROVE b[i] = y[i]
    <3>1. PICK j : j = m + i
      OBVIOUS
    <3>2. j \in 1..(m + n) /\ ~(j <= m) /\ j - m = i /\ m + 1 + i - 1 = j
          /\ i \in 1..(m + n - (m + 1) + 1)
      BY <1>4, <3>1
    <3>3. b[i] = z[j]
      BY <2>2, <3>2
    <3>4. z[j] = y[i]
      BY <1>5, <3>2
    <3> QED  BY <3>3, <3>4
  <2> QED  BY <1>2, <2>2, <2>3, <2>4, SeqEqual
<1> QED  BY <1>1, <1>2, <1>3, <1>7, <1>8, <1>9, <1>10

LEMMA PrimaryKeyOne ==
    ASSUME NEW ps \in Columns, NEW key \in Keys(ps), Len(ps) = 1
    PROVE  get_primary_key(ps, key) = RowBytes(ps[1], key[1])
<1>1. DOMAIN ps = 1..1 /\ ps[1] \in Part /\ key[1] \in Texts(ps[1])
  BY KeyParts
<1>2. PICK x : x = RowBytes(ps[1], key[1])
  OBVIOUS
<1>3. x \in Seq(Nat) /\ Len(x) = pack_length(ps[1])
  BY <1>1, <1>2, RowIs
<1>4. RowBuffer(ps, key) = x
  <2> DEFINE s == [i \in DOMAIN ps |-> RowBytes(ps[i], key[i])]
  <2>1. Len(s) = 1 /\ s[1] = x
    BY <1>1, <1>2
  <2>2. RowBuffer(ps, key) = FlattenSeq(s)
    BY DEF RowBuffer
  <2> HIDE DEF s
  <2> QED  BY <2>1, <2>2, FlatOne
<1>5. SubSeq(x, 1, Len(x)) = x
  BY <1>3, SubSeqFull
<1> DEFINE G(i) == SubSeq(x, Position(ps, i) + 1, Position(ps, i) + pack_length(ps[i]))
           r == [i \in DOMAIN ps |-> G(i)]
<1>6. Len(r) = 1 /\ r[1] = G(1)
  <2> HIDE DEF G
  <2> QED  BY <1>1
<1>7. get_primary_key(ps, key) = FlattenSeq(r)
  BY <1>4 DEF get_primary_key
<1> HIDE DEF r
<1>8. 0 + 1 = 1 /\ 0 + pack_length(ps[1]) = Len(x)
  BY <1>3, LenProperties
<1>9. r[1] = x
  BY <1>5, <1>6, <1>8, PositionIs
<1> QED  BY <1>2, <1>6, <1>7, <1>9, FlatOne

LEMMA PrimaryKeyTwo ==
    ASSUME NEW ps \in Columns, NEW key \in Keys(ps), Len(ps) = 2
    PROVE  get_primary_key(ps, key) = RowBytes(ps[1], key[1]) \o RowBytes(ps[2], key[2])
<1>1. /\ DOMAIN ps = 1..2 /\ ps[1] \in Part /\ key[1] \in Texts(ps[1])
      /\ ps[2] \in Part /\ key[2] \in Texts(ps[2])
  BY KeyParts
<1>2. PICK x : x = RowBytes(ps[1], key[1])
  OBVIOUS
<1>3. PICK y : y = RowBytes(ps[2], key[2])
  OBVIOUS
<1>4. /\ x \in Seq(Nat) /\ Len(x) = pack_length(ps[1])
      /\ y \in Seq(Nat) /\ Len(y) = pack_length(ps[2])
  BY <1>1, <1>2, <1>3, RowIs
<1>5. RowBuffer(ps, key) = x \o y
  <2> DEFINE s == [i \in DOMAIN ps |-> RowBytes(ps[i], key[i])]
  <2>1. Len(s) = 2 /\ s[1] = x /\ s[2] = y
    BY <1>1, <1>2, <1>3
  <2>2. RowBuffer(ps, key) = FlattenSeq(s)
    BY DEF RowBuffer
  <2> HIDE DEF s
  <2> QED  BY <2>1, <2>2, FlatTwo
<1>6. /\ SubSeq(x \o y, 1, Len(x)) = x
      /\ SubSeq(x \o y, Len(x) + 1, Len(x) + Len(y)) = y
  BY <1>4, ConcatHalves
<1>7. PICK z : z = x \o y
  OBVIOUS
<1> DEFINE G(i) == SubSeq(z, Position(ps, i) + 1, Position(ps, i) + pack_length(ps[i]))
           r == [i \in DOMAIN ps |-> G(i)]
<1>8. Len(r) = 2 /\ r[1] = G(1) /\ r[2] = G(2)
  <2> HIDE DEF G
  <2> QED  BY <1>1
<1>9. get_primary_key(ps, key) = FlattenSeq(r)
  BY <1>5, <1>7 DEF get_primary_key
<1> HIDE DEF r
<1>10. /\ Position(ps, 1) + 1 = 1 /\ Position(ps, 1) + pack_length(ps[1]) = Len(x)
       /\ Position(ps, 2) = Len(x)
  BY <1>4, PositionIs, LenProperties
<1>11. r[1] = x /\ r[2] = y
  BY <1>4, <1>6, <1>7, <1>8, <1>10
<1> QED  BY <1>2, <1>3, <1>8, <1>9, <1>11, FlatTwo

-----------------------------------------------------------------------------
(* What index_read makes of an index key: byte j was at Before(...). *)

Step(p, at, x) == IF Adjusted(p) THEN Shifted(x, at) ELSE x
Before(p, at, n, j) == IF Adjusted(p) /\ at + 1 < j /\ j < n THEN j + 1 ELSE j

LEMMA StepIs ==
    ASSUME NEW p, NEW x \in Seq(Nat), NEW at \in Nat, Adjusted(p) => at + 2 <= Len(x)
    PROVE  /\ Step(p, at, x) \in Seq(Nat) /\ Len(Step(p, at, x)) = Len(x)
           /\ \A j \in 1..Len(x) : /\ Before(p, at, Len(x), j) \in 1..Len(x)
                                   /\ Step(p, at, x)[j] = x[Before(p, at, Len(x), j)]
<1>1. Len(x) \in Nat
  BY LenProperties
<1>2. CASE Adjusted(p)
  <2>1. /\ Shifted(x, at) \in Seq(Nat) /\ Len(Shifted(x, at)) = Len(x)
        /\ \A j \in 1..Len(x) :
              Shifted(x, at)[j] = x[IF at + 1 < j /\ j < Len(x) THEN j + 1 ELSE j]
    BY <1>2, ShiftedIs
  <2>2. Step(p, at, x) = Shifted(x, at)
    BY <1>2 DEF Step
  <2>3. \A j \in 1..Len(x) :
           Before(p, at, Len(x), j) = IF at + 1 < j /\ j < Len(x) THEN j + 1 ELSE j
    BY <1>2 DEF Before
  <2> QED  BY <1>1, <2>1, <2>2, <2>3
<1>3. CASE ~Adjusted(p)
  BY <1>3 DEF Step, Before
<1> QED  BY <1>2, <1>3

LEMMA AdjustedOnly ==
    ASSUME NEW ps, NEW key, Len(ps) \in {1, 2}
    PROVE  KeyAdj(ps, key) =
             LET x == Step(ps[1], Position(ps, 1), IndexKey(ps, key)) IN
             SubSeq(IF Len(ps) = 1 THEN x ELSE Step(ps[2], Position(ps, 2), x),
                    1, KeySize(ps))
<1> DEFINE G(f) == [i \in 0..Len(ps) |->
                      IF i = 0 THEN IndexKey(ps, key)
                      ELSE IF Adjusted(ps[i]) THEN Shifted(f[i - 1], Position(ps, i))
                      ELSE f[i - 1]]
           F == CHOOSE f : f = G(f)
           x == Step(ps[1], Position(ps, 1), IndexKey(ps, key))
           y == Step(ps[2], Position(ps, 2), x)
<1>1. \E f : f = G(f)
  <2> DEFINE h == [i \in 0..Len(ps) |->
                     IF i = 0 THEN IndexKey(ps, key) ELSE IF i = 1 THEN x ELSE y]
  <2>1. ASSUME NEW i \in 0..Len(ps) PROVE h[i] = G(h)[i]
    <3>1. i = 0 \/ i = 1 \/ i = 2
      <4>1. PICK n : n = Len(ps)
        OBVIOUS
      <4>2. n \in {1, 2} /\ i \in 0..n
        BY <4>1
      <4> QED  BY <4>2
    <3>2. CASE i = 0
      BY <3>2
    <3>3. CASE i = 1
      <4>1. 0 \in 0..Len(ps)
        OBVIOUS
      <4>2. h[1] = x /\ h[1 - 1] = IndexKey(ps, key)
        BY <3>3, <4>1
      <4> HIDE DEF h
      <4>3. G(h)[1] = Step(ps[1], Position(ps, 1), h[1 - 1])
        BY <3>3 DEF Step
      <4> QED  BY <3>3, <4>2, <4>3
    <3>4. CASE i = 2
      <4>1. 1 \in 0..Len(ps) /\ 2 - 1 = 1
        OBVIOUS
      <4>2. h[2] = y /\ h[2 - 1] = x
        <5> HIDE DEF x, y
        <5> QED  BY <3>4, <4>1
      <4> HIDE DEF h
      <4>3. G(h)[2] = Step(ps[2], Position(ps, 2), h[2 - 1])
        BY <3>4 DEF Step
      <4> HIDE DEF x
      <4> QED  BY <3>4, <4>2, <4>3
    <3> QED  BY <3>1, <3>2, <3>3, <3>4
  <2>2. h = G(h)
    <3>1. DOMAIN h = 0..Len(ps) /\ DOMAIN G(h) = 0..Len(ps)
      OBVIOUS
    <3>2. h = [i \in 0..Len(ps) |-> h[i]] /\ G(h) = [i \in 0..Len(ps) |-> G(h)[i]]
      OBVIOUS
    <3> HIDE DEF h, G
    <3> QED  BY <2>1, <3>2
  <2> QED  BY <2>2
<1>2. F = G(F)
  BY <1>1
<1>3. KeyAdj(ps, key) = SubSeq(F[Len(ps)], 1, KeySize(ps))
  BY DEF KeyAdj
<1> HIDE DEF F
<1>4. 0 \in 0..Len(ps) /\ 1 \in 0..Len(ps) /\ (Len(ps) # 1 => 2 \in 0..Len(ps) /\ 2 - 1 = 1)
  OBVIOUS
<1>5. F[0] = IndexKey(ps, key) /\ F[1] = Step(ps[1], Position(ps, 1), F[0])
  BY <1>2, <1>4 DEF Step
<1>6. Len(ps) # 1 => F[2] = Step(ps[2], Position(ps, 2), F[1])
  BY <1>2, <1>4 DEF Step
<1> HIDE DEF G
<1> QED  BY <1>3, <1>5, <1>6

LEMMA AdjustedIs ==
    ASSUME NEW p \in Part
    PROVE  /\ Adjusted(p) => p.type = "VARCHAR" /\ pack_length(p) >= 5
           /\ SizeTells(p) => (Adjusted(p) <=> p.prefix = 1)
<1>1. /\ p.size \in Nat \ {0} /\ pack_length(p) = p.prefix + p.size
      /\ p.prefix \in {0, 1, 2} /\ (p.type = "VARCHAR" => p.prefix # 0)
      /\ (p.prefix # 0 => p.type = "VARCHAR")
  BY PartIs
<1>2. PICK n : n = pack_length(p)
  OBVIOUS
<1>3. p.type = "VARCHAR" /\ n % 4 = 1 => n >= 5
  <2>1. n \in Nat /\ (p.type = "VARCHAR" => n >= 2)
    BY <1>1, <1>2
  <2> QED  BY <2>1
<1> QED  BY <1>1, <1>2, <1>3 DEF Adjusted, SizeTells

LEMMA LeadIs ==
    ASSUME NEW p \in Part
    PROVE  /\ p.size \in Nat \ {0} /\ p.prefix \in Nat /\ Lead(p) \in Nat
           /\ p.prefix <= Lead(p) /\ (p.type = "VARCHAR" => Lead(p) = 2)
           /\ pack_length(p) = p.prefix + p.size /\ pack_length(p) \in Nat
BY PartIs DEF Lead

LEMMA KeyAdjOne ==
    ASSUME NEW ps \in Columns, NEW key \in Keys(ps), Len(ps) = 1
    PROVE  \A x : x = IndexBytes(ps[1], key[1]) =>
              /\ KeyAdj(ps, key) \in Seq(Nat) /\ Len(KeyAdj(ps, key)) = pack_length(ps[1])
              /\ \A j \in 1..pack_length(ps[1]) :
                    KeyAdj(ps, key)[j] = x[Before(ps[1], 0, Len(x), j)]
<1>1. PICK x : x = IndexBytes(ps[1], key[1])
  OBVIOUS
<1>2. PICK p : p = ps[1]
  OBVIOUS
<1>3. DOMAIN ps = 1..1 /\ p \in Part /\ key[1] \in Texts(p)
  BY <1>2, KeyParts
<1>4. /\ p.size \in Nat /\ p.prefix \in Nat /\ Lead(p) \in Nat
      /\ p.prefix <= Lead(p) /\ (p.type = "VARCHAR" => Lead(p) = 2)
      /\ pack_length(p) = p.prefix + p.size /\ pack_length(p) \in Nat
  BY <1>3, LeadIs
<1>5. x \in Seq(Nat) /\ Len(x) = Lead(p) + p.size
  BY <1>1, <1>2, <1>3, IndexIs
<1>6. pack_length(p) <= Len(x) /\ (Adjusted(p) => 0 + 2 <= Len(x))
  BY <1>3, <1>4, <1>5, AdjustedIs
<1>7. IndexKey(ps, key) = x
  <2> DEFINE s == [i \in DOMAIN ps |-> IndexBytes(ps[i], key[i])]
  <2>1. Len(s) = 1 /\ s[1] = x
    BY <1>1, <1>3
  <2>2. IndexKey(ps, key) = FlattenSeq(s)
    BY DEF IndexKey
  <2> HIDE DEF s
  <2> QED  BY <2>1, <2>2, FlatOne
<1>8. PICK y : y = Step(p, 0, x)
  OBVIOUS
<1>9. /\ y \in Seq(Nat) /\ Len(y) = Len(x)
      /\ \A j \in 1..Len(x) : y[j] = x[Before(p, 0, Len(x), j)]
  BY <1>5, <1>6, <1>8, StepIs
<1>10. KeyAdj(ps, key) = SubSeq(y, 1, pack_length(p))
  <2>1. Position(ps, 1) = 0 /\ KeySize(ps) = pack_length(p)
    <3>1. Position(ps, 1) = 0 /\ Position(ps, 2) = 0 + pack_length(p)
      BY <1>2, PositionIs
    <3>2. KeySize(ps) = Position(ps, 2)
      <4>1. Len(ps) + 1 = 2
        OBVIOUS
      <4> QED  BY <4>1 DEF KeySize
    <3> QED  BY <1>4, <3>1, <3>2
  <2> QED  BY <1>2, <1>7, <1>8, <2>1, AdjustedOnly
<1>11. /\ KeyAdj(ps, key) \in Seq(Nat) /\ Len(KeyAdj(ps, key)) = pack_length(p)
       /\ \A j \in 1..pack_length(p) : KeyAdj(ps, key)[j] = y[j]
  BY <1>4, <1>6, <1>9, <1>10, SubSeqOfAll
<1>12. \A j \in 1..pack_length(p) : j \in 1..Len(x)
  BY <1>4, <1>5, <1>6
<1> QED  BY <1>1, <1>2, <1>9, <1>11, <1>12

Whole(ps, key) == IndexBytes(ps[1], key[1]) \o IndexBytes(ps[2], key[2])
FromWhole(ps, key, j) ==
    LET x == Whole(ps, key) IN
    x[Before(ps[1], 0, Len(x), Before(ps[2], pack_length(ps[1]), Len(x), j))]

LEMMA KeyAdjTwo ==
    ASSUME NEW ps \in Columns, NEW key \in Keys(ps), Len(ps) = 2
    PROVE  /\ KeyAdj(ps, key) \in Seq(Nat)
           /\ Len(KeyAdj(ps, key)) = pack_length(ps[1]) + pack_length(ps[2])
           /\ \A j \in 1..(pack_length(ps[1]) + pack_length(ps[2])) :
                 KeyAdj(ps, key)[j] = FromWhole(ps, key, j)
<1>1. PICK x, n : x = Whole(ps, key) /\ n = pack_length(ps[1])
  OBVIOUS
<1>2. PICK p : p = ps[1]
  OBVIOUS
<1>3. PICK q : q = ps[2]
  OBVIOUS
<1>4. /\ DOMAIN ps = 1..2 /\ p \in Part /\ key[1] \in Texts(p)
      /\ q \in Part /\ key[2] \in Texts(q)
  BY <1>2, <1>3, KeyParts
<1>5. /\ p.size \in Nat /\ p.prefix \in Nat /\ Lead(p) \in Nat
      /\ p.prefix <= Lead(p) /\ (p.type = "VARCHAR" => Lead(p) = 2)
      /\ pack_length(p) = p.prefix + p.size /\ pack_length(p) \in Nat
  BY <1>4, LeadIs
<1>6. /\ q.size \in Nat \ {0} /\ q.prefix \in Nat /\ Lead(q) \in Nat
      /\ q.prefix <= Lead(q) /\ (q.type = "VARCHAR" => Lead(q) = 2)
      /\ pack_length(q) = q.prefix + q.size /\ pack_length(q) \in Nat
  BY <1>4, LeadIs
<1>7. PICK a : a = IndexBytes(p, key[1])
  OBVIOUS
<1>8. PICK b : b = IndexBytes(q, key[2])
  OBVIOUS
<1>9. /\ a \in Seq(Nat) /\ Len(a) = Lead(p) + p.size
      /\ b \in Seq(Nat) /\ Len(b) = Lead(q) + q.size
  BY <1>4, <1>7, <1>8, IndexIs
<1>10. x \in Seq(Nat) /\ Len(x) = Len(a) + Len(b)
  BY <1>1, <1>2, <1>3, <1>7, <1>8, <1>9, ConcatProperties DEF Whole
<1>11. /\ n = pack_length(p) /\ n \in Nat /\ n + pack_length(q) <= Len(x)
       /\ n + pack_length(q) \in Nat
  <2>1. Len(x) = Lead(p) + p.size + (Lead(q) + q.size)
    BY <1>9, <1>10
  <2>2. n = p.prefix + p.size /\ pack_length(q) = q.prefix + q.size
    BY <1>1, <1>2, <1>5, <1>6
  <2>3. p.prefix + p.size + (q.prefix + q.size) <= Lead(p) + p.size + (Lead(q) + q.size)
    BY <1>5, <1>6
  <2>4. n \in Nat /\ n + pack_length(q) \in Nat
    BY <1>1, <1>2, <1>5, <1>6
  <2> QED  BY <1>1, <1>2, <2>1, <2>2, <2>3, <2>4
<1>12. Adjusted(p) => 0 + 2 <= Len(x)
  <2>1. Adjusted(p) => Lead(p) = 2
    BY <1>4, <1>5, AdjustedIs
  <2>2. Len(x) = Lead(p) + p.size + (Lead(q) + q.size)
    BY <1>9, <1>10
  <2>3. 2 + p.size + (Lead(q) + q.size) >= 2
    BY <1>5, <1>6
  <2> QED  BY <2>1, <2>2, <2>3
<1>13. Adjusted(q) => n + 2 <= Len(x)
  <2>1. Adjusted(q) => Lead(q) = 2
    BY <1>4, <1>6, AdjustedIs
  <2>2. Len(x) = Lead(p) + p.size + (Lead(q) + q.size) /\ n = p.prefix + p.size
    BY <1>5, <1>9, <1>10, <1>11
  <2>3. p.prefix + p.size + 2 <= Lead(p) + p.size + (2 + q.size)
    BY <1>5, <1>6
  <2> QED  BY <2>1, <2>2, <2>3
<1>14. IndexKey(ps, key) = x
  <2> DEFINE s == [i \in DOMAIN ps |-> IndexBytes(ps[i], key[i])]
  <2>1. Len(s) = 2 /\ s[1] = a /\ s[2] = b
    BY <1>2, <1>3, <1>4, <1>7, <1>8
  <2>2. IndexKey(ps, key) = FlattenSeq(s)
    BY DEF IndexKey
  <2> HIDE DEF s
  <2> QED  BY <1>1, <1>2, <1>3, <1>7, <1>8, <2>1, <2>2, FlatTwo DEF Whole
<1>15. PICK y : y = Step(p, 0, x)
  OBVIOUS
<1>16. PICK z : z = Step(q, n, y)
  OBVIOUS
<1>17. /\ y \in Seq(Nat) /\ Len(y) = Len(x)
       /\ \A j \in 1..Len(x) : y[j] = x[Before(p, 0, Len(x), j)]
  BY <1>10, <1>12, <1>15, StepIs
<1>18. /\ z \in Seq(Nat) /\ Len(z) = Len(x)
       /\ \A j \in 1..Len(x) : /\ Before(q, n, Len(x), j) \in 1..Len(x)
                               /\ z[j] = y[Before(q, n, Len(x), j)]
  BY <1>11, <1>13, <1>16, <1>17, StepIs
<1>19. KeyAdj(ps, key) = SubSeq(z, 1, n + pack_length(q))
  <2>1. Position(ps, 1) = 0 /\ Position(ps, 2) = n /\ KeySize(ps) = n + pack_length(q)
    <3>1. /\ Position(ps, 1) = 0 /\ Position(ps, 2) = 0 + pack_length(p)
          /\ Position(ps, 3) = 0 + pack_length(p) + pack_length(q)
      BY <1>2, <1>3, PositionIs
    <3>2. KeySize(ps) = Position(ps, 3)
      <4>1. Len(ps) + 1 = 3
        OBVIOUS
      <4> QED  BY <4>1 DEF KeySize
    <3> QED  BY <1>11, <3>1, <3>2
  <2> QED  BY <1>2, <1>3, <1>14, <1>15, <1>16, <2>1, AdjustedOnly
<1>20. /\ KeyAdj(ps, key) \in Seq(Nat) /\ Len(KeyAdj(ps, key)) = n + pack_length(q)
       /\ \A j \in 1..(n + pack_length(q)) : KeyAdj(ps, key)[j] = z[j]
  BY <1>11, <1>18, <1>19, SubSeqOfAll
<1>21. \A j \in 1..(n + pack_length(q)) : j \in 1..Len(x)
  <2>1. Len(x) \in Nat
    BY <1>10, LenProperties
  <2> QED  BY <1>11, <2>1
<1>22. \A j \in 1..(n + pack_length(q)) :
          KeyAdj(ps, key)[j] = x[Before(p, 0, Len(x), Before(q, n, Len(x), j))]
  BY <1>17, <1>18, <1>20, <1>21
<1> QED  BY <1>1, <1>2, <1>3, <1>20, <1>22 DEF FromWhole

-----------------------------------------------------------------------------
(* One column: its index format, adjusted, against a row.                  *)

Lone(p, t, j) == IndexBytes(p, t)[Before(p, 0, Len(IndexBytes(p, t)), j)]

LEMMA LoneIs ==
    ASSUME NEW p \in Part, SizeTells(p), NEW t \in Texts(p), NEW j \in 1..pack_length(p)
    PROVE  Lone(p, t, j) = RowBytes(p, t)[j]
<1>1. /\ p.size \in Nat \ {0} /\ p.prefix \in Nat /\ Lead(p) \in Nat
      /\ p.prefix <= Lead(p) /\ (p.type = "VARCHAR" => Lead(p) = 2)
      /\ pack_length(p) = p.prefix + p.size /\ pack_length(p) \in Nat
  BY LeadIs
<1>2. PICK x : x = IndexBytes(p, t)
  OBVIOUS
<1>3. /\ x \in Seq(Nat) /\ Len(x) = Lead(p) + p.size
      /\ p.type = "VARCHAR" => x[1] = Low(t) /\ x[2] = High(t)
      /\ \A i \in 1..p.size : x[Lead(p) + i] = Pad(t, i)
  BY <1>2, IndexIs
<1>4. PICK r : r = RowBytes(p, t)
  OBVIOUS
<1>5. /\ p.prefix > 0 => r[1] = Low(t)
      /\ p.prefix = 2 => r[2] = High(t)
      /\ \A i \in 1..p.size : r[p.prefix + i] = Pad(t, i)
  BY <1>4, RowIs
<1>6. x[Before(p, 0, Len(x), j)] = r[j]
  <2>1. CASE p.type = "LONG"
    <3>1. Lead(p) = 0 /\ p.prefix = 0 /\ ~Adjusted(p)
      BY <2>1, PartIs, AdjustedIs DEF Lead
    <3>2. Before(p, 0, Len(x), j) = j
      BY <3>1 DEF Before
    <3>3. j \in 1..p.size /\ 0 + j = j
      BY <1>1, <3>1
    <3> QED  BY <1>3, <1>5, <3>1, <3>2, <3>3
  <2>2. CASE p.type = "VARCHAR" /\ p.prefix = 1
    <3>1. Adjusted(p) /\ Lead(p) = 2 /\ Len(x) = 2 + p.size /\ j \in 1..(1 + p.size)
      BY <1>1, <1>3, <2>2, AdjustedIs
    <3>2. CASE j = 1
      <4>1. Before(p, 0, Len(x), j) = 1
        BY <3>2 DEF Before
      <4> QED  BY <1>3, <1>5, <2>2, <3>2, <4>1
    <3>3. CASE j > 1
      <4>1. PICK i \in 1..p.size : j = 1 + i
        <5>1. j - 1 \in 1..p.size /\ j = 1 + (j - 1)
          BY <1>1, <3>1, <3>3
        <5> QED  BY <5>1
      <4>2. 0 + 1 < j /\ j < Len(x) /\ j + 1 = 2 + i
        BY <1>1, <3>1, <3>3, <4>1
      <4>3. Before(p, 0, Len(x), j) = 2 + i
        BY <3>1, <4>2 DEF Before
      <4>4. x[2 + i] = Pad(t, i) /\ r[1 + i] = Pad(t, i)
        BY <1>3, <1>5, <2>2, <3>1
      <4> QED  BY <4>1, <4>3, <4>4
    <3> QED  BY <3>1, <3>2, <3>3
  <2>3. CASE p.type = "VARCHAR" /\ p.prefix = 2
    <3>1. ~Adjusted(p) /\ Lead(p) = 2 /\ j \in 1..(2 + p.size)
      BY <1>1, <2>3, AdjustedIs
    <3>2. Before(p, 0, Len(x), j) = j
      BY <3>1 DEF Before
    <3>3. CASE j \in {1, 2}
      BY <1>3, <1>5, <2>3, <3>2, <3>3
    <3>4. CASE j > 2
      <4>1. PICK i \in 1..p.size : j = 2 + i
        <5>1. j - 2 \in 1..p.size /\ j = 2 + (j - 2)
          BY <1>1, <3>1, <3>4
        <5> QED  BY <5>1
      <4> QED  BY <1>3, <1>5, <2>3, <3>1, <3>2, <4>1
    <3> QED  BY <3>1, <3>3, <3>4
  <2> QED  BY <2>1, <2>2, <2>3, PartIs
<1> QED  BY <1>2, <1>4, <1>6 DEF Lone

(* Rows tell texts apart.                                                  *)
LEMMA RowsDiffer ==
    ASSUME NEW p \in Part, NEW t \in Texts(p), NEW u \in Texts(p),
           \A j \in 1..pack_length(p) : RowBytes(p, t)[j] = RowBytes(p, u)[j]
    PROVE  t = u
<1>1. /\ p.size \in Nat \ {0} /\ p.prefix \in {0, 1, 2} /\ pack_length(p) = p.prefix + p.size
      /\ p.prefix = 1 => p.size <= ShortMax
      /\ p.prefix = 0 => p.type = "LONG"
  BY PartIs
<1>2. \A i \in 1..p.size : p.prefix + i \in 1..pack_length(p)
  BY <1>1
<1>3. \A i \in 1..p.size : Pad(t, i) = Pad(u, i)
  BY <1>2, RowIs
<1>4. /\ t \in Seq(Nat) /\ Len(t) \in Nat /\ Len(t) <= p.size
      /\ p.type = "LONG" => Len(t) = p.size
      /\ u \in Seq(Nat) /\ Len(u) \in Nat /\ Len(u) <= p.size
      /\ p.type = "LONG" => Len(u) = p.size
  BY TextIs
<1>5. p.prefix > 0 => Low(t) = Low(u)
  <2>1. p.prefix > 0 => 1 \in 1..pack_length(p)
    BY <1>1
  <2> QED  BY <2>1, RowIs
<1>6. p.prefix = 2 => High(t) = High(u)
  <2>1. p.prefix = 2 => 2 \in 1..pack_length(p)
    BY <1>1
  <2> QED  BY <2>1, RowIs
<1>7. Len(t) = Len(u)
  <2>1. CASE p.prefix = 0
    BY <1>1, <1>4, <2>1
  <2>2. CASE p.prefix = 1
    <3>1. ShortMax \in Nat /\ Len(t) <= ShortMax /\ Len(u) <= ShortMax
      BY <1>1, <1>4, <2>2, TextAssumption
    <3>2. Low(t) = Len(t) /\ Low(u) = Len(u)
      BY <1>4, <3>1, LowHigh
    <3> QED  BY <1>5, <2>2, <3>2
  <2>3. CASE p.prefix = 2
    <3>1. /\ Len(t) = (ShortMax + 1) * High(t) + Low(t)
          /\ Len(u) = (ShortMax + 1) * High(u) + Low(u)
      BY <1>4, LowHigh
    <3>2. Low(t) = Low(u) /\ High(t) = High(u)
      BY <1>5, <1>6, <2>3
    <3> QED  BY <3>1, <3>2
  <2> QED  BY <1>1, <2>1, <2>2, <2>3
<1> QED  BY <1>3, <1>7, FilledDiffer

(* Where the size misleads, a plain text finds only the empty one.         *)
LEMMA MisledIsEmpty ==
    ASSUME NEW p \in Part, ~SizeTells(p), NEW t \in Texts(p), NEW u \in Texts(p),
           PlainText(t), PlainText(u),
           Lone(p, t, 1) = RowBytes(p, u)[1],
           Lone(p, t, 2) = RowBytes(p, u)[2]
    PROVE  Len(t) = 0 /\ Len(u) = 0
<1>1. /\ p.size \in Nat \ {0} /\ p.prefix \in Nat /\ Lead(p) \in Nat
      /\ p.prefix <= Lead(p) /\ (p.type = "VARCHAR" => Lead(p) = 2)
      /\ pack_length(p) = p.prefix + p.size /\ pack_length(p) \in Nat
  BY LeadIs
<1>2. p.type = "VARCHAR" /\ Lead(p) = 2 /\ p.prefix \in {1, 2}
      /\ (Adjusted(p) <=> p.prefix = 2)
  BY <1>1, PartIs DEF SizeTells, Adjusted
<1>plain. /\ Low(t) = Len(t) /\ High(t) = 0 /\ Low(u) = Len(u) /\ High(u) = 0
          /\ Len(t) \in Nat /\ Len(u) \in Nat
  BY TextIs, LowHigh DEF PlainText
<1>3. PICK x : x = IndexBytes(p, t)
  OBVIOUS
<1>4. /\ x \in Seq(Nat) /\ Len(x) = 2 + p.size
      /\ x[1] = Len(t) /\ x[2] = 0
      /\ \A i \in 1..p.size : x[2 + i] = Pad(t, i)
  <2>1. /\ x \in Seq(Nat) /\ Len(x) = Lead(p) + p.size
        /\ p.type = "VARCHAR" => x[1] = Low(t) /\ x[2] = High(t)
        /\ \A i \in 1..p.size : x[Lead(p) + i] = Pad(t, i)
    BY <1>3, IndexIs
  <2> QED  BY <1>2, <1>plain, <2>1
<1>5. PICK r : r = RowBytes(p, u)
  OBVIOUS
<1>6. /\ r[1] = Len(u)
      /\ p.prefix = 2 => r[2] = 0
      /\ \A i \in 1..p.size : r[p.prefix + i] = Pad(u, i)
  <2>1. /\ p.prefix > 0 => r[1] = Low(u)
        /\ p.prefix = 2 => r[2] = High(u)
        /\ \A i \in 1..p.size : r[p.prefix + i] = Pad(u, i)
    BY <1>5, RowIs
  <2> QED  BY <1>2, <1>plain, <2>1
<1>7. x[Before(p, 0, Len(x), 1)] = r[1] /\ x[Before(p, 0, Len(x), 2)] = r[2]
  BY <1>3, <1>5 DEF Lone
<1>8. Len(t) = Len(u)
  <2>1. Before(p, 0, Len(x), 1) = 1
    BY DEF Before
  <2> QED  BY <1>4, <1>6, <1>7, <2>1
<1>9. CASE p.prefix = 1
  <2>1. Before(p, 0, Len(x), 2) = 2
    BY <1>2, <1>9 DEF Before
  <2>2. Pad(u, 1) = 0
    <3>1. 1 \in 1..p.size /\ 1 + 1 = 2
      BY <1>1
    <3> QED  BY <1>4, <1>6, <1>7, <1>9, <2>1, <3>1
  <2> QED  BY <1>2, <1>8, <2>2, EmptyText
<1>10. CASE p.prefix = 2
  <2>1. Before(p, 0, Len(x), 2) = 3
    <3>1. 0 + 1 < 2 /\ 2 < Len(x) /\ 2 + 1 = 3
      BY <1>1, <1>4
    <3> QED  BY <1>2, <1>10, <3>1 DEF Before
  <2>2. Pad(t, 1) = 0
    <3>1. 1 \in 1..p.size /\ 2 + 1 = 3
      BY <1>1
    <3> QED  BY <1>4, <1>6, <1>7, <1>10, <2>1, <3>1
  <2> QED  BY <1>2, <1>8, <2>2, EmptyText
<1> QED  BY <1>2, <1>9, <1>10

LEMMA LoneMatches ==
    ASSUME NEW p \in Part, NEW t \in Texts(p), NEW u \in Texts(p),
           SizeTells(p) \/ (PlainText(t) /\ PlainText(u)),
           \A j \in 1..pack_length(p) : Lone(p, t, j) = RowBytes(p, u)[j]
    PROVE  t = u
<1>1. CASE SizeTells(p)
  <2>1. \A j \in 1..pack_length(p) : RowBytes(p, t)[j] = RowBytes(p, u)[j]
    BY <1>1, LoneIs
  <2> QED  BY <2>1, RowsDiffer
<1>2. CASE ~SizeTells(p)
  <2>1. p.size \in Nat \ {0} /\ p.prefix \in {1, 2} /\ pack_length(p) = p.prefix + p.size
    BY <1>2, PartIs DEF SizeTells
  <2>2. 1 \in 1..pack_length(p) /\ 2 \in 1..pack_length(p)
    BY <2>1
  <2>3. Len(t) = 0 /\ Len(u) = 0
    BY <1>2, <2>2, MisledIsEmpty
  <2> QED  BY <2>3, BothEmpty
<1> QED  BY <1>1, <1>2

(* A text behind another byte: y is x moved by one.                        *)
Moved(x, y, v, n) == y[1] = v /\ \A i \in 1..(n - 1) : y[i + 1] = x[i]

LEMMA MovedIs ==
    ASSUME NEW x \in Seq(Nat), NEW y \in Seq(Nat), NEW n \in Nat \ {0}, NEW v \in Nat,
           Len(x) = n, Len(y) = n
    PROVE  y = <<v>> \o Front(x) <=> Moved(x, y, v, n)
<1>1. PICK f : f = Front(x)
  OBVIOUS
<1>2. f \in Seq(Nat) /\ Len(f) = n - 1 /\ \A i \in 1..(n - 1) : f[i] = x[i]
  <2>1. n - 1 \in Nat /\ n - 1 <= Len(x) /\ f = SubSeq(x, 1, n - 1)
    BY <1>1 DEF Front
  <2> QED  BY <2>1, SubSeqOfAll
<1>3. PICK z : z = <<v>> \o f
  OBVIOUS
<1>4. /\ z \in Seq(Nat) /\ Len(z) = n
      /\ z[1] = v /\ \A i \in 1..(n - 1) : z[i + 1] = x[i]
  <2>w. PICK w : w = <<v>>
    OBVIOUS
  <2>1. w \in Seq(Nat) /\ Len(w) = 1 /\ w[1] = v
    BY <2>w
  <2>2. /\ z \in Seq(Nat) /\ Len(z) = 1 + Len(f)
        /\ \A i \in 1..(1 + Len(f)) : z[i] = IF i <= 1 THEN w[i] ELSE f[i - 1]
    BY <1>2, <1>3, <2>w, <2>1, ConcatProperties
  <2>3. ASSUME NEW i \in 1..(n - 1) PROVE z[i + 1] = x[i]
    <3>1. PICK j : j = i + 1
      OBVIOUS
    <3>2. j \in 1..(1 + Len(f)) /\ ~(j <= 1) /\ j - 1 = i
      BY <1>2, <3>1
    <3>3. z[j] = f[j - 1]
      BY <2>2, <3>2
    <3> QED  BY <1>2, <3>1, <3>2, <3>3
  <2>4. 1 + Len(f) = n /\ 1 \in 1..(1 + Len(f))
    BY <1>2
  <2> QED  BY <2>1, <2>2, <2>3, <2>4
<1>5. ASSUME y[1] = v, \A i \in 1..(n - 1) : y[i + 1] = x[i] PROVE y = z
  <2>1. ASSUME NEW i \in 1..n PROVE y[i] = z[i]
    <3>1. CASE i = 1
      BY <1>4, <1>5, <3>1
    <3>2. CASE i # 1
      <4>1. PICK j : j = i - 1
        OBVIOUS
      <4>2. j \in 1..(n - 1) /\ j + 1 = i
        BY <3>2, <4>1
      <4> QED  BY <1>4, <1>5, <4>2
    <3> QED  BY <3>1, <3>2
  <2> QED  BY <1>4, <2>1, SeqEqual
<1> QED  BY <1>1, <1>3, <1>4, <1>5 DEF Moved

(* What is left of an index format whose size misleads.                    *)
LEMMA MisledIs ==
    ASSUME NEW p \in Part, ~SizeTells(p), NEW t \in Texts(p)
    PROVE  /\ p.prefix \in {1, 2} /\ Lone(p, t, 1) = Low(t)
           /\ p.prefix = 1 => /\ Lone(p, t, 2) = 0
                              /\ \A i \in 1..(p.size - 1) : Lone(p, t, 2 + i) = Pad(t, i)
           /\ p.prefix = 2 => /\ \A i \in 1..p.size : Lone(p, t, 1 + i) = Pad(t, i)
                              /\ Lone(p, t, 2 + p.size) = Pad(t, p.size)
<1>1. /\ p.size \in Nat \ {0} /\ p.prefix \in {1, 2} /\ p.type = "VARCHAR"
      /\ pack_length(p) = p.prefix + p.size /\ Lead(p) = 2
      /\ Adjusted(p) <=> p.prefix = 2
      /\ p.prefix = 1 => p.size <= ShortMax
  BY PartIs, LeadIs DEF SizeTells, Adjusted
<1>2. PICK x : x = IndexBytes(p, t)
  OBVIOUS
<1>3. /\ x \in Seq(Nat) /\ Len(x) = 2 + p.size
      /\ x[1] = Low(t) /\ x[2] = High(t)
      /\ \A i \in 1..p.size : x[2 + i] = Pad(t, i)
  <2>1. /\ x \in Seq(Nat) /\ Len(x) = Lead(p) + p.size
        /\ p.type = "VARCHAR" => x[1] = Low(t) /\ x[2] = High(t)
        /\ \A i \in 1..p.size : x[Lead(p) + i] = Pad(t, i)
    BY <1>2, IndexIs
  <2> QED  BY <1>1, <2>1
<1>4. \A j : Lone(p, t, j) = x[Before(p, 0, 2 + p.size, j)]
  BY <1>2, <1>3 DEF Lone
<1>5. Lone(p, t, 1) = Low(t)
  <2>1. Before(p, 0, 2 + p.size, 1) = 1
    BY DEF Before
  <2> QED  BY <1>3, <1>4, <2>1
<1>6. CASE p.prefix = 1
  <2>1. \A j : Before(p, 0, 2 + p.size, j) = j
    BY <1>1, <1>6 DEF Before
  <2>2. High(t) = 0
    <3>1. t \in Seq(Nat) /\ Len(t) \in Nat /\ Len(t) <= ShortMax
      BY <1>1, <1>6, TextIs, TextAssumption
    <3> QED  BY <3>1, LowHigh
  <2>3. ASSUME NEW i \in 1..(p.size - 1) PROVE Lone(p, t, 2 + i) = Pad(t, i)
    <3>1. i \in 1..p.size
      BY <1>1
    <3> QED  BY <1>3, <1>4, <2>1, <3>1
  <2>4. Lone(p, t, 2) = 0
    BY <1>3, <1>4, <2>1, <2>2
  <2> QED  BY <1>5, <1>6, <2>3, <2>4
<1>7. CASE p.prefix = 2
  <2>1. ASSUME NEW i \in 1..p.size PROVE Lone(p, t, 1 + i) = Pad(t, i)
    <3>1. 0 + 1 < 1 + i /\ 1 + i < 2 + p.size /\ 1 + i + 1 = 2 + i
      BY <1>1
    <3>2. Before(p, 0, 2 + p.size, 1 + i) = 2 + i
      BY <1>1, <1>7, <3>1 DEF Before
    <3> QED  BY <1>3, <1>4, <3>2
  <2>2. Lone(p, t, 2 + p.size) = Pad(t, p.size)
    <3>1. Before(p, 0, 2 + p.size, 2 + p.size) = 2 + p.size
      <4>1. ~(2 + p.size < 2 + p.size)
        BY <1>1
      <4> QED  BY <4>1 DEF Before
    <3>2. p.size \in 1..p.size
      BY <1>1
    <3> QED  BY <1>3, <1>4, <3>1, <3>2
  <2> QED  BY <1>5, <1>7, <2>1, <2>2
<1> QED  BY <1>1, <1>6, <1>7

(* It is the bytes of the row whose text is moved by one byte against it.  *)
LEMMA MisledMatches ==
    ASSUME NEW p \in Part, ~SizeTells(p), NEW t \in Texts(p), NEW u \in Texts(p)
    PROVE  (\A j \in 1..pack_length(p) : Lone(p, t, j) = RowBytes(p, u)[j])
             <=> /\ Low(t) = Low(u)
                 /\ IF p.prefix = 1
                    THEN Filled(p, u) = <<0>> \o Front(Filled(p, t))
                    ELSE /\ Filled(p, t) = <<High(u)>> \o Front(Filled(p, u))
                         /\ Last(Filled(p, t)) = Last(Filled(p, u))
<1>1. PICK n, r, f, g : n = p.size /\ r = RowBytes(p, u) /\ f = Filled(p, t) /\ g = Filled(p, u)
  OBVIOUS
<1>2. n \in Nat \ {0} /\ pack_length(p) = p.prefix + n
  BY <1>1, LeadIs
<1>3. /\ f \in Seq(Nat) /\ Len(f) = n /\ \A i \in 1..n : f[i] = Pad(t, i)
      /\ g \in Seq(Nat) /\ Len(g) = n /\ \A i \in 1..n : g[i] = Pad(u, i)
  BY <1>1, FilledIs
<1>4. /\ p.prefix \in {1, 2} /\ Lone(p, t, 1) = Low(t)
      /\ p.prefix = 1 => /\ Lone(p, t, 2) = 0
                         /\ \A i \in 1..(n - 1) : Lone(p, t, 2 + i) = Pad(t, i)
      /\ p.prefix = 2 => /\ \A i \in 1..n : Lone(p, t, 1 + i) = Pad(t, i)
                         /\ Lone(p, t, 2 + n) = Pad(t, n)
  BY <1>1, MisledIs
<1>5. /\ p.prefix > 0 => r[1] = Low(u)
      /\ p.prefix = 2 => r[2] = High(u)
      /\ \A i \in 1..n : r[p.prefix + i] = Pad(u, i)
  BY <1>1, RowIs
<1>6. u \in Seq(Nat) /\ High(u) \in Nat
  BY TextIs, LowHigh
<1> DEFINE Same == \A j \in 1..(p.prefix + n) : Lone(p, t, j) = r[j]
<1>same. Same <=> \A j \in 1..pack_length(p) : Lone(p, t, j) = RowBytes(p, u)[j]
  BY <1>1, <1>2
<1>7. CASE p.prefix = 1
  <2>1. Same <=> /\ Low(t) = Low(u) /\ g[1] = 0
                 /\ \A i \in 1..(n - 1) : g[i + 1] = f[i]
    <3>1. ASSUME Same
          PROVE  Low(t) = Low(u) /\ g[1] = 0 /\ \A i \in 1..(n - 1) : g[i + 1] = f[i]
      <4>1. 1 \in 1..(1 + n) /\ 2 \in 1..(1 + n) /\ 1 \in 1..n /\ 1 + 1 = 2
        BY <1>2
      <4>2. Low(t) = Low(u)
        BY <1>4, <1>5, <1>7, <3>1, <4>1
      <4>3. g[1] = 0
        BY <1>3, <1>4, <1>5, <1>7, <3>1, <4>1
      <4>4. ASSUME NEW i \in 1..(n - 1) PROVE g[i + 1] = f[i]
        <5>1. 2 + i \in 1..(1 + n) /\ i + 1 \in 1..n /\ i \in 1..n /\ 1 + (i + 1) = 2 + i
          BY <1>2
        <5>2. Lone(p, t, 2 + i) = r[2 + i]
          BY <1>7, <3>1, <5>1
        <5>3. r[1 + (i + 1)] = Pad(u, i + 1)
          BY <1>5, <1>7, <5>1
        <5> QED  BY <1>3, <1>4, <1>7, <5>1, <5>2, <5>3
      <4> QED  BY <4>2, <4>3, <4>4
    <3>2. ASSUME Low(t) = Low(u), g[1] = 0, \A i \in 1..(n - 1) : g[i + 1] = f[i]
          PROVE  Same
      <4> SUFFICES ASSUME NEW j \in 1..(1 + n) PROVE Lone(p, t, j) = r[j]
        BY <1>7
      <4>1. CASE j = 1
        BY <1>4, <1>5, <1>7, <3>2, <4>1
      <4>2. CASE j = 2
        <5>1. 1 \in 1..n /\ 1 + 1 = 2
          BY <1>2
        <5> QED  BY <1>3, <1>4, <1>5, <1>7, <3>2, <4>2, <5>1
      <4>3. CASE j > 2
        <5>1. PICK i : i = j - 2
          OBVIOUS
        <5>2. i \in 1..(n - 1) /\ i \in 1..n /\ i + 1 \in 1..n /\ 2 + i = j /\ 1 + (i + 1) = j
          BY <1>2, <4>3, <5>1
        <5>3. r[1 + (i + 1)] = Pad(u, i + 1)
          BY <1>5, <1>7, <5>2
        <5>4. Lone(p, t, 2 + i) = Pad(t, i)
          BY <1>4, <1>7, <5>2
        <5>5. g[i + 1] = f[i] /\ f[i] = Pad(t, i) /\ g[i + 1] = Pad(u, i + 1)
          BY <1>3, <3>2, <5>2
        <5> QED  BY <5>2, <5>3, <5>4, <5>5
      <4> QED  BY <1>2, <4>1, <4>2, <4>3
    <3> HIDE DEF Same
    <3> QED  BY <3>1, <3>2
  <2>2. g = <<0>> \o Front(f) <=> g[1] = 0 /\ \A i \in 1..(n - 1) : g[i + 1] = f[i]
    <3>1. f \in Seq(Nat) /\ g \in Seq(Nat) /\ Len(f) = n /\ Len(g) = n /\ 0 \in Nat
      BY <1>3
    <3>2. g = <<0>> \o Front(f) <=> Moved(f, g, 0, n)
      BY <1>2, <3>1, MovedIs
    <3> QED  BY <3>2 DEF Moved
  <2> HIDE DEF Same
  <2> QED  BY <1>1, <1>7, <1>same, <2>1, <2>2
<1>8. CASE p.prefix = 2
  <2>1. Same <=> /\ Low(t) = Low(u) /\ f[1] = High(u) /\ f[n] = g[n]
                 /\ \A i \in 1..(n - 1) : f[i + 1] = g[i]
    <3>1. ASSUME Same
          PROVE  /\ Low(t) = Low(u) /\ f[1] = High(u) /\ f[n] = g[n]
                 /\ \A i \in 1..(n - 1) : f[i + 1] = g[i]
      <4>1. 1 \in 1..(2 + n) /\ 2 \in 1..(2 + n) /\ 2 + n \in 1..(2 + n)
            /\ 1 \in 1..n /\ n \in 1..n /\ 1 + 1 = 2
        BY <1>2
      <4>2. Low(t) = Low(u)
        BY <1>4, <1>5, <1>8, <3>1, <4>1
      <4>3. f[1] = High(u)
        BY <1>3, <1>4, <1>5, <1>8, <3>1, <4>1
      <4>4. f[n] = g[n]
        <5>1. Lone(p, t, 2 + n) = r[2 + n]
          BY <1>8, <3>1, <4>1
        <5>2. r[2 + n] = Pad(u, n)
          BY <1>5, <1>8, <4>1
        <5> QED  BY <1>3, <1>4, <1>8, <4>1, <5>1, <5>2
      <4>5. ASSUME NEW i \in 1..(n - 1) PROVE f[i + 1] = g[i]
        <5>1. 2 + i \in 1..(2 + n) /\ i + 1 \in 1..n /\ i \in 1..n /\ 1 + (i + 1) = 2 + i
          BY <1>2
        <5>2. Lone(p, t, 2 + i) = r[2 + i]
          BY <1>8, <3>1, <5>1
        <5>3. Lone(p, t, 1 + (i + 1)) = Pad(t, i + 1)
          BY <1>4, <1>8, <5>1
        <5> QED  BY <1>3, <1>5, <1>8, <5>1, <5>2, <5>3
      <4> QED  BY <4>2, <4>3, <4>4, <4>5
    <3>2. ASSUME Low(t) = Low(u), f[1] = High(u), f[n] = g[n],
                 \A i \in 1..(n - 1) : f[i + 1] = g[i]
          PROVE  Same
      <4> SUFFICES ASSUME NEW j \in 1..(2 + n) PROVE Lone(p, t, j) = r[j]
        BY <1>8
      <4>1. CASE j = 1
        BY <1>4, <1>5, <1>8, <3>2, <4>1
      <4>2. CASE j = 2
        <5>1. 1 \in 1..n /\ 1 + 1 = 2
          BY <1>2
        <5> QED  BY <1>3, <1>4, <1>5, <1>8, <3>2, <4>2, <5>1
      <4>3. CASE j = 2 + n
        <5>1. n \in 1..n
          BY <1>2
        <5> QED  BY <1>3, <1>4, <1>5, <1>8, <3>2, <4>3, <5>1
      <4>4. CASE j > 2 /\ j # 2 + n
        <5>1. PICK i : i = j - 2
          OBVIOUS
        <5>2. i \in 1..(n - 1) /\ i \in 1..n /\ i + 1 \in 1..n /\ 2 + i = j /\ 1 + (i + 1) = j
          BY <1>2, <4>4, <5>1
        <5>3. Lone(p, t, 1 + (i + 1)) = Pad(t, i + 1)
          BY <1>4, <1>8, <5>2
        <5>4. r[2 + i] = Pad(u, i)
          BY <1>5, <1>8, <5>2
        <5> QED  BY <1>3, <3>2, <5>2, <5>3, <5>4
      <4> QED  BY <1>2, <4>1, <4>2, <4>3, <4>4
    <3> HIDE DEF Same
    <3> QED  BY <3>1, <3>2
  <2>2. f = <<High(u)>> \o Front(g) <=> f[1] = High(u) /\ \A i \in 1..(n - 1) : f[i + 1] = g[i]
    <3>1. f \in Seq(Nat) /\ g \in Seq(Nat) /\ Len(f) = n /\ Len(g) = n
      BY <1>3
    <3>2. f = <<High(u)>> \o Front(g) <=> Moved(g, f, High(u), n)
      BY <1>2, <1>6, <3>1, MovedIs
    <3> QED  BY <3>2 DEF Moved
  <2>3. Last(f) = f[n] /\ Last(g) = g[n]
    BY <1>3 DEF Last
  <2> HIDE DEF Same
  <2> QED  BY <1>1, <1>8, <1>same, <2>1, <2>2, <2>3
<1> QED  BY <1>4, <1>7, <1>8

-----------------------------------------------------------------------------
(* Two columns. *)

(* The bytes of the first column do not depend on the second, where it is  *)
(* told its size or is longer than the byte in question.                   *)
LEMMA FirstColumn ==
    ASSUME NEW ps \in Columns, NEW key \in Keys(ps), Len(ps) = 2,
           NEW j \in 1..pack_length(ps[1]),
           SizeTells(ps[1]) \/ j <= 2
    PROVE  KeyAdj(ps, key)[j] = Lone(ps[1], key[1], j)
<1>1. PICK p, q : p = ps[1] /\ q = ps[2]
  OBVIOUS
<1>2. p \in Part /\ key[1] \in Texts(p) /\ q \in Part /\ key[2] \in Texts(q)
  BY <1>1, KeyParts
<1>3. PICK a, b : a = IndexBytes(p, key[1]) /\ b = IndexBytes(q, key[2])
  OBVIOUS
<1>4. /\ p.size \in Nat \ {0} /\ p.prefix \in Nat /\ Lead(p) \in Nat
      /\ p.prefix <= Lead(p) /\ (p.type = "VARCHAR" => Lead(p) = 2)
      /\ pack_length(p) = p.prefix + p.size /\ pack_length(p) \in Nat
  BY <1>2, LeadIs
<1>5. /\ q.size \in Nat \ {0} /\ q.prefix \in Nat /\ Lead(q) \in Nat
      /\ pack_length(q) = q.prefix + q.size /\ pack_length(q) \in Nat
  BY <1>2, LeadIs
<1>6. /\ a \in Seq(Nat) /\ Len(a) = Lead(p) + p.size
      /\ b \in Seq(Nat) /\ Len(b) = Lead(q) + q.size
  BY <1>2, <1>3, IndexIs
<1>7. PICK x, n : x = a \o b /\ n = pack_length(p)
  OBVIOUS
<1>8. /\ x \in Seq(Nat) /\ Len(x) = Len(a) + Len(b)
      /\ \A i \in 1..(Len(a) + Len(b)) : x[i] = IF i <= Len(a) THEN a[i] ELSE b[i - Len(a)]
  BY <1>6, <1>7, ConcatProperties
<1>9. PICK la : la = Len(a)
  OBVIOUS
<1>10. PICK lx : lx = Len(x)
  OBVIOUS
<1>11. la = Lead(p) + p.size /\ la \in Nat /\ lx \in Nat /\ lx > la /\ n <= la /\ n \in Nat
       /\ j \in 1..n /\ lx = la + Len(b) /\ n = p.prefix + p.size
  <2>1. Len(b) \in Nat /\ Len(b) > 0
    BY <1>5, <1>6
  <2>2. la = Lead(p) + p.size /\ lx = la + Len(b)
    BY <1>6, <1>8, <1>9, <1>10
  <2>3. n = p.prefix + p.size /\ j \in 1..n
    BY <1>1, <1>4, <1>7
  <2> QED  BY <1>4, <2>1, <2>2, <2>3, SMTT(30)
<1>12. KeyAdj(ps, key)[j] = x[Before(p, 0, lx, Before(q, n, lx, j))]
  <2>1. x = Whole(ps, key) /\ n = pack_length(ps[1])
    BY <1>1, <1>3, <1>7 DEF Whole
  <2>2. j \in 1..(n + pack_length(ps[2]))
    BY <1>1, <1>5, <1>11
  <2>3. KeyAdj(ps, key)[j] = FromWhole(ps, key, j)
    BY <2>1, <2>2, KeyAdjTwo
  <2> QED  BY <1>1, <1>10, <2>1, <2>3 DEF FromWhole
<1>13. Before(q, n, lx, j) = j
  <2>1. ~(n + 1 < j)
    BY <1>11
  <2> QED  BY <2>1 DEF Before
<1>14. Adjusted(p) /\ 1 < j => j < la
  <2>1. Adjusted(p) => Lead(p) = 2 /\ n >= 5
    BY <1>2, <1>4, <1>7, AdjustedIs
  <2>2. CASE SizeTells(p)
    <3>1. Adjusted(p) => p.prefix = 1
      BY <1>2, <2>2, AdjustedIs
    <3>2. Adjusted(p) => la = n + 1
      BY <1>4, <1>11, <2>1, <3>1
    <3> QED  BY <1>11, <3>2
  <2>3. CASE j <= 2
    BY <1>11, <2>1, <2>3
  <2> QED  BY <1>1, <2>2, <2>3
<1>15. Before(p, 0, lx, j) = Before(p, 0, la, j) /\ Before(p, 0, la, j) \in 1..la
  <2>1. CASE Adjusted(p) /\ 1 < j
    <3>1. 0 + 1 < j /\ j < la /\ j < lx /\ j + 1 \in 1..la
      BY <1>11, <1>14, <2>1
    <3> QED  BY <2>1, <3>1 DEF Before
  <2>2. CASE ~(Adjusted(p) /\ 1 < j)
    <3>1. Adjusted(p) => ~(0 + 1 < j)
      BY <1>11, <2>2
    <3>2. j \in 1..la
      BY <1>11
    <3> QED  BY <3>1, <3>2 DEF Before
  <2> QED  BY <2>1, <2>2
<1>16. PICK i : i = Before(p, 0, la, j)
  OBVIOUS
<1>17. i \in 1..(Len(a) + Len(b)) /\ i <= Len(a)
  BY <1>6, <1>9, <1>11, <1>15, <1>16, <1>5
<1>18. x[i] = a[i]
  BY <1>8, <1>17
<1> QED  BY <1>1, <1>3, <1>9, <1>12, <1>13, <1>15, <1>16, <1>18 DEF Lone

(* Behind a column that is told its size, the second one stands alone.     *)
LEMMA SecondColumn ==
    ASSUME NEW ps \in Columns, NEW key \in Keys(ps), Len(ps) = 2, SizeTells(ps[1]),
           NEW j \in 1..pack_length(ps[2])
    PROVE  KeyAdj(ps, key)[pack_length(ps[1]) + j] = Lone(ps[2], key[2], j)
<1>1. PICK p, q : p = ps[1] /\ q = ps[2]
  OBVIOUS
<1>2. p \in Part /\ key[1] \in Texts(p) /\ q \in Part /\ key[2] \in Texts(q)
  BY <1>1, KeyParts
<1>3. PICK a, b : a = IndexBytes(p, key[1]) /\ b = IndexBytes(q, key[2])
  OBVIOUS
<1>4. /\ p.size \in Nat \ {0} /\ p.prefix \in Nat /\ Lead(p) \in Nat
      /\ p.prefix <= Lead(p) /\ (p.type = "VARCHAR" => Lead(p) = 2)
      /\ pack_length(p) = p.prefix + p.size /\ pack_length(p) \in Nat
  BY <1>2, LeadIs
<1>5. /\ q.size \in Nat \ {0} /\ q.prefix \in Nat /\ Lead(q) \in Nat
      /\ q.prefix <= Lead(q)
      /\ pack_length(q) = q.prefix + q.size /\ pack_length(q) \in Nat
  BY <1>2, LeadIs
<1>6. /\ a \in Seq(Nat) /\ Len(a) = Lead(p) + p.size
      /\ b \in Seq(Nat) /\ Len(b) = Lead(q) + q.size
  BY <1>2, <1>3, IndexIs
<1>7. PICK x, n : x = a \o b /\ n = pack_length(p)
  OBVIOUS
<1>8. /\ x \in Seq(Nat) /\ Len(x) = Len(a) + Len(b)
      /\ \A i \in 1..(Len(a) + Len(b)) : x[i] = IF i <= Len(a) THEN a[i] ELSE b[i - Len(a)]
  BY <1>6, <1>7, ConcatProperties
<1>9. PICK la, lb : la = Len(a) /\ lb = Len(b)
  OBVIOUS
<1>10. PICK lx : lx = Len(x)
  OBVIOUS
<1>11. /\ la \in Nat /\ lb \in Nat /\ lx = la + lb /\ lx \in Nat /\ n \in Nat
       /\ j \in 1..lb /\ la = IF Adjusted(p) THEN n + 1 ELSE n
       /\ Adjusted(p) => n >= 5
  <2>1. la = Lead(p) + p.size /\ lb = Lead(q) + q.size /\ lx = la + lb
    BY <1>6, <1>8, <1>9, <1>10
  <2>2. n = p.prefix + p.size /\ j \in 1..(q.prefix + q.size)
    BY <1>1, <1>4, <1>5, <1>7
  <2>3. Adjusted(p) => Lead(p) = 2 /\ p.prefix = 1 /\ n >= 5
    BY <1>1, <1>2, <1>4, <1>7, AdjustedIs
  <2>4. ~Adjusted(p) => Lead(p) = p.prefix
    <3>1. (Adjusted(p) <=> p.prefix = 1) /\ p.prefix \in {0, 1, 2}
          /\ (p.prefix = 0 => Lead(p) = 0) /\ (p.prefix = 2 => Lead(p) = 2)
      BY <1>1, <1>2, AdjustedIs, PartIs DEF Lead
    <3> QED  BY <3>1
  <2>5. la = IF Adjusted(p) THEN n + 1 ELSE n
    BY <1>4, <2>1, <2>2, <2>3, <2>4
  <2> QED  BY <1>4, <1>5, <2>1, <2>2, <2>3, <2>5
<1>12. PICK k : k = n + j
  OBVIOUS
<1>13. KeyAdj(ps, key)[k] = x[Before(p, 0, lx, Before(q, n, lx, k))]
  <2>1. x = Whole(ps, key) /\ n = pack_length(ps[1])
    BY <1>1, <1>3, <1>7 DEF Whole
  <2>2. k \in 1..(n + pack_length(ps[2]))
    BY <1>1, <1>5, <1>11, <1>12
  <2>3. KeyAdj(ps, key)[k] = FromWhole(ps, key, k)
    BY <2>1, <2>2, KeyAdjTwo
  <2> QED  BY <1>1, <1>10, <2>1, <2>3 DEF FromWhole
<1>14. PICK m : m = Before(q, n, lx, k)
  OBVIOUS
<1>15. PICK i : i = Before(q, 0, lb, j)
  OBVIOUS
<1>16. /\ i \in 1..lb /\ m \in (n + 1)..lx
       /\ Before(p, 0, lx, m) = la + i
  <2>1. CASE Adjusted(q) /\ 1 < j
    <3>1. m = IF k < lx THEN k + 1 ELSE k
      <4>1. n + 1 < k
        BY <1>11, <1>12, <2>1
      <4> QED  BY <1>14, <2>1, <4>1 DEF Before
    <3>2. i = IF j < lb THEN j + 1 ELSE j
      <4>1. 0 + 1 < j
        BY <2>1
      <4> QED  BY <1>15, <2>1, <4>1 DEF Before
    <3>3. CASE Adjusted(p)
      <4>1. la = n + 1 /\ k < lx /\ m = n + j + 1 /\ 0 + 1 < m
        BY <1>11, <1>12, <3>1, <3>3
      <4>2. Before(p, 0, lx, m) = IF m < lx THEN m + 1 ELSE m
        BY <3>3, <4>1 DEF Before
      <4> QED  BY <1>11, <3>2, <4>1, <4>2
    <3>4. CASE ~Adjusted(p)
      <4>1. Before(p, 0, lx, m) = m
        BY <3>4 DEF Before
      <4> QED  BY <1>11, <1>12, <3>1, <3>2, <3>4, <4>1
    <3> QED  BY <3>3, <3>4
  <2>2. CASE ~(Adjusted(q) /\ 1 < j)
    <3>1. m = k
      <4>1. Adjusted(q) => ~(n + 1 < k)
        BY <1>11, <1>12, <2>2
      <4> QED  BY <1>14, <4>1 DEF Before
    <3>2. i = j
      <4>1. Adjusted(q) => ~(0 + 1 < j)
        BY <1>11, <2>2
      <4> QED  BY <1>15, <4>1 DEF Before
    <3>3. CASE Adjusted(p)
      <4>1. la = n + 1 /\ m = n + j /\ m < lx /\ 0 + 1 < m
        BY <1>11, <1>12, <3>1, <3>3
      <4>2. Before(p, 0, lx, m) = m + 1
        BY <3>3, <4>1 DEF Before
      <4> QED  BY <1>11, <3>2, <4>1, <4>2
    <3>4. CASE ~Adjusted(p)
      <4>1. Before(p, 0, lx, m) = m
        BY <3>4 DEF Before
      <4> QED  BY <1>11, <1>12, <3>1, <3>2, <3>4, <4>1
    <3> QED  BY <3>3, <3>4
  <2> QED  BY <2>1, <2>2
<1>17. PICK h : h = la + i
  OBVIOUS
<1>18. h \in 1..(Len(a) + Len(b)) /\ ~(h <= Len(a)) /\ h - Len(a) = i
  <2>1. h \in 1..(la + lb) /\ ~(h <= la) /\ h - la = i
    BY <1>11, <1>16, <1>17
  <2> QED  BY <1>9, <2>1
<1>19. x[h] = b[i]
  <2>1. x[h] = b[h - Len(a)]
    BY <1>8, <1>18
  <2> QED  BY <1>18, <2>1
<1>20. KeyAdj(ps, key)[k] = b[i]
  BY <1>13, <1>14, <1>16, <1>17, <1>19
<1>21. Lone(q, key[2], j) = b[i]
  BY <1>3, <1>9, <1>15 DEF Lone
<1> QED  BY <1>1, <1>7, <1>12, <1>20, <1>21

(* Behind a column whose size misleads, both texts of the second column    *)
(* are empty, as those of the first are.                                   *)
LEMMA MisledSecond ==
    ASSUME NEW ps \in Columns, NEW key \in Keys(ps), NEW r \in Keys(ps), Len(ps) = 2,
           ~SizeTells(ps[1]), ps[2].type = "VARCHAR",
           Len(key[1]) = 0, Len(r[1]) = 0, PlainText(key[2]), PlainText(r[2]),
           \A j \in 1..pack_length(ps[1]) : KeyAdj(ps, key)[j] = RowBytes(ps[1], r[1])[j],
           \A j \in 1..pack_length(ps[2]) :
              KeyAdj(ps, key)[pack_length(ps[1]) + j] = RowBytes(ps[2], r[2])[j]
    PROVE  Len(key[2]) = 0 /\ Len(r[2]) = 0
<1>1. PICK p, q : p = ps[1] /\ q = ps[2]
  OBVIOUS
<1>2. /\ p \in Part /\ key[1] \in Texts(p) /\ q \in Part /\ key[2] \in Texts(q)
      /\ r[1] \in Texts(p) /\ r[2] \in Texts(q)
  BY <1>1, KeyParts
<1>plain. /\ Low(key[2]) = Len(key[2]) /\ High(key[2]) = 0
          /\ Low(r[2]) = Len(r[2]) /\ High(r[2]) = 0
  BY <1>2, TextIs, LowHigh DEF PlainText
<1>3. PICK a, b : a = IndexBytes(p, key[1]) /\ b = IndexBytes(q, key[2])
  OBVIOUS
<1>4. /\ p.size \in Nat \ {0} /\ p.prefix \in {1, 2} /\ p.type = "VARCHAR" /\ Lead(p) = 2
      /\ pack_length(p) = p.prefix + p.size /\ pack_length(p) \in Nat
      /\ Adjusted(p) <=> p.prefix = 2
  BY <1>1, <1>2, PartIs, LeadIs DEF SizeTells, Adjusted
<1>5. /\ q.size \in Nat \ {0} /\ q.prefix \in {1, 2} /\ q.type = "VARCHAR" /\ Lead(q) = 2
      /\ pack_length(q) = q.prefix + q.size /\ pack_length(q) \in Nat
  BY <1>1, <1>2, PartIs, LeadIs
<1>6. /\ a \in Seq(Nat) /\ Len(a) = 2 + p.size
      /\ \A i \in 1..p.size : a[2 + i] = Pad(key[1], i)
  <2>1. /\ a \in Seq(Nat) /\ Len(a) = Lead(p) + p.size
        /\ \A i \in 1..p.size : a[Lead(p) + i] = Pad(key[1], i)
    BY <1>2, <1>3, IndexIs
  <2> QED  BY <1>4, <2>1
<1>7. /\ b \in Seq(Nat) /\ Len(b) = 2 + q.size /\ b[1] = Len(key[2]) /\ b[2] = 0
      /\ \A i \in 1..q.size : b[2 + i] = Pad(key[2], i)
  <2>1. /\ b \in Seq(Nat) /\ Len(b) = Lead(q) + q.size
        /\ q.type = "VARCHAR" => b[1] = Low(key[2]) /\ b[2] = High(key[2])
        /\ \A i \in 1..q.size : b[Lead(q) + i] = Pad(key[2], i)
    BY <1>2, <1>3, IndexIs
  <2> QED  BY <1>5, <1>plain, <2>1
<1>8. PICK x, n : x = a \o b /\ n = pack_length(p)
  OBVIOUS
<1>9. PICK la, lx : la = Len(a) /\ lx = Len(x)
  OBVIOUS
<1>10. /\ x \in Seq(Nat) /\ lx = 2 + p.size + (2 + q.size) /\ la = 2 + p.size
       /\ n = p.prefix + p.size /\ n \in Nat
       /\ \A i \in 1..lx : x[i] = IF i <= la THEN a[i] ELSE b[i - la]
  <2>1. /\ x \in Seq(Nat) /\ Len(x) = Len(a) + Len(b)
        /\ \A i \in 1..(Len(a) + Len(b)) : x[i] = IF i <= Len(a) THEN a[i] ELSE b[i - Len(a)]
    <3>1. a \in Seq(Nat) /\ b \in Seq(Nat)
      BY <1>6, <1>7
    <3> QED  BY <1>8, <3>1, ConcatProperties
  <2> QED  BY <1>4, <1>6, <1>7, <1>8, <1>9, <2>1
<1>sizes. /\ lx = 2 + p.size + (2 + q.size) /\ la = 2 + p.size /\ n = p.prefix + p.size
       /\ p.size \in Nat /\ q.size \in Nat /\ p.prefix \in Nat
       /\ lx \in Nat /\ la \in Nat /\ n \in Nat
  <2>2. p.size \in Nat /\ q.size \in Nat /\ p.prefix \in Nat
    BY <1>4, <1>5
  <2>3. lx = 2 + p.size + (2 + q.size) /\ la = 2 + p.size /\ n = p.prefix + p.size
    BY <1>10
  <2> QED  BY <2>2, <2>3, SMTT(30)
<1>11. PICK z : z = KeyAdj(ps, key)
  OBVIOUS
<1>12. \A j \in 1..(n + pack_length(q)) : z[j] = x[Before(p, 0, lx, Before(q, n, lx, j))]
  <2>1. x = Whole(ps, key) /\ n = pack_length(ps[1])
    BY <1>1, <1>3, <1>8 DEF Whole
  <2>2. \A j \in 1..(n + pack_length(q)) : z[j] = FromWhole(ps, key, j)
    BY <1>1, <1>11, <2>1, KeyAdjTwo
  <2> QED  BY <1>1, <1>9, <2>1, <2>2 DEF FromWhole
<1>13. PICK c, d : c = RowBytes(p, r[1]) /\ d = RowBytes(q, r[2])
  OBVIOUS
<1>14. /\ \A j \in 1..n : z[j] = c[j]
       /\ \A j \in 1..pack_length(q) : z[n + j] = d[j]
  BY <1>1, <1>8, <1>11, <1>13
<1>15. \A i \in 1..p.size : c[p.prefix + i] = Pad(r[1], i)
  BY <1>2, <1>13, RowIs
<1>16. /\ d[1] = Len(r[2])
       /\ q.prefix = 2 => d[2] = 0
       /\ \A i \in 1..q.size : d[q.prefix + i] = Pad(r[2], i)
  <2>1. /\ q.prefix > 0 => d[1] = Low(r[2])
        /\ q.prefix = 2 => d[2] = High(r[2])
        /\ \A i \in 1..q.size : d[q.prefix + i] = Pad(r[2], i)
    BY <1>2, <1>13, RowIs
  <2>2. q.prefix > 0
    BY <1>5
  <2> QED  BY <1>plain, <2>1, <2>2
<1>17. \A i \in 1..p.size : Pad(key[1], i) = 0 /\ Pad(r[1], i) = 0
  BY <1>4 DEF Pad
<1>18. p.size \in 1..p.size /\ 1 \in 1..q.size
  BY <1>4, <1>5
<1>19. CASE p.prefix = 1
  <2>1. ~Adjusted(p) /\ la = n + 1 /\ n \in Nat /\ lx \in Nat /\ lx >= n + 4
        /\ \A j : Before(p, 0, lx, j) = j
    <3>1. ~Adjusted(p)
      BY <1>4, <1>19
    <3>2. la = n + 1 /\ n \in Nat /\ lx \in Nat /\ lx >= n + 4
      <4>1. n = 1 + p.size
        BY <1>19, <1>sizes
      <4>2. PICK k, m : k = p.size /\ m = q.size
        OBVIOUS
      <4>3. k \in Nat /\ m \in Nat \ {0} /\ la = 2 + k /\ n = 1 + k /\ lx = 2 + k + (2 + m)
        BY <1>5, <1>sizes, <4>1, <4>2
      <4> QED  BY <4>3
    <3> QED  BY <3>1, <3>2 DEF Before
  <2>2. Len(r[2]) = 0
    <3>1. Before(q, n, lx, n + 1) = n + 1
      <4>1. ~(n + 1 < n + 1)
        BY <2>1
      <4> QED  BY <4>1 DEF Before
    <3>2. n + 1 \in 1..(n + pack_length(q)) /\ n + 1 \in 1..lx /\ n + 1 <= la
          /\ n + 1 = 2 + p.size /\ 1 \in 1..pack_length(q)
      <4>1. pack_length(q) \in Nat /\ pack_length(q) >= 1 /\ q.size \in Nat
        BY <1>5
      <4>2. n + 1 = 2 + p.size
        BY <1>10, <2>1
      <4> QED  BY <2>1, <4>1, <4>2
    <3>3. z[n + 1] = a[n + 1]
      BY <1>10, <1>12, <2>1, <3>1, <3>2
    <3>4. a[2 + p.size] = 0
      BY <1>6, <1>17, <1>18
    <3> QED  BY <1>14, <1>16, <3>2, <3>3, <3>4
  <2>3. \A i \in 1..q.size : d[q.prefix + i] = 0
    <3>1. \A i \in 1..q.size : Pad(r[2], i) = 0
      BY <1>5, <2>2 DEF Pad
    <3> QED  BY <1>16, <3>1
  <2>4. CASE Adjusted(q)
    <3>1. q.prefix + q.size >= 5 /\ 3 \in 1..pack_length(q)
      BY <1>2, <1>5, <2>4, AdjustedIs
    <3>2. PICK j : j = n + 3
      OBVIOUS
    <3>3. j \in 1..(n + pack_length(q)) /\ n + 1 < j /\ j < lx /\ j + 1 \in 1..lx
          /\ ~(j + 1 <= la) /\ j + 1 - la = 3
      BY <1>5, <2>1, <3>1, <3>2
    <3>4. Before(q, n, lx, j) = j + 1
      BY <2>4, <3>3 DEF Before
    <3>5. z[j] = x[j + 1]
      BY <1>12, <2>1, <3>3, <3>4
    <3>6. x[j + 1] = b[3]
      <4>1. PICK i : i = j + 1
        OBVIOUS
      <4>2. i \in 1..lx /\ ~(i <= la) /\ i - la = 3
        BY <1>sizes, <3>3, <4>1, SMTT(30)
      <4>3. x[i] = b[i - la]
        BY <1>10, <4>2
      <4> QED  BY <4>1, <4>2, <4>3
    <3>7. d[3] = 0
      <4>1. PICK i \in 1..q.size : q.prefix + i = 3
        <5>1. q.prefix = 1 => 2 \in 1..q.size /\ q.prefix + 2 = 3
          BY <1>5, <3>1
        <5>2. q.prefix = 2 => 1 \in 1..q.size /\ q.prefix + 1 = 3
          BY <1>5, <3>1
        <5> QED  BY <1>5, <5>1, <5>2
      <4> QED  BY <2>3, <4>1
    <3>8. b[3] = Pad(key[2], 1)
      <4>1. b[2 + 1] = Pad(key[2], 1) /\ 2 + 1 = 3
        BY <1>7, <1>18
      <4> QED  BY <4>1
    <3>9. Pad(key[2], 1) = 0
      BY <1>14, <3>1, <3>2, <3>5, <3>6, <3>7, <3>8
    <3> QED  BY <1>2, <1>5, <2>2, <3>9, EmptyText
  <2>5. CASE ~Adjusted(q)
    <3>1. PICK j : j = n + 2
      OBVIOUS
    <3>2. Before(q, n, lx, j) = j
      BY <2>5 DEF Before
    <3>3. j \in 1..(n + pack_length(q)) /\ j \in 1..lx /\ ~(j <= la) /\ j - la = 1
          /\ 2 \in 1..pack_length(q)
      BY <1>5, <2>1, <3>1, SMTT(30)
    <3>4. z[j] = x[j]
      BY <1>12, <2>1, <3>2, <3>3
    <3>5. x[j] = b[1]
      <4>1. x[j] = b[j - la]
        BY <1>10, <3>3
      <4> QED  BY <3>3, <4>1
    <3>6. d[2] = 0
      <4>1. q.prefix = 1 => d[1 + 1] = 0 /\ 1 + 1 = 2
        BY <1>18, <2>3
      <4> QED  BY <1>5, <1>16, <4>1
    <3> QED  BY <1>7, <1>14, <2>2, <3>1, <3>3, <3>4, <3>5, <3>6
  <2> QED  BY <2>4, <2>5
<1>20. CASE p.prefix = 2
  <2>1. Adjusted(p) /\ la = n /\ n \in Nat /\ n >= 5 /\ lx \in Nat /\ lx >= n + 3
    <3>1. Adjusted(p)
      BY <1>4, <1>20
    <3>2. n >= 5
      BY <1>2, <1>8, <3>1, AdjustedIs
    <3>3. la = n /\ n \in Nat /\ lx \in Nat /\ lx >= n + 3
      <4>1. n = 2 + p.size
        BY <1>20, <1>sizes
      <4>2. PICK k, m : k = p.size /\ m = q.size
        OBVIOUS
      <4>3. k \in Nat /\ m \in Nat \ {0} /\ la = 2 + k /\ n = 2 + k /\ lx = 2 + k + (2 + m)
        BY <1>5, <1>sizes, <4>1, <4>2
      <4> QED  BY <4>3
    <3> QED  BY <3>1, <3>2, <3>3
  <2>2. Len(key[2]) = 0
    <3>1. Before(q, n, lx, n) = n
      <4>1. ~(n + 1 < n)
        BY <2>1
      <4> QED  BY <4>1 DEF Before
    <3>2. Before(p, 0, lx, n) = n + 1
      <4>1. 0 + 1 < n /\ n < lx
        BY <1>5, <2>1
      <4> QED  BY <2>1, <4>1 DEF Before
    <3>3. n \in 1..(n + pack_length(q)) /\ n \in 1..n /\ n = 2 + p.size
      BY <1>5, <1>10, <1>20, <2>1
    <3>4. z[n] = x[n + 1]
      BY <1>12, <3>1, <3>2, <3>3
    <3>5. PICK i : i = n + 1
      OBVIOUS
    <3>6. i \in 1..lx /\ ~(i <= la) /\ i - la = 1
      BY <1>5, <2>1, <3>5
    <3>7. x[i] = b[1]
      <4>1. x[i] = b[i - la]
        BY <1>10, <3>6
      <4> QED  BY <3>6, <4>1
    <3>8. c[n] = 0
      <4>1. c[p.prefix + p.size] = 0
        BY <1>15, <1>17, <1>18
      <4> QED  BY <1>10, <4>1
    <3> QED  BY <1>7, <1>14, <3>3, <3>4, <3>5, <3>7, <3>8
  <2>3. Len(r[2]) = 0
    <3>1. PICK i : i = n + 1
      OBVIOUS
    <3>2. Before(q, n, lx, i) = i
      <4>1. ~(n + 1 < i)
        BY <2>1, <3>1
      <4> QED  BY <4>1 DEF Before
    <3>3. Before(p, 0, lx, i) = i + 1
      <4>1. 0 + 1 < i /\ i < lx
        BY <1>5, <2>1, <3>1
      <4> QED  BY <2>1, <4>1 DEF Before
    <3>4. i \in 1..(n + pack_length(q)) /\ i + 1 \in 1..lx /\ ~(i + 1 <= la) /\ i + 1 - la = 2
          /\ 1 \in 1..pack_length(q)
      BY <1>5, <2>1, <3>1
    <3>5. z[i] = x[i + 1]
      BY <1>12, <3>2, <3>3, <3>4
    <3>6. x[i + 1] = b[2]
      <4>1. PICK j : j = i + 1
        OBVIOUS
      <4>2. j \in 1..lx /\ ~(j <= la) /\ j - la = 2
        BY <1>sizes, <3>4, <4>1, SMTT(30)
      <4>3. x[j] = b[j - la]
        BY <1>10, <4>2
      <4> QED  BY <4>1, <4>2, <4>3
    <3> QED  BY <1>7, <1>14, <1>16, <3>1, <3>4, <3>5, <3>6
  <2> QED  BY <2>2, <2>3
<1> QED  BY <1>4, <1>19, <1>20

-----------------------------------------------------------------------------
(* Keys. *)

LEMMA KeyAdjIs ==
    ASSUME NEW ps \in Columns, NEW key \in Keys(ps), Len(ps) = 1,
           NEW j \in 1..pack_length(ps[1])
    PROVE  KeyAdj(ps, key)[j] = Lone(ps[1], key[1], j)
BY KeyAdjOne DEF Lone

LEMMA Lengths ==
    ASSUME NEW ps \in Columns, NEW key \in Keys(ps), NEW r \in Keys(ps)
    PROVE  /\ KeyAdj(ps, key) \in Seq(Nat) /\ get_primary_key(ps, r) \in Seq(Nat)
           /\ Len(KeyAdj(ps, key)) = Len(get_primary_key(ps, r))
           /\ Len(ps) = 1 => Len(get_primary_key(ps, r)) = pack_length(ps[1])
           /\ Len(ps) = 2 => /\ Len(get_primary_key(ps, r))
                                  = pack_length(ps[1]) + pack_length(ps[2])
                             /\ \A j \in 1..pack_length(ps[1]) :
                                   get_primary_key(ps, r)[j] = RowBytes(ps[1], r[1])[j]
                             /\ \A j \in 1..pack_length(ps[2]) :
                                   get_primary_key(ps, r)[pack_length(ps[1]) + j]
                                     = RowBytes(ps[2], r[2])[j]
<1>1. CASE Len(ps) = 1
  <2>1. ps[1] \in Part /\ r[1] \in Texts(ps[1])
    BY <1>1, KeyParts
  <2>2. get_primary_key(ps, r) \in Seq(Nat) /\ Len(get_primary_key(ps, r)) = pack_length(ps[1])
    BY <1>1, <2>1, PrimaryKeyOne, RowIs
  <2>3. KeyAdj(ps, key) \in Seq(Nat) /\ Len(KeyAdj(ps, key)) = pack_length(ps[1])
    BY <1>1, KeyAdjOne
  <2> QED  BY <1>1, <2>2, <2>3
<1>2. CASE Len(ps) = 2
  <2>1. PICK p, q : p = ps[1] /\ q = ps[2]
    OBVIOUS
  <2>2. p \in Part /\ r[1] \in Texts(p) /\ q \in Part /\ r[2] \in Texts(q)
    BY <1>2, <2>1, KeyParts
  <2>3. PICK c, d : c = RowBytes(p, r[1]) /\ d = RowBytes(q, r[2])
    OBVIOUS
  <2>4. PICK m, n : m = pack_length(p) /\ n = pack_length(q)
    OBVIOUS
  <2>5. /\ c \in Seq(Nat) /\ Len(c) = m /\ d \in Seq(Nat) /\ Len(d) = n
        /\ m \in Nat /\ n \in Nat
    BY <2>2, <2>3, <2>4, RowIs, LeadIs
  <2>6. PICK g : g = c \o d
    OBVIOUS
  <2>7. /\ g \in Seq(Nat) /\ Len(g) = m + n
        /\ \A i \in 1..(m + n) : g[i] = IF i <= m THEN c[i] ELSE d[i - m]
    BY <2>5, <2>6, ConcatProperties
  <2>8. g = get_primary_key(ps, r)
    BY <1>2, <2>1, <2>3, <2>6, PrimaryKeyTwo
  <2>9. \A j \in 1..m : g[j] = c[j]
    BY <2>5, <2>7
  <2>10. ASSUME NEW j \in 1..n PROVE g[m + j] = d[j]
    <3>1. PICK i : i = m + j
      OBVIOUS
    <3>2. i \in 1..(m + n) /\ ~(i <= m) /\ i - m = j
      BY <2>5, <3>1
    <3>3. g[i] = d[i - m]
      BY <2>7, <3>2
    <3> QED  BY <3>1, <3>2, <3>3
  <2>11. KeyAdj(ps, key) \in Seq(Nat) /\ Len(KeyAdj(ps, key)) = m + n
    BY <1>2, <2>1, <2>4, KeyAdjTwo
  <2> QED  BY <1>2, <2>1, <2>3, <2>4, <2>7, <2>8, <2>9, <2>10, <2>11
<1> QED  BY <1>1, <1>2, KeyParts

(* Keys that are told their sizes find their own row.                      *)
LEMMA FindsItself ==
    ASSUME NEW ps \in Columns, NEW key \in Keys(ps), \A i \in DOMAIN ps : SizeTells(ps[i])
    PROVE  KeyAdj(ps, key) = get_primary_key(ps, key)
<1>1. /\ KeyAdj(ps, key) \in Seq(Nat) /\ get_primary_key(ps, key) \in Seq(Nat)
      /\ Len(KeyAdj(ps, key)) = Len(get_primary_key(ps, key))
  BY Lengths
<1>2. CASE Len(ps) = 1
  <2>1. ps[1] \in Part /\ key[1] \in Texts(ps[1]) /\ SizeTells(ps[1])
    BY <1>2, KeyParts
  <2>2. \A j \in 1..pack_length(ps[1]) : KeyAdj(ps, key)[j] = get_primary_key(ps, key)[j]
    BY <1>2, <2>1, KeyAdjIs, LoneIs, PrimaryKeyOne
  <2>3. Len(get_primary_key(ps, key)) = pack_length(ps[1])
    BY <1>2, Lengths
  <2> QED  BY <1>1, <2>2, <2>3, SeqEqual
<1>3. CASE Len(ps) = 2
  <2>1. /\ ps[1] \in Part /\ key[1] \in Texts(ps[1]) /\ SizeTells(ps[1])
        /\ ps[2] \in Part /\ key[2] \in Texts(ps[2]) /\ SizeTells(ps[2])
    BY <1>3, KeyParts
  <2>2. PICK m, n : m = pack_length(ps[1]) /\ n = pack_length(ps[2])
    OBVIOUS
  <2>3. m \in Nat /\ n \in Nat
    BY <2>1, <2>2, LeadIs
  <2>4. PICK x, g : x = KeyAdj(ps, key) /\ g = get_primary_key(ps, key)
    OBVIOUS
  <2>5. /\ Len(g) = m + n
        /\ \A j \in 1..m : g[j] = RowBytes(ps[1], key[1])[j]
        /\ \A j \in 1..n : g[m + j] = RowBytes(ps[2], key[2])[j]
    BY <1>3, <2>2, <2>4, Lengths
  <2>6. \A j \in 1..m : x[j] = g[j]
    BY <1>3, <2>1, <2>2, <2>4, <2>5, FirstColumn, LoneIs
  <2>7. \A j \in 1..n : x[m + j] = g[m + j]
    BY <1>3, <2>1, <2>2, <2>4, <2>5, SecondColumn, LoneIs
  <2>8. ASSUME NEW j \in 1..(m + n) PROVE x[j] = g[j]
    <3>1. CASE j <= m
      BY <2>3, <2>6, <3>1
    <3>2. CASE j > m
      <4>1. PICK i : i = j - m
        OBVIOUS
      <4>2. i \in 1..n /\ m + i = j
        BY <2>3, <3>2, <4>1
      <4> QED  BY <2>7, <4>2
    <3> QED  BY <2>3, <3>1, <3>2
  <2> QED  BY <1>1, <2>4, <2>5, <2>8, SeqEqual
<1> QED  BY <1>2, <1>3, KeyParts

(* Where sizes tell or texts are plain, a key finds no row but its own.    *)
LEMMA FindsNoOther ==
    ASSUME NEW ps \in Columns, NEW key \in Keys(ps), NEW r \in Keys(ps), ~Displaced(ps),
           \/ \A i \in DOMAIN ps : SizeTells(ps[i])
           \/ Plain(ps, key) /\ Plain(ps, r),
           KeyAdj(ps, key) = get_primary_key(ps, r)
    PROVE  key = r
<1>plain. ASSUME NEW i \in 1..Len(ps)
      PROVE  SizeTells(ps[i]) \/ (PlainText(key[i]) /\ PlainText(r[i]))
  <2>1. i \in DOMAIN ps /\ ps[i] \in Part
    BY KeyParts
  <2>2. ps[i].type # "VARCHAR" => SizeTells(ps[i])
    BY DEF SizeTells
  <2> QED  BY <2>1, <2>2 DEF Plain, PlainText
<1>1. CASE Len(ps) = 1
  <2>1. ps[1] \in Part /\ key[1] \in Texts(ps[1]) /\ r[1] \in Texts(ps[1])
    BY <1>1, KeyParts
  <2>2. \A j \in 1..pack_length(ps[1]) : Lone(ps[1], key[1], j) = RowBytes(ps[1], r[1])[j]
    BY <1>1, KeyAdjIs, PrimaryKeyOne
  <2>3. key[1] = r[1]
    BY <1>1, <1>plain, <2>1, <2>2, LoneMatches
  <2> QED  BY <1>1, <2>3, KeyParts
<1>2. CASE Len(ps) = 2
  <2>1. /\ ps[1] \in Part /\ key[1] \in Texts(ps[1]) /\ r[1] \in Texts(ps[1])
        /\ ps[2] \in Part /\ key[2] \in Texts(ps[2]) /\ r[2] \in Texts(ps[2])
    BY <1>2, KeyParts
  <2>2. /\ \A j \in 1..pack_length(ps[1]) : KeyAdj(ps, key)[j] = RowBytes(ps[1], r[1])[j]
        /\ \A j \in 1..pack_length(ps[2]) :
              KeyAdj(ps, key)[pack_length(ps[1]) + j] = RowBytes(ps[2], r[2])[j]
    BY <1>2, Lengths
  <2>3. CASE SizeTells(ps[1])
    <3>1. \A j \in 1..pack_length(ps[1]) : Lone(ps[1], key[1], j) = RowBytes(ps[1], r[1])[j]
      BY <1>2, <2>2, <2>3, FirstColumn
    <3>2. \A j \in 1..pack_length(ps[2]) : Lone(ps[2], key[2], j) = RowBytes(ps[2], r[2])[j]
      BY <1>2, <2>2, <2>3, SecondColumn
    <3>3. key[1] = r[1]
      BY <1>2, <1>plain, <2>1, <3>1, LoneMatches
    <3>4. key[2] = r[2]
      BY <1>2, <1>plain, <2>1, <3>2, LoneMatches
    <3> QED  BY <1>2, <3>3, <3>4, KeyParts
  <2>4. CASE ~SizeTells(ps[1])
    <3>1. ps[1].size \in Nat \ {0} /\ ps[1].prefix \in {1, 2}
          /\ pack_length(ps[1]) = ps[1].prefix + ps[1].size
      BY <2>1, <2>4, PartIs DEF SizeTells
    <3>2. 1 \in 1..pack_length(ps[1]) /\ 2 \in 1..pack_length(ps[1])
      BY <3>1
    <3>3. /\ Lone(ps[1], key[1], 1) = RowBytes(ps[1], r[1])[1]
          /\ Lone(ps[1], key[1], 2) = RowBytes(ps[1], r[1])[2]
      BY <1>2, <2>2, <3>2, FirstColumn
    <3>4. Len(key[1]) = 0 /\ Len(r[1]) = 0
      BY <1>2, <1>plain, <2>1, <2>4, <3>3, MisledIsEmpty
    <3>5. ps[2].type = "VARCHAR"
      <4>1. 1 \in DOMAIN ps /\ 2 \in DOMAIN ps
        BY <1>2, KeyParts
      <4>2. ps[2].type # "LONG"
        BY <2>4, <4>1 DEF Displaced
      <4> QED  BY <2>1, <4>2, PartIs
    <3>plain. PlainText(key[2]) /\ PlainText(r[2])
      <4>1. 1 \in DOMAIN ps /\ 2 \in DOMAIN ps
        BY <1>2, KeyParts
      <4> QED  BY <2>4, <3>5, <4>1 DEF Plain, PlainText
    <3>6. Len(key[2]) = 0 /\ Len(r[2]) = 0
      BY <1>2, <2>2, <2>4, <3>4, <3>5, <3>plain, MisledSecond
    <3>7. key[1] = r[1] /\ key[2] = r[2]
      BY <2>1, <3>4, <3>6, BothEmpty
    <3> QED  BY <1>2, <3>7, KeyParts
  <2> QED  BY <2>3, <2>4
<1> QED  BY <1>1, <1>2, KeyParts

-----------------------------------------------------------------------------
(* Theorems. *)

KeyInv ==
    /\ parts \in Columns /\ row \in Keys(parts) /\ sought \in Keys(parts)
    /\ found \in {"none", "yes", "no"}
    /\ found = "yes" => KeyAdj(parts, sought) = get_primary_key(parts, row)
    /\ found = "no" => KeyAdj(parts, sought) # get_primary_key(parts, row)

LEMMA KeyInvariant == KeySpec => []KeyInv
<1>1. KeyInit => KeyInv
  BY DEF KeyInit, KeyInv, Columns
<1>2. KeyInv /\ [index_read]_keyVars => KeyInv'
  <2> SUFFICES ASSUME KeyInv, [index_read]_keyVars PROVE KeyInv'
    OBVIOUS
  <2>1. CASE index_read
    BY <2>1 DEF index_read, KeyInv
  <2>2. CASE UNCHANGED keyVars
    BY <2>2 DEF keyVars, KeyInv
  <2> QED  BY <2>1, <2>2
<1> QED  BY <1>1, <1>2, PTL DEF KeySpec

(* The types, and that index_read hashes as many bytes as write_row did:   *)
(* the adjusted key is cut to the size that its columns have in a row.     *)
THEOREM KeysAreTyped == KeySpec => []KeyTypeOK
<1>1. KeyInv => KeyTypeOK
  BY Lengths DEF KeyInv, KeyTypeOK, Columns
<1> QED  BY <1>1, KeyInvariant, PTL

(* The loop over key_part in index_read takes no row for another, whatever *)
(* the bytes of a character and the declared lengths, where the texts have *)
(* no byte of 0 and a length of one byte, unless a number is displaced: a  *)
(* byte of length that stays in the key, or that the shift takes from the  *)
(* text, forces both texts to be empty.                                    *)
THEOREM NoRowIsTaken == KeySpec => []NoWrongRow
<1>1. KeyInv => NoWrongRow
  BY FindsNoOther DEF KeyInv, NoWrongRow
<1> QED  BY <1>1, KeyInvariant, PTL

(* Where pack_length() % 4 tells the format of each VARCHAR, index_read    *)
(* makes of an index key exactly the bytes that get_primary_key hashed: it *)
(* finds the row it asks for, and no other.                                *)
THEOREM LookupsAreExact == KeySpec => []LookupExact
<1>1. KeyInv => LookupExact
  <2> SUFFICES ASSUME KeyInv, found # "none", \A i \in DOMAIN parts : SizeTells(parts[i])
               PROVE  found = "yes" <=> sought = row
    BY DEF LookupExact
  <2>1. ~Displaced(parts)
    BY DEF Displaced
  <2>2. found = "yes" => sought = row
    BY <2>1, FindsNoOther DEF KeyInv
  <2>3. sought = row => found = "yes"
    BY FindsItself DEF KeyInv
  <2> QED  BY <2>2, <2>3
<1> QED  BY <1>1, KeyInvariant, PTL

(* Where the size of a key's only column misleads, exactly the row is      *)
(* found whose text is the sought one moved by one byte behind the byte of *)
(* length that index_read keeps or drops, with any bytes and any lengths.  *)
THEOREM MisledLookups == KeySpec => []MisledExact
<1>1. KeyInv => MisledExact
  <2> SUFFICES ASSUME KeyInv, found # "none", Len(parts) = 1, ~SizeTells(parts[1])
               PROVE  found = "yes" <=>
                        /\ Low(sought[1]) = Low(row[1])
                        /\ IF parts[1].prefix = 1
                           THEN Filled(parts[1], row[1])
                                  = <<0>> \o Front(Filled(parts[1], sought[1]))
                           ELSE /\ Filled(parts[1], sought[1])
                                     = <<High(row[1])>> \o Front(Filled(parts[1], row[1]))
                                /\ Last(Filled(parts[1], sought[1]))
                                     = Last(Filled(parts[1], row[1]))
    BY DEF MisledExact
  <2>1. /\ parts \in Columns /\ row \in Keys(parts) /\ sought \in Keys(parts)
        /\ found = "yes" <=> KeyAdj(parts, sought) = get_primary_key(parts, row)
    BY DEF KeyInv
  <2>2. parts[1] \in Part /\ sought[1] \in Texts(parts[1]) /\ row[1] \in Texts(parts[1])
    BY <2>1, KeyParts
  <2>3. KeyAdj(parts, sought) = get_primary_key(parts, row)
          <=> \A j \in 1..pack_length(parts[1]) :
                 Lone(parts[1], sought[1], j) = RowBytes(parts[1], row[1])[j]
    <3>1. /\ \A j \in 1..pack_length(parts[1]) :
                KeyAdj(parts, sought)[j] = Lone(parts[1], sought[1], j)
          /\ get_primary_key(parts, row) = RowBytes(parts[1], row[1])
      BY <2>1, KeyAdjIs, PrimaryKeyOne
    <3>2. /\ KeyAdj(parts, sought) \in Seq(Nat) /\ get_primary_key(parts, row) \in Seq(Nat)
          /\ Len(KeyAdj(parts, sought)) = pack_length(parts[1])
          /\ Len(get_primary_key(parts, row)) = pack_length(parts[1])
      BY <2>1, Lengths
    <3> QED  BY <3>1, <3>2, SeqEqual
  <2> QED  BY <2>1, <2>2, <2>3, MisledMatches
<1> QED  BY <1>1, KeyInvariant, PTL

=============================================================================
