-------------------------- MODULE ScanCodec_proofs --------------------------
(***************************************************************************)
(* ScanCodec, for every word size, all values of bytes up to any length    *)
(* that a word can count, and tables of up to two rows: its types, which   *)
(* tables a scan gives back and that it loses no key, and that get, put,   *)
(* and put_batch of short values change nothing on the way.                *)
(*                                                                         *)
(* The recursions over digits, pieces and words are proved to have their   *)
(* values with the well-foundedness of the natural numbers; the loops over *)
(* rows are unrolled.                                                      *)
(***************************************************************************)
EXTENDS ScanCodec, SequenceTheorems, WellFoundedInduction, TLAPS

-----------------------------------------------------------------------------
(* Induction and recursion over natural numbers. *)

(* Induction over numbers, about a set of them.                            *)
LEMMA SetInduction ==
    ASSUME NEW S, S \subseteq Nat, 0 \in S, \A n \in S : n + 1 \in S
    PROVE  S = Nat
<1> DEFINE R == OpToRel(<, Nat)
           T == Nat \ S
<1>1. IsWellFoundedOn(R, Nat)
  BY NatLessThanWellFounded
<1>2. \A x, y \in Nat : <<y, x>> \notin R => x <= y
  BY DEF OpToRel
<1> HIDE DEF R
<1> SUFFICES ASSUME T # {} PROVE FALSE
  OBVIOUS
<1>3. T \subseteq Nat
  OBVIOUS
<1>4. \E x \in T : \A y \in T : <<y, x>> \notin R
  BY ONLY <1>1, <1>3, WFMin, T # {}
<1>5. PICK x \in T : \A y \in T : x <= y
  BY <1>2, <1>3, <1>4
<1>6. x \in Nat /\ x # 0 /\ x - 1 \in Nat /\ x - 1 + 1 = x
  BY <1>5
<1>7. x - 1 \notin T
  BY <1>5, <1>6
<1> QED  BY <1>5, <1>6, <1>7

(* A function whose values follow from one another, by g; there is one.    *)
Follows(f, c, m, g) == f[0] = c /\ \A i \in 1..m : f[i] = g[f[i - 1]][i]

LEMMA PrimitiveRecursion ==
    ASSUME NEW c \in Nat, NEW m \in Nat, NEW g \in [Nat -> [Nat -> Nat]]
    PROVE  \E f \in [0..m -> Nat] : Follows(f, c, m, g)
<1> USE DEF Follows
<1> DEFINE Good(k, f) == f[0] = c /\ \A i \in 1..k : f[i] = g[f[i - 1]][i]
           S == {k \in Nat : \E f \in [0..k -> Nat] : Good(k, f)}
<1>1. 0 \in S
  <2>1. [i \in 0..0 |-> c] \in [0..0 -> Nat] /\ Good(0, [i \in 0..0 |-> c])
    OBVIOUS
  <2> QED  BY <2>1
<1>2. ASSUME NEW k \in Nat, NEW f \in [0..k -> Nat], Good(k, f)
      PROVE  \E e \in [0..(k + 1) -> Nat] : Good(k + 1, e)
  <2> DEFINE h == [i \in 0..(k + 1) |-> IF i <= k THEN f[i] ELSE g[f[k]][k + 1]]
  <2>1. k \in 0..k /\ k + 1 \in Nat
    OBVIOUS
  <2>2. f[k] \in Nat
    BY <2>1
  <2>3. g[f[k]] \in [Nat -> Nat]
    BY <2>2
  <2>4. g[f[k]][k + 1] \in Nat
    BY <2>1, <2>3
  <2>5. h \in [0..(k + 1) -> Nat]
    <3>1. ASSUME NEW i \in 0..(k + 1), i <= k PROVE f[i] \in Nat
      <4>1. i \in 0..k
        BY <3>1
      <4> QED  BY <4>1
    <3> QED  BY <2>4, <3>1
  <2>6. h[0] = c
    BY <1>2
  <2>7. ASSUME NEW i \in 1..(k + 1) PROVE h[i] = g[h[i - 1]][i]
    <3>1. i - 1 \in 0..k /\ i - 1 <= k
      OBVIOUS
    <3>2. h[i - 1] = f[i - 1]
      BY <3>1
    <3>3. CASE i <= k
      <4>1. i \in 1..k /\ i \in 0..(k + 1)
        BY <3>3
      <4>2. h[i] = f[i]
        BY <3>3, <4>1
      <4>3. f[i] = g[f[i - 1]][i]
        BY <1>2, <4>1
      <4> QED  BY <3>2, <4>2, <4>3
    <3>4. CASE ~(i <= k)
      <4>1. i = k + 1 /\ i - 1 = k
        BY <3>4
      <4>2. h[k + 1] = g[f[k]][k + 1]
        OBVIOUS
      <4> QED  BY <3>2, <4>1, <4>2
    <3> QED  BY <3>3, <3>4
  <2> HIDE DEF h
  <2> QED  BY <2>5, <2>6, <2>7
<1>3. ASSUME NEW k \in S PROVE k + 1 \in S
  <2>1. k \in Nat /\ k + 1 \in Nat
    OBVIOUS
  <2>2. PICK f \in [0..k -> Nat] : Good(k, f)
    OBVIOUS
  <2> HIDE DEF Good
  <2>3. \E e \in [0..(k + 1) -> Nat] : Good(k + 1, e)
    BY <1>2, <2>1, <2>2
  <2> QED  BY <2>1, <2>3
<1>4. S = Nat
  <2> HIDE DEF Good
  <2>1. S \subseteq Nat
    OBVIOUS
  <2> HIDE DEF S
  <2> QED  BY <1>1, <1>3, <2>1, SetInduction
<1> QED  BY <1>4

-----------------------------------------------------------------------------
(* Numbers of W digits. *)

(* A word has up to 64 digits, two for a byte.                             *)
LEMMA WidthIs ==
    /\ W \in Nat /\ WB \in Nat /\ W = 2 * WB /\ 1 <= WB /\ WB <= 32
    /\ 2 <= W /\ W <= 64
<1>1. PICK i \in 1..32 : W = 2 * i
  BY WidthAssumption
<1> QED  BY <1>1 DEF WB

(* The quotients by 16 exist as a function, and Rests is it.               *)
LEMMA Quotients ==
    ASSUME NEW n \in Nat, NEW m \in Nat
    PROVE  \E f \in [0..m -> Nat] : f[0] = n /\ \A i \in 1..m : f[i] = f[i - 1] \div 16
<1> DEFINE d == [x \in Nat |-> [j \in Nat |-> x \div 16]]
<1> PICK g : g = d
  OBVIOUS
<1>1. g \in [Nat -> [Nat -> Nat]] /\ \A x, j \in Nat : g[x][j] = x \div 16
  OBVIOUS
<1> HIDE DEF d
<1>2. \E f \in [0..m -> Nat] : Follows(f, n, m, g)
  BY <1>1, PrimitiveRecursion
<1>3. PICK f \in [0..m -> Nat] : f[0] = n /\ \A i \in 1..m : f[i] = g[f[i - 1]][i]
  BY <1>2 DEF Follows
<1>4. ASSUME NEW i \in 1..m PROVE f[i] = f[i - 1] \div 16
  <2>1. i - 1 \in 0..m /\ f[i - 1] \in Nat /\ i \in Nat
    OBVIOUS
  <2> QED  BY <1>1, <1>3, <2>1
<1> QED  BY <1>3, <1>4

LEMMA RestsIs ==
    ASSUME NEW n \in Nat
    PROVE  /\ Rests(n) \in [0..W -> Nat] /\ Rests(n)[0] = n
           /\ \A i \in 1..W : Rests(n)[i] = Rests(n)[i - 1] \div 16
<1> DEFINE G(f) == [i \in 0..W |-> IF i = 0 THEN n ELSE f[i - 1] \div 16]
           F == CHOOSE f : f = G(f)
<1>1. W \in Nat
  BY WidthIs
<1>2. \E f : f = G(f)
  <2>1. PICK f \in [0..W -> Nat] : f[0] = n /\ \A i \in 1..W : f[i] = f[i - 1] \div 16
    BY <1>1, Quotients
  <2>2. f = G(f)
    BY <1>1, <2>1
  <2> QED  BY <2>2
<1>3. F = G(F)
  BY <1>2
<1>4. Rests(n) = F
  BY DEF Rests
<1> HIDE DEF F
<1>5. F[0] = n /\ \A i \in 1..W : F[i] = F[i - 1] \div 16
  BY <1>1, <1>3
<1>6. F \in [0..W -> Nat]
  <2> DEFINE S == {i \in Nat : i <= W => F[i] \in Nat}
  <2>1. 0 \in S
    BY <1>1, <1>5
  <2>2. ASSUME NEW i \in S PROVE i + 1 \in S
    <3>1. SUFFICES ASSUME i + 1 <= W PROVE F[i + 1] \in Nat
      OBVIOUS
    <3> PICK j : j = i + 1
      OBVIOUS
    <3>2. j \in 1..W /\ j - 1 = i /\ i <= W
      BY <1>1, <3>1
    <3>3. F[i] \in Nat
      BY <3>2
    <3>4. F[j] = F[i] \div 16
      BY <1>5, <3>2
    <3> QED  BY <3>3, <3>4
  <2>3. S = Nat
    <3>1. S \subseteq Nat
      OBVIOUS
    <3> HIDE DEF S
    <3> QED  BY <2>1, <2>2, <3>1, SetInduction
  <2>4. \A i \in 0..W : F[i] \in Nat
    BY <1>1, <2>3
  <2> QED  BY <1>3, <2>4
<1> QED  BY <1>4, <1>5, <1>6

Fits(n) == Rests(n)[W] = 0

(* The count and the offsets of a small table fit into any word.           *)
LEMMA SmallFits ==
    ASSUME NEW n \in 0..255
    PROVE  Fits(n)
<1>1. PICK r : r = Rests(n)
  OBVIOUS
<1>2. /\ W \in Nat /\ 2 <= W /\ r \in [0..W -> Nat] /\ r[0] = n
      /\ \A i \in 1..W : r[i] = r[i - 1] \div 16
  <2>1. n \in Nat
    OBVIOUS
  <2> QED  BY <1>1, <2>1, RestsIs, WidthIs
<1>3. r[1] = n \div 16 /\ r[2] = r[1] \div 16
  BY <1>2
<1>4. r[2] = 0
  BY <1>3
<1> DEFINE S == {i \in Nat : i + 2 <= W => r[i + 2] = 0}
<1>5. 0 \in S
  BY <1>4
<1>6. ASSUME NEW i \in S PROVE i + 1 \in S
  <2>1. SUFFICES ASSUME i + 1 + 2 <= W PROVE r[i + 1 + 2] = 0
    OBVIOUS
  <2>2. i \in Nat /\ i + 1 + 2 \in 1..W /\ i + 1 + 2 - 1 = i + 2 /\ r[i + 2] = 0
    BY <1>2, <2>1
  <2> QED  BY <1>2, <2>2
<1>7. S = Nat
  <2>1. S \subseteq Nat
    OBVIOUS
  <2> HIDE DEF S
  <2> QED  BY <1>5, <1>6, <2>1, SetInduction
<1>8. W - 2 \in Nat /\ W - 2 + 2 = W
  BY <1>2
<1>9. r[W] = 0
  BY <1>7, <1>8
<1> QED  BY <1>1, <1>9 DEF Fits

(* What int_to_hex writes is a word, and hex_to_int reads it back.         *)
LEMMA NumberExact ==
    ASSUME NEW n \in Nat, Fits(n)
    PROVE  /\ int_to_hex(n) \in Seq(Digit) /\ Len(int_to_hex(n)) = W
           /\ hex_to_int(int_to_hex(n)) = n
<1>1. PICK r : r = Rests(n)
  OBVIOUS
<1>2. /\ W \in Nat /\ r \in [0..W -> Nat] /\ r[0] = n /\ r[W] = 0
      /\ \A i \in 1..W : r[i] = r[i - 1] \div 16
  BY <1>1, RestsIs, WidthIs DEF Fits
<1>3. PICK d : d = int_to_hex(n)
  OBVIOUS
<1>4. d = [i \in 1..W |-> r[W - i] % 16]
  BY <1>1, <1>3 DEF int_to_hex
<1>5. ASSUME NEW i \in 1..W
      PROVE  W - i \in 0..W /\ r[W - i] \in Nat /\ r[W - i] % 16 \in 0..15
  <2>1. W - i \in 0..W
    BY <1>2
  <2> PICK x : x = r[W - i]
    OBVIOUS
  <2>2. x \in Nat
    BY <1>2, <2>1
  <2>3. x % 16 \in 0..15
    BY <2>2
  <2> QED  BY <2>1, <2>2, <2>3
<1>6. d \in Seq(Digit) /\ Len(d) = W
  BY <1>2, <1>4, <1>5 DEF Digit
<1> DEFINE G(f) == [i \in 0..Len(d) |-> IF i = 0 THEN 0 ELSE 16 * f[i - 1] + d[i]]
           F == CHOOSE f : f = G(f)
<1>7. \E f : f = G(f)
  <2> DEFINE h == [i \in 0..W |-> r[W - i]]
  <2>1. h[0] = 0
    BY <1>2
  <2>2. ASSUME NEW i \in 1..W PROVE h[i] = 16 * h[i - 1] + d[i]
    <3>1. /\ i \in 0..W /\ i - 1 \in 0..W /\ W - (i - 1) \in 1..W
          /\ W - (i - 1) - 1 = W - i
      BY <1>2
    <3>2. h[i] = r[W - i] /\ h[i - 1] = r[W - (i - 1)] /\ d[i] = r[W - i] % 16
      BY <1>4, <3>1
    <3>3. r[W - (i - 1)] = r[W - i] \div 16
      BY <1>2, <3>1
    <3>4. \A a, b \in Nat : b = a \div 16 => a = 16 * b + (a % 16)
      OBVIOUS
    <3>5. r[W - i] \in Nat /\ r[W - (i - 1)] \in Nat
      BY <1>2, <3>1
    <3> QED  BY <3>2, <3>3, <3>4, <3>5
  <2>3. ASSUME NEW i \in 0..W PROVE h[i] = IF i = 0 THEN 0 ELSE 16 * h[i - 1] + d[i]
    <3>1. i = 0 \/ i \in 1..W
      BY <1>2
    <3> HIDE DEF h
    <3> QED  BY <2>1, <2>2, <3>1
  <2>4. h = G(h)
    BY <1>6, <2>3
  <2> QED  BY <2>4
<1>8. F = G(F)
  BY <1>7
<1>9. hex_to_int(d) = F[Len(d)]
  BY DEF hex_to_int
<1> HIDE DEF F
<1>10. /\ F[0] = 0
       /\ \A i \in 1..W : F[i] = 16 * F[i - 1] + d[i]
  BY <1>2, <1>6, <1>8
<1> DEFINE S == {i \in Nat : i <= W => F[i] = r[W - i]}
<1>11. 0 \in S
  BY <1>2, <1>10
<1>12. ASSUME NEW i \in S PROVE i + 1 \in S
  <2>1. SUFFICES ASSUME i + 1 <= W PROVE F[i + 1] = r[W - (i + 1)]
    OBVIOUS
  <2>2. /\ i \in Nat /\ i + 1 \in 1..W /\ i + 1 - 1 = i
        /\ W - i \in 1..W /\ W - i - 1 = W - (i + 1) /\ W - (i + 1) \in 0..W
    BY <1>2, <2>1
  <2>3. F[i] = r[W - i]
    <3>1. i <= W
      BY <2>1, <2>2, <1>2
    <3> QED  BY <3>1
  <2>4. F[i + 1] = 16 * F[i] + d[i + 1] /\ d[i + 1] = r[W - (i + 1)] % 16
    BY <1>4, <1>10, <2>2
  <2>5. r[W - i] = r[W - (i + 1)] \div 16
    BY <1>2, <2>2
  <2>6. \A a, b \in Nat : b = a \div 16 => a = 16 * b + (a % 16)
    OBVIOUS
  <2>7. r[W - i] \in Nat /\ r[W - (i + 1)] \in Nat
    BY <1>2, <2>2
  <2> QED  BY <2>3, <2>4, <2>5, <2>6, <2>7
<1>13. S = Nat
  <2>1. S \subseteq Nat
    OBVIOUS
  <2> HIDE DEF S
  <2> QED  BY <1>11, <1>12, <2>1, SetInduction
<1>14. F[W] = n
  BY <1>2, <1>13
<1> QED  BY <1>3, <1>6, <1>9, <1>14

-----------------------------------------------------------------------------
(* Bytes in digits. *)

(* Bytes in digits are read back, and digits are bytes of two.             *)
LEMMA BytesExact ==
    ASSUME NEW v \in Seq(0..255)
    PROVE  /\ byte_array_to_hex(v) \in Seq(Digit)
           /\ Len(byte_array_to_hex(v)) = 2 * Len(v)
           /\ hex_to_byte_array(byte_array_to_hex(v)) = v
<1>1. PICK n : n = Len(v)
  OBVIOUS
<1>2. n \in Nat /\ \A i \in 1..n : v[i] \in 0..255
  BY <1>1, LenProperties, ElementOfSeq
<1>3. PICK d : d = byte_array_to_hex(v)
  OBVIOUS
<1>4. d = [i \in 1..(2 * n) |-> IF i % 2 = 1 THEN v[(i + 1) \div 2] \div 16
                                           ELSE v[i \div 2] % 16]
  BY <1>1, <1>3 DEF byte_array_to_hex
<1>5. \A x \in 0..255 : x \div 16 \in 0..15 /\ x % 16 \in 0..15 /\ 16 * (x \div 16) + (x % 16) = x
  OBVIOUS
<1>6. ASSUME NEW i \in 1..(2 * n) PROVE d[i] \in Digit
  <2>1. CASE i % 2 = 1
    <3>1. (i + 1) \div 2 \in 1..n
      BY <1>2, <2>1
    <3>2. PICK x : x = v[(i + 1) \div 2]
      OBVIOUS
    <3>3. d[i] = x \div 16
      BY <1>4, <2>1, <3>2
    <3>4. x \in 0..255
      BY <1>2, <3>1, <3>2
    <3>5. x \div 16 \in 0..15
      BY ONLY <1>5, <3>4
    <3> QED  BY ONLY <3>3, <3>5 DEF Digit
  <2>2. CASE i % 2 # 1
    <3>1. i \div 2 \in 1..n
      BY <1>2, <2>2
    <3>2. PICK x : x = v[i \div 2]
      OBVIOUS
    <3>3. d[i] = x % 16
      BY <1>4, <2>2, <3>2
    <3>4. x \in 0..255
      BY <1>2, <3>1, <3>2
    <3>5. x % 16 \in 0..15
      BY ONLY <1>5, <3>4
    <3> QED  BY ONLY <3>3, <3>5 DEF Digit
  <2> QED  BY <2>1, <2>2
<1>7. 2 * n \in Nat
  BY <1>2
<1>8. d \in Seq(Digit) /\ Len(d) = 2 * n
  BY <1>4, <1>6, <1>7
<1>9. ASSUME NEW j \in 1..n PROVE 16 * d[2 * j - 1] + d[2 * j] = v[j]
  <2>1. /\ 2 * j - 1 \in 1..(2 * n) /\ (2 * j - 1) % 2 = 1 /\ (2 * j - 1 + 1) \div 2 = j
        /\ 2 * j \in 1..(2 * n) /\ (2 * j) % 2 # 1 /\ (2 * j) \div 2 = j
    BY <1>2
  <2>2. d[2 * j - 1] = v[j] \div 16
    BY <1>4, <2>1
  <2>3. d[2 * j] = v[j] % 16
    BY <1>4, <2>1
  <2> QED  BY <1>2, <1>5, <2>2, <2>3
<1>10. PICK w : w = hex_to_byte_array(d)
  OBVIOUS
<1>11. w = [i \in 1..n |-> 16 * d[2 * i - 1] + d[2 * i]]
  <2>1. Len(d) \div 2 = n
    BY <1>2, <1>8
  <2> QED  BY <1>10, <2>1 DEF hex_to_byte_array
<1>12. w \in Seq(0..255) /\ Len(w) = n /\ \A i \in 1..n : w[i] = v[i]
  <2>1. \A i \in 1..n : w[i] = v[i]
    BY <1>9, <1>11
  <2>2. w = [i \in 1..n |-> v[i]]
    BY <1>11, <2>1
  <2> QED  BY <1>2, <2>1, <2>2
<1>13. w = v
  BY <1>1, <1>12, SeqEqual
<1> QED  BY <1>1, <1>3, <1>8, <1>10, <1>13

LEMMA DigitsExact ==
    ASSUME NEW d \in Seq(Digit)
    PROVE  /\ hex_to_byte_array(d) \in Seq(0..255)
           /\ Len(hex_to_byte_array(d)) = Len(d) \div 2
           /\ Len(d) % 2 = 0 => byte_array_to_hex(hex_to_byte_array(d)) = d
<1>1. PICK m : m = Len(d)
  OBVIOUS
<1>2. PICK n : n = m \div 2
  OBVIOUS
<1>3. m \in Nat /\ n \in Nat /\ 2 * n <= m /\ (m % 2 = 0 => m = 2 * n)
  <2>1. m \in Nat
    BY <1>1, LenProperties
  <2> QED  BY <1>2, <2>1
<1>4. \A i \in 1..m : d[i] \in 0..15
  BY <1>1, ElementOfSeq DEF Digit
<1>5. PICK w : w = hex_to_byte_array(d)
  OBVIOUS
<1>6. w = [i \in 1..n |-> 16 * d[2 * i - 1] + d[2 * i]]
  BY <1>1, <1>2, <1>5 DEF hex_to_byte_array
<1>7. ASSUME NEW i \in 1..n
      PROVE  w[i] \in 0..255 /\ w[i] \div 16 = d[2 * i - 1] /\ w[i] % 16 = d[2 * i]
  <2>1. 2 * i - 1 \in 1..m /\ 2 * i \in 1..m
    BY <1>3
  <2>2. w[i] = 16 * d[2 * i - 1] + d[2 * i]
    BY <1>6
  <2>3. d[2 * i - 1] \in 0..15 /\ d[2 * i] \in 0..15
    BY <1>4, <2>1
  <2>4. PICK a : a = d[2 * i - 1]
    OBVIOUS
  <2>5. PICK b : b = d[2 * i]
    OBVIOUS
  <2>6. PICK x : x = w[i]
    OBVIOUS
  <2>7. x = 16 * a + b /\ a \in 0..15 /\ b \in 0..15
    BY <2>2, <2>3, <2>4, <2>5, <2>6
  <2>8. x \in 0..255 /\ x \div 16 = a /\ x % 16 = b
    BY ONLY <2>7
  <2> QED  BY <2>4, <2>5, <2>6, <2>8
<1>8. w \in Seq(0..255) /\ Len(w) = n
  BY <1>3, <1>6, <1>7
<1>9. ASSUME m % 2 = 0 PROVE byte_array_to_hex(w) = d
  <2>1. PICK e : e = byte_array_to_hex(w)
    OBVIOUS
  <2>2. e = [i \in 1..(2 * n) |-> IF i % 2 = 1 THEN w[(i + 1) \div 2] \div 16
                                             ELSE w[i \div 2] % 16]
    BY <1>8, <2>1 DEF byte_array_to_hex
  <2>3. e \in Seq(Digit) /\ Len(e) = 2 * n
    BY <1>8, <2>1, BytesExact
  <2>4. m = 2 * n
    BY <1>3, <1>9
  <2>5. ASSUME NEW i \in 1..m PROVE e[i] = d[i]
    <3>1. CASE i % 2 = 1
      <4>1. (i + 1) \div 2 \in 1..n /\ 2 * ((i + 1) \div 2) - 1 = i
        BY <1>3, <2>4, <3>1
      <4>2. e[i] = w[(i + 1) \div 2] \div 16
        BY <2>2, <2>4, <3>1
      <4> QED  BY <1>7, <4>1, <4>2
    <3>2. CASE i % 2 # 1
      <4>1. i \div 2 \in 1..n /\ 2 * (i \div 2) = i
        BY <1>3, <2>4, <3>2
      <4>2. e[i] = w[i \div 2] % 16
        BY <2>2, <2>4, <3>2
      <4> QED  BY <1>7, <4>1, <4>2
    <3> QED  BY <3>1, <3>2
  <2> QED  BY <1>1, <2>1, <2>3, <2>4, <2>5, SeqEqual
<1> QED  BY <1>1, <1>2, <1>5, <1>8, <1>9

-----------------------------------------------------------------------------
(* Parts of a text. *)

(* A part of a text, of a text with another behind it, and of one with     *)
(* another before it.                                                      *)
LEMMA SubSeqIs ==
    ASSUME NEW x \in Seq(Digit), NEW i \in Nat \ {0}, NEW j \in Nat, j <= Len(x), i <= j + 1
    PROVE  /\ SubSeq(x, i, j) \in Seq(Digit) /\ Len(SubSeq(x, i, j)) = j - i + 1
           /\ \A k \in 1..(j - i + 1) : SubSeq(x, i, j)[k] = x[i + k - 1]
<1>1. \A k \in 1..Len(x) : x[k] \in Digit
  BY ElementOfSeq
<1>2. \A k \in i..j : x[k] \in Digit
  <2>1. Len(x) \in Nat
    BY LenProperties
  <2>2. \A k \in i..j : k \in 1..Len(x)
    BY <2>1
  <2> QED  BY <1>1, <2>2
<1>3. /\ SubSeq(x, i, j) \in Seq(Digit)
      /\ Len(SubSeq(x, i, j)) = IF i <= j THEN j - i + 1 ELSE 0
      /\ \A k \in 1..(j - i + 1) : SubSeq(x, i, j)[k] = x[i + k - 1]
  BY <1>2, SubSeqProperties
<1>4. ~(i <= j) => j - i + 1 = 0
  OBVIOUS
<1> QED  BY <1>3, <1>4

LEMMA InFront ==
    ASSUME NEW x \in Seq(Digit), NEW y \in Seq(Digit),
           NEW i \in Nat \ {0}, NEW j \in Nat, j <= Len(x), i <= j + 1
    PROVE  SubSeq(x \o y, i, j) = SubSeq(x, i, j)
<1>1. PICK m : m = Len(x)
  OBVIOUS
<1>2. PICK n : n = Len(y)
  OBVIOUS
<1>3. PICK z : z = x \o y
  OBVIOUS
<1>4. m \in Nat /\ n \in Nat
  BY <1>1, <1>2, LenProperties
<1>5. /\ z \in Seq(Digit) /\ Len(z) = m + n
      /\ \A k \in 1..(m + n) : z[k] = IF k <= m THEN x[k] ELSE y[k - m]
  BY <1>1, <1>2, <1>3, ConcatProperties
<1>6. j <= m /\ j <= m + n
  BY <1>1, <1>4
<1>7. PICK a : a = SubSeq(x, i, j)
  OBVIOUS
<1>8. PICK b : b = SubSeq(z, i, j)
  OBVIOUS
<1>9. a \in Seq(Digit) /\ Len(a) = j - i + 1 /\ \A k \in 1..(j - i + 1) : a[k] = x[i + k - 1]
  BY <1>7, SubSeqIs
<1>10. b \in Seq(Digit) /\ Len(b) = j - i + 1 /\ \A k \in 1..(j - i + 1) : b[k] = z[i + k - 1]
  BY <1>5, <1>6, <1>8, SubSeqIs
<1>11. ASSUME NEW k \in 1..(j - i + 1) PROVE b[k] = a[k]
  <2>1. i + k - 1 \in 1..(m + n) /\ i + k - 1 <= m
    BY <1>4, <1>6
  <2>2. z[i + k - 1] = x[i + k - 1]
    BY <1>5, <2>1
  <2> QED  BY <1>9, <1>10, <2>2
<1>12. b = a
  BY <1>9, <1>10, <1>11, SeqEqual
<1> QED  BY <1>3, <1>7, <1>8, <1>12

LEMMA Behind ==
    ASSUME NEW x \in Seq(Digit), NEW y \in Seq(Digit),
           NEW i \in Nat \ {0}, NEW j \in Nat, j <= Len(y), i <= j + 1
    PROVE  SubSeq(x \o y, Len(x) + i, Len(x) + j) = SubSeq(y, i, j)
<1>1. PICK m : m = Len(x)
  OBVIOUS
<1>2. PICK n : n = Len(y)
  OBVIOUS
<1>3. PICK z : z = x \o y
  OBVIOUS
<1>4. m \in Nat /\ n \in Nat
  BY <1>1, <1>2, LenProperties
<1>5. /\ z \in Seq(Digit) /\ Len(z) = m + n
      /\ \A k \in 1..(m + n) : z[k] = IF k <= m THEN x[k] ELSE y[k - m]
  BY <1>1, <1>2, <1>3, ConcatProperties
<1>6. /\ m + i \in Nat \ {0} /\ m + j \in Nat /\ m + j <= m + n /\ m + i <= m + j + 1
      /\ m + j - (m + i) + 1 = j - i + 1 /\ j <= n
  BY <1>2, <1>4
<1>7. PICK a : a = SubSeq(y, i, j)
  OBVIOUS
<1>8. PICK b : b = SubSeq(z, m + i, m + j)
  OBVIOUS
<1>9. a \in Seq(Digit) /\ Len(a) = j - i + 1 /\ \A k \in 1..(j - i + 1) : a[k] = y[i + k - 1]
  BY <1>7, SubSeqIs
<1>10. /\ b \in Seq(Digit) /\ Len(b) = j - i + 1
       /\ \A k \in 1..(j - i + 1) : b[k] = z[m + i + k - 1]
  <2>1. PICK p : p = m + i
    OBVIOUS
  <2>2. PICK q : q = m + j
    OBVIOUS
  <2>3. b = SubSeq(z, p, q) /\ q - p + 1 = j - i + 1
    BY <1>4, <1>6, <1>8, <2>1, <2>2
  <2>4. p \in Nat \ {0} /\ q \in Nat /\ q <= Len(z) /\ p <= q + 1
    BY <1>5, <1>6, <2>1, <2>2
  <2>5. b \in Seq(Digit) /\ Len(b) = q - p + 1 /\ \A k \in 1..(q - p + 1) : b[k] = z[p + k - 1]
    BY <1>5, <2>3, <2>4, SubSeqIs
  <2> QED  BY <2>1, <2>3, <2>5
<1>11. ASSUME NEW k \in 1..(j - i + 1) PROVE b[k] = a[k]
  <2> PICK p : p = m + i + k - 1
    OBVIOUS
  <2>1. p \in 1..(m + n) /\ ~(p <= m) /\ p - m = i + k - 1
    BY <1>4, <1>6
  <2>2. z[p] = y[i + k - 1]
    BY <1>5, <2>1
  <2> QED  BY <1>9, <1>10, <2>2
<1>12. b = a
  BY <1>9, <1>10, <1>11, SeqEqual
<1> QED  BY <1>1, <1>3, <1>7, <1>8, <1>12

LEMMA StartBehind ==
    ASSUME NEW x \in Seq(Digit), NEW y \in Seq(Digit), NEW j \in Nat, j <= Len(y)
    PROVE  SubSeq(x \o y, Len(x) + 1, Len(x) + j) = SubSeq(y, 1, j)
<1>1. PICK i : i = 1
  OBVIOUS
<1>2. i \in Nat \ {0} /\ i <= j + 1
  BY <1>1
<1>3. SubSeq(x \o y, Len(x) + i, Len(x) + j) = SubSeq(y, i, j)
  BY <1>2, Behind
<1> QED  BY <1>1, <1>3

LEMMA ConcatIs ==
    ASSUME NEW x \in Seq(Digit), NEW y \in Seq(Digit)
    PROVE  x \o y \in Seq(Digit) /\ Len(x \o y) = Len(x) + Len(y)
BY ConcatProperties

LEMMA LenIs ==
    ASSUME NEW x \in Seq(Digit)
    PROVE  Len(x) \in Nat
BY LenProperties

LEMMA FrontIs ==
    ASSUME NEW x \in Seq(Digit), NEW y \in Seq(Digit)
    PROVE  SubSeq(x \o y, 1, Len(x)) = x
<1>1. Len(x) \in Nat
  BY LenIs
<1>2. SubSeq(x \o y, 1, Len(x)) = SubSeq(x, 1, Len(x))
  BY <1>1, InFront
<1> QED  BY <1>2, SubSeqFull

(* A value with its length before it, anywhere in a text, is found.        *)
Holds(data, b, n, h) ==
    \E x, z \in Seq(Digit) :
        Len(x) = 2 * b /\ data = x \o (int_to_hex(n) \o (h \o z))

LEMMA HeldValue ==
    ASSUME NEW data, NEW b \in Nat, NEW n \in Nat, NEW h \in Seq(Digit),
           Fits(n), Len(h) = 2 * n, Holds(data, b, n, h)
    PROVE  /\ data \in Seq(Digit) /\ ValueEnd(data, b) \in Int /\ ValueEnd(data, b) <= Len(data)
           /\ ValueAt(data, b) = hex_to_byte_array(h)
<1>1. PICK x \in Seq(Digit) : \E z \in Seq(Digit) :
         Len(x) = 2 * b /\ data = x \o (int_to_hex(n) \o (h \o z))
  BY DEF Holds
<1>2. PICK z \in Seq(Digit) : Len(x) = 2 * b /\ data = x \o (int_to_hex(n) \o (h \o z))
  BY <1>1
<1>3. x \in Seq(Digit) /\ Len(x) = 2 * b
  BY <1>2
<1>4. PICK l : l = int_to_hex(n)
  OBVIOUS
<1>5. l \in Seq(Digit) /\ Len(l) = W /\ hex_to_int(l) = n
  BY <1>4, NumberExact
<1>6. PICK y : y = h \o z
  OBVIOUS
<1>7. PICK u : u = l \o y
  OBVIOUS
<1>8. W \in Nat /\ 2 * n \in Nat /\ Len(z) \in Nat /\ 2 * b \in Nat /\ 2 <= W
  BY <1>3, WidthIs, LenIs
<1>9. y \in Seq(Digit) /\ Len(y) = 2 * n + Len(z)
  BY <1>6, ConcatIs
<1>10. u \in Seq(Digit) /\ Len(u) = W + Len(y)
  BY <1>5, <1>7, <1>9, ConcatIs
<1>11. data = x \o u
  BY <1>4, <1>6, <1>7, <1>2
<1>12. Len(data) = 2 * b + W + 2 * n + Len(z)
  <2>1. Len(data) = 2 * b + Len(u)
    BY ONLY <1>3, <1>10, <1>11, ConcatIs, ZenonT(60)
  <2> QED  BY <1>8, <1>9, <1>10, <2>1
<1>13. SubSeq(data, 2 * b + 1, 2 * b + W) = l
  <2>1. W <= Len(u) /\ 1 <= W + 1
    BY <1>8, <1>9, <1>10
  <2>2. SubSeq(x \o u, Len(x) + 1, Len(x) + W) = SubSeq(u, 1, W)
    BY ONLY <1>3, <1>8, <1>10, <2>1, StartBehind
  <2>3. SubSeq(u, 1, W) = l
    BY <1>5, <1>7, <1>9, FrontIs
  <2> QED  BY ONLY <1>11, <1>3, <2>2, <2>3
<1>14. ValueEnd(data, b) = 2 * b + W + 2 * n
  BY <1>5, <1>13 DEF ValueEnd
<1>15. SubSeq(data, 2 * b + W + 1, 2 * b + W + 2 * n) = h
  <2>1. /\ W + 1 \in Nat \ {0} /\ W + 2 * n \in Nat /\ W + 2 * n <= Len(u)
        /\ W + 1 <= W + 2 * n + 1 /\ 2 * n <= Len(y) /\ 1 <= 2 * n + 1
    BY <1>8, <1>9, <1>10
  <2>2. SubSeq(x \o u, Len(x) + (W + 1), Len(x) + (W + 2 * n)) = SubSeq(u, W + 1, W + 2 * n)
    BY ONLY <1>3, <1>10, <2>1, Behind, ZenonT(60)
  <2>3. SubSeq(l \o y, Len(l) + 1, Len(l) + 2 * n) = SubSeq(y, 1, 2 * n)
    <3>1. PICK j : j = 2 * n
      OBVIOUS
    <3>2. j \in Nat /\ j <= Len(y) /\ 1 <= j + 1
      BY <1>8, <2>1, <3>1
    <3>3. SubSeq(l \o y, Len(l) + 1, Len(l) + j) = SubSeq(y, 1, j)
      BY ONLY <1>5, <1>9, <3>2, StartBehind
    <3> QED  BY <3>1, <3>3
  <2>4. SubSeq(y, 1, 2 * n) = h
    BY <1>6, FrontIs
  <2>5. /\ Len(x) + (W + 1) = 2 * b + W + 1
        /\ Len(x) + (W + 2 * n) = 2 * b + W + 2 * n
    BY <1>8, <1>3
  <2>6. SubSeq(u, W + 1, W + 2 * n) = h
    BY <1>5, <1>7, <2>3, <2>4
  <2> QED  BY <1>11, <2>2, <2>5, <2>6
<1>16. data \in Seq(Digit)
  BY ONLY <1>10, <1>11, <1>3, ConcatIs
<1>17. ValueEnd(data, b) \in Int /\ ValueEnd(data, b) <= Len(data)
  BY <1>8, <1>12, <1>14
<1> QED  BY <1>14, <1>15, <1>16, <1>17 DEF ValueAt

(* Words, and what is behind them, in a text behind a word.                *)
LEMMA FirstWord ==
    ASSUME NEW x \in Seq(Digit), NEW y \in Seq(Digit), Len(x) = W
    PROVE  Word(x \o y, 1) = x
<1>1. (1 - 1) * W + 1 = 1 /\ 1 * W = Len(x)
  BY WidthIs
<1> QED  BY <1>1, FrontIs DEF Word

LEMMA NextWord ==
    ASSUME NEW x \in Seq(Digit), NEW y \in Seq(Digit), Len(x) = W,
           NEW i \in Nat \ {0}, i * W <= Len(y)
    PROVE  Word(x \o y, i + 1) = Word(y, i)
<1>1. PICK p : p = (i - 1) * W
  OBVIOUS
<1>2. PICK q : q = i * W
  OBVIOUS
<1>3. W \in Nat /\ i - 1 \in Nat
  BY WidthIs
<1>4. p \in Nat /\ q = p + W /\ (i + 1) * W = W + q /\ (i + 1 - 1) * W = W + p
  BY <1>1, <1>2, <1>3
<1>5. p + 1 \in Nat \ {0} /\ q \in Nat /\ q <= Len(y) /\ p + 1 <= q + 1
  BY <1>2, <1>3, <1>4
<1>6. SubSeq(x \o y, Len(x) + (p + 1), Len(x) + q) = SubSeq(y, p + 1, q)
  BY <1>5, Behind
<1>7. PICK k : k = i + 1
  OBVIOUS
<1>8. Len(x) + (p + 1) = (k - 1) * W + 1 /\ Len(x) + q = k * W
  BY <1>3, <1>4, <1>7
<1>9. Word(y, i) = SubSeq(y, p + 1, q)
  BY <1>1, <1>2 DEF Word
<1>10. Word(x \o y, k) = SubSeq(x \o y, (k - 1) * W + 1, k * W)
  BY DEF Word
<1> QED  BY ONLY <1>6, <1>8, <1>9, <1>10, <1>7

LEMMA FirstFrom ==
    ASSUME NEW x \in Seq(Digit)
    PROVE  From(x, 1) = x
<1>1. (1 - 1) * W + 1 = 1
  BY WidthIs
<1> QED  BY <1>1, SubSeqFull DEF From

LEMMA NextFrom ==
    ASSUME NEW x \in Seq(Digit), NEW y \in Seq(Digit), Len(x) = W,
           NEW i \in Nat \ {0}, (i - 1) * W <= Len(y)
    PROVE  From(x \o y, i + 1) = From(y, i)
<1>1. PICK p : p = (i - 1) * W
  OBVIOUS
<1>2. PICK q : q = Len(y)
  OBVIOUS
<1>3. W \in Nat /\ i - 1 \in Nat
  BY WidthIs
<1>4. p \in Nat /\ (i + 1 - 1) * W = W + p /\ q \in Nat
  BY <1>1, <1>2, <1>3, LenIs
<1>5. p + 1 \in Nat \ {0} /\ q \in Nat /\ q <= Len(y) /\ p + 1 <= q + 1
  BY <1>1, <1>2, <1>4
<1>6. SubSeq(x \o y, Len(x) + (p + 1), Len(x) + q) = SubSeq(y, p + 1, q)
  BY <1>5, Behind
<1>7. PICK k : k = i + 1
  OBVIOUS
<1>8. Len(x) + (p + 1) = (k - 1) * W + 1 /\ Len(x) + q = Len(x \o y)
  BY <1>2, <1>3, <1>4, <1>7, ConcatIs
<1>9. From(y, i) = SubSeq(y, p + 1, q)
  BY <1>1, <1>2 DEF From
<1>10. From(x \o y, k) = SubSeq(x \o y, (k - 1) * W + 1, Len(x \o y))
  BY DEF From
<1> QED  BY ONLY <1>6, <1>8, <1>9, <1>10, <1>7

(* The texts of none, one and two rows, joined.                            *)
LEMMA FlatOne ==
    ASSUME NEW s, Len(s) = 1
    PROVE  FlattenSeq(s) = s[1]
<1> DEFINE G(f) == [i \in 1..Len(s) |-> IF i = 1 THEN s[i] ELSE f[i - 1] \o s[i]]
           F == CHOOSE f : f = G(f)
<1>1. \E f : f = G(f)
  <2> DEFINE h == [i \in 1..1 |-> s[1]]
  <2>1. h = G(h)
    OBVIOUS
  <2> QED  BY <2>1
<1>2. F = G(F)
  BY <1>1
<1>3. FlattenSeq(s) = F[Len(s)]
  BY DEF FlattenSeq
<1> HIDE DEF F
<1> QED  BY <1>2, <1>3

LEMMA FlatTwo ==
    ASSUME NEW s, Len(s) = 2
    PROVE  FlattenSeq(s) = s[1] \o s[2]
<1> DEFINE G(f) == [i \in 1..Len(s) |-> IF i = 1 THEN s[i] ELSE f[i - 1] \o s[i]]
           F == CHOOSE f : f = G(f)
<1>1. \E f : f = G(f)
  <2> DEFINE h == [i \in 1..2 |-> IF i = 1 THEN s[1] ELSE s[1] \o s[2]]
  <2>1. h = G(h)
    OBVIOUS
  <2> QED  BY <2>1
<1>2. F = G(F)
  BY <1>1
<1>3. FlattenSeq(s) = F[Len(s)]
  BY DEF FlattenSeq
<1> HIDE DEF F
<1>4. F[1] = s[1] /\ F[2] = F[1] \o s[2]
  BY <1>2
<1> QED  BY <1>3, <1>4

LEMMA FlatNone == FlattenSeq(<<>>) = <<>>
BY DEF FlattenSeq

-----------------------------------------------------------------------------
(* Rows and tables. *)

(* Lengths and digits of the rows that a table may hold.                   *)
LEMMA ValueIs ==
    ASSUME NEW m \in Nat, NEW v \in Value(m)
    PROVE  v \in Seq(0..255) /\ Len(v) \in Nat /\ Len(v) <= m
<1>1. PICK n \in 0..m : v \in [1..n -> Byte]
  BY DEF Value
<1>2. n \in Nat /\ v \in [1..n -> 0..255]
  <2>1. \A i \in 1..n : v[i] \in Byte
    BY <1>1
  <2>2. \A i \in 1..n : v[i] \in 0..255
    BY <2>1, ByteAssumption
  <2> QED  BY <1>1, <2>2
<1>3. v \in Seq(0..255) /\ Len(v) = n
  BY <1>2
<1> QED  BY <1>1, <1>3

LEMMA KeyIs ==
    ASSUME NEW k \in Key
    PROVE  k \in Seq(0..255) /\ Len(k) = WB
<1>1. PICK b \in {1, 2} : k = [i \in 1..WB |-> b]
  BY DEF Key
<1>2. WB \in Nat /\ b \in 0..255
  BY WidthIs
<1> QED  BY <1>1, <1>2

GoodRow(r) ==
    /\ r \in [key : Seq(0..255), value : Seq(0..255)]
    /\ Len(r.key) = WB /\ Len(r.value) \in Nat
    /\ Len(r.value) <= MaxLong + MaxShort

LEMMA RowsAreGood ==
    ASSUME NEW r \in Row(MaxLong) \cup Row(MaxShort)
    PROVE  GoodRow(r)
<1>1. PICK m \in {MaxLong, MaxShort} : r \in Row(m)
  OBVIOUS
<1>2. m \in Nat /\ m <= MaxLong + MaxShort /\ MaxLong + MaxShort \in Nat
  BY LengthAssumption
<1>3. r \in [key : Key, value : Value(m)]
  BY <1>1 DEF Row
<1>4. r.key \in Seq(0..255) /\ Len(r.key) = WB
  BY <1>3, KeyIs
<1>5. r.value \in Seq(0..255) /\ Len(r.value) \in Nat /\ Len(r.value) <= m
  BY <1>2, <1>3, ValueIs
<1>6. r \in [key : Seq(0..255), value : Seq(0..255)]
  BY <1>3, <1>4, <1>5
<1>7. Len(r.value) <= MaxLong + MaxShort
  BY <1>2, <1>5
<1> QED  BY <1>4, <1>5, <1>6, <1>7 DEF GoodRow

LEMMA LengthFits ==
    ASSUME NEW r, GoodRow(r)
    PROVE  Len(r.value) \in Nat /\ Fits(Len(r.value))
<1>1. Len(r.value) \in 0..(MaxLong + MaxShort + 8)
  BY LengthAssumption DEF GoodRow
<1> QED  BY <1>1, RoomAssumption DEF Fits

GoodPair(r, q) ==
    /\ GoodRow(r) /\ GoodRow(q) /\ r.key # q.key
    /\ Len(r.value) + Len(q.value) <= MaxLong + MaxShort

LEMMA PairsAreGood ==
    ASSUME NEW m \in {MaxLong, MaxShort}, NEW n \in {MaxLong, MaxShort},
           m + n = MaxLong + MaxShort, NEW p \in Pairs(m, n)
    PROVE  p = <<p[1], p[2]>> /\ GoodPair(p[1], p[2])
<1>1. p \in Row(m) \X Row(n) /\ p[1].key # p[2].key
  BY DEF Pairs
<1>2. p = <<p[1], p[2]>> /\ p[1] \in Row(m) /\ p[2] \in Row(n)
  BY <1>1
<1>3. GoodRow(p[1]) /\ GoodRow(p[2])
  BY <1>2, RowsAreGood
<1>4. m \in Nat /\ n \in Nat
  BY LengthAssumption
<1>5. p[1].value \in Value(m) /\ p[2].value \in Value(n)
  BY <1>2 DEF Row
<1>6. /\ Len(p[1].value) \in Nat /\ Len(p[1].value) <= m
      /\ Len(p[2].value) \in Nat /\ Len(p[2].value) <= n
  BY <1>4, <1>5, ValueIs
<1>7. Len(p[1].value) + Len(p[2].value) <= MaxLong + MaxShort
  <2>1. PICK a : a = Len(p[1].value)
    OBVIOUS
  <2>2. PICK b : b = Len(p[2].value)
    OBVIOUS
  <2>3. a \in Nat /\ b \in Nat /\ a <= m /\ b <= n
    BY <1>6, <2>1, <2>2
  <2>4. a + b <= m + n
    BY ONLY <1>4, <2>3
  <2> QED  BY <2>1, <2>2, <2>4
<1> QED  BY <1>1, <1>2, <1>3, <1>7 DEF GoodPair

LEMMA TablesAre ==
    ASSUME NEW t \in Tables
    PROVE  \/ t = <<>>
           \/ \E r : t = <<r>> /\ GoodRow(r)
           \/ \E r, q : t = <<r, q>> /\ GoodPair(r, q)
<1>1. CASE \E r \in Row(MaxLong) : t = <<r>>
  BY <1>1, RowsAreGood
<1>2. MaxLong + MaxShort = MaxLong + MaxShort /\ MaxShort + MaxLong = MaxLong + MaxShort
  BY LengthAssumption
<1>3. CASE t \in Pairs(MaxLong, MaxShort)
  <2>1. t = <<t[1], t[2]>> /\ GoodPair(t[1], t[2])
    BY <1>2, <1>3, PairsAreGood
  <2> QED  BY <2>1
<1>4. CASE t \in Pairs(MaxShort, MaxLong)
  <2>1. t = <<t[1], t[2]>> /\ GoodPair(t[1], t[2])
    BY <1>2, <1>4, PairsAreGood
  <2> QED  BY <2>1
<1> QED  BY <1>1, <1>3, <1>4 DEF Tables

LEMMA RowsOfTable ==
    ASSUME NEW t \in Tables, NEW r \in Rows(t)
    PROVE  GoodRow(r)
<1>1. PICK i \in DOMAIN t : r = t[i]
  BY DEF Rows
<1>2. CASE t = <<>>
  BY <1>1, <1>2
<1>3. ASSUME NEW q, t = <<q>>, GoodRow(q) PROVE GoodRow(r)
  <2>1. i = 1
    BY <1>1, <1>3
  <2> QED  BY <1>1, <1>3, <2>1
<1>4. ASSUME NEW q, NEW p, t = <<q, p>>, GoodPair(q, p) PROVE GoodRow(r)
  <2>1. i = 1 \/ i = 2
    BY <1>1, <1>4
  <2>2. r = q \/ r = p
    BY <1>1, <1>4, <2>1
  <2> QED  BY <1>4, <2>2 DEF GoodPair
<1> QED  BY <1>2, <1>3, <1>4, TablesAre

-----------------------------------------------------------------------------
(* get and put *)

(* Zeros fill a text up; get cuts them off by the length.                  *)
LEMMA ZerosAre ==
    ASSUME NEW n \in Nat
    PROVE  Zeros(n) \in Seq(Digit) /\ Len(Zeros(n)) = n
<1>1. 0 \in Digit
  BY DEF Digit
<1> QED  BY <1>1 DEF Zeros

LEMMA PaddedIs ==
    ASSUME NEW d \in Seq(Digit)
    PROVE  \E z \in Seq(Digit) : Padded(d) = d \o z
<1>1. PICK n : n = Len(d)
  OBVIOUS
<1>2. n \in Nat /\ W \in Nat /\ 2 <= W
  BY <1>1, LenIs, WidthIs
<1>3. (-n) % W \in Nat
  BY <1>2
<1>4. Zeros((-n) % W) \in Seq(Digit)
  BY <1>3, ZerosAre
<1> QED  BY <1>1, <1>4 DEF Padded

LEMMA GetExact ==
    ASSUME NEW r, GoodRow(r)
    PROVE  DecodedGet(Answer(r.value)) = r.value
<1>1. PICK v : v = r.value
  OBVIOUS
<1>2. v \in Seq(0..255) /\ Len(v) \in Nat /\ Fits(Len(v))
  BY <1>1, LengthFits DEF GoodRow
<1>3. PICK h : h = byte_array_to_hex(v)
  OBVIOUS
<1>4. h \in Seq(Digit) /\ Len(h) = 2 * Len(v) /\ hex_to_byte_array(h) = v
  BY <1>2, <1>3, BytesExact
<1>5. PICK z \in Seq(Digit) : Padded(h) = h \o z
  BY <1>4, PaddedIs
<1>6. W \in Nat /\ WB \in Nat /\ WB <= 32 /\ W = 2 * WB
  BY WidthIs
<1>7. PICK x : x = int_to_hex(WB)
  OBVIOUS
<1>8. x \in Seq(Digit) /\ Len(x) = 2 * WB
  <2>1. WB \in 0..255
    BY <1>6
  <2> QED  BY <1>6, <1>7, <2>1, SmallFits, NumberExact
<1>9. PICK l : l = int_to_hex(Len(v))
  OBVIOUS
<1>10. l \in Seq(Digit)
  BY <1>2, <1>9, NumberExact
<1>11. PICK d : d = Answer(v)
  OBVIOUS
<1>12. d = x \o (l \o (h \o z))
  <2>1. d = x \o l \o (h \o z)
    BY <1>3, <1>5, <1>7, <1>9, <1>11 DEF Answer
  <2>2. PICK y : y = h \o z
    OBVIOUS
  <2>3. y \in Seq(Digit)
    BY <1>4, <2>2, ConcatIs
  <2>4. (x \o l) \o y = x \o (l \o y)
    BY ONLY <1>8, <1>10, <2>3, ConcatAssociative, SMTT(30)
  <2> QED  BY ONLY <2>1, <2>2, <2>4
<1>13. ValueAt(d, WB) = v
  <2>1. d = x \o (int_to_hex(Len(v)) \o (h \o z))
    BY ONLY <1>9, <1>12
  <2>2. z \in Seq(Digit)
    BY <1>5
  <2>3. Holds(d, WB, Len(v), h)
    BY ONLY <1>8, <2>1, <2>2 DEF Holds
  <2>4. ValueAt(d, WB) = hex_to_byte_array(h)
    BY ONLY <1>2, <1>4, <1>6, <2>3, HeldValue
  <2> QED  BY <1>4, <2>4
<1>14. DecodedGet(d) = ValueAt(d, WB)
  <2>1. Word(d, 2) = SubSeq(d, 2 * WB + 1, 2 * WB + W)
    <3>1. (2 - 1) * W + 1 = 2 * WB + 1 /\ 2 * W = 2 * WB + W
      BY <1>6
    <3> QED  BY <3>1 DEF Word
  <2>2. PICK n : n = hex_to_int(Word(d, 2))
    OBVIOUS
  <2>3. ValueLength(d) = 2 * n /\ ValueEnd(d, WB) = 2 * WB + W + 2 * n
    BY <2>1, <2>2 DEF ValueLength, ValueEnd
  <2>4. 2 * W = 2 * WB + W
    BY <1>6
  <2> QED  BY <2>3, <2>4 DEF DecodedGet, ValueAt
<1> QED  BY <1>1, <1>11, <1>13, <1>14

(* A text of a word is left as it is.                                      *)
LEMMA WordKept ==
    ASSUME NEW x \in Seq(Digit), Len(x) = W
    PROVE  convert_to_32byte(x) = x
<1>1. W \in Nat
  BY WidthIs
<1>2. Zeros(W) \in Seq(Digit)
  BY <1>1, ZerosAre
<1>3. SubSeq(x \o Zeros(W), 1, Len(x)) = x
  BY <1>2, FrontIs
<1> QED  BY <1>3 DEF convert_to_32byte

LEMMA KeyWord ==
    ASSUME NEW k \in Seq(0..255), Len(k) = WB
    PROVE  /\ convert_to_32byte(byte_array_to_hex(k)) \in Seq(Digit)
           /\ Len(convert_to_32byte(byte_array_to_hex(k))) = W
           /\ hex_to_byte_array(convert_to_32byte(byte_array_to_hex(k))) = k
<1>1. PICK x : x = byte_array_to_hex(k)
  OBVIOUS
<1>2. x \in Seq(Digit) /\ Len(x) = W /\ hex_to_byte_array(x) = k
  BY <1>1, BytesExact, WidthIs
<1> QED  BY <1>1, <1>2, WordKept

(* The contract decodes what put codes.                                    *)
LEMMA PutExact ==
    ASSUME NEW r, GoodRow(r)
    PROVE  ~PutReverts(put_data(r)) /\ DecodedPut(put_data(r)) = r
<1>1. PICK v : v = r.value
  OBVIOUS
<1>2. v \in Seq(0..255) /\ Len(v) \in Nat /\ Fits(Len(v))
  BY <1>1, LengthFits DEF GoodRow
<1>3. PICK h : h = byte_array_to_hex(v)
  OBVIOUS
<1>4. h \in Seq(Digit) /\ Len(h) = 2 * Len(v) /\ hex_to_byte_array(h) = v
  BY <1>2, <1>3, BytesExact
<1>5. PICK k : k = convert_to_32byte(byte_array_to_hex(r.key))
  OBVIOUS
<1>6. k \in Seq(Digit) /\ Len(k) = W /\ hex_to_byte_array(k) = r.key
  BY <1>5, KeyWord DEF GoodRow
<1>7. W \in Nat /\ W <= 64
  BY WidthIs
<1>8. PICK o : o = int_to_hex(W)
  OBVIOUS
<1>9. o \in Seq(Digit) /\ Len(o) = W /\ hex_to_int(o) = W
  <2>1. W \in 0..255
    BY <1>7
  <2> QED  BY <1>7, <1>8, <2>1, SmallFits, NumberExact
<1>10. PICK l : l = int_to_hex(Len(v))
  OBVIOUS
<1>11. l \in Seq(Digit)
  BY <1>2, <1>10, NumberExact
<1>12. PICK d : d = put_data(r)
  OBVIOUS
<1>13. PICK u : u = l \o h
  OBVIOUS
<1>14. u \in Seq(Digit)
  BY <1>4, <1>11, <1>13, ConcatIs
<1>15. d = k \o (o \o u) /\ d = (k \o o) \o u
  <2>1. d = k \o o \o l \o h
    BY <1>1, <1>3, <1>5, <1>8, <1>10, <1>12 DEF put_data
  <2>2. PICK y : y = k \o o
    OBVIOUS
  <2>3. y \in Seq(Digit)
    BY <1>6, <1>9, <2>2, ConcatIs
  <2>4. (y \o l) \o h = y \o (l \o h)
    BY ONLY <1>4, <1>11, <2>3, ConcatAssociative
  <2>5. d = (k \o o) \o u
    BY ONLY <1>13, <2>1, <2>2, <2>4
  <2>6. (k \o o) \o u = k \o (o \o u)
    BY ONLY <1>6, <1>9, <1>14, ConcatAssociative
  <2> QED  BY ONLY <2>5, <2>6
<1>16. Word(d, 1) = k /\ Word(d, 2) = o
  <2>1. PICK y : y = o \o u
    OBVIOUS
  <2>2. y \in Seq(Digit) /\ Len(y) = W + Len(u) /\ Len(u) \in Nat
    BY <1>9, <1>14, <2>1, ConcatIs, LenIs
  <2>3. Word(k \o y, 1) = k
    BY <1>6, <2>2, FirstWord
  <2>4. 1 * W <= Len(y)
    BY <1>7, <2>2
  <2>5. Word(k \o y, 1 + 1) = Word(y, 1)
    BY <1>6, <2>2, <2>4, NextWord
  <2>6. Word(y, 1) = o
    BY <1>9, <1>14, <2>1, FirstWord
  <2>7. 1 + 1 = 2
    OBVIOUS
  <2>8. d = k \o y
    BY ONLY <1>15, <2>1
  <2> QED  BY ONLY <2>3, <2>5, <2>6, <2>7, <2>8
<1>17. ValueAt(d, W) = v /\ ValueEnd(d, W) <= Len(d) /\ ValueEnd(d, W) \in Int
  <2>1. PICK x : x = k \o o
    OBVIOUS
  <2>2. x \in Seq(Digit) /\ Len(x) = 2 * W
    <3>1. x \in Seq(Digit) /\ Len(x) = W + W
      BY ONLY <1>6, <1>9, <2>1, ConcatIs
    <3> QED  BY <1>7, <3>1
  <2>3. PICK z : z = <<>>
    OBVIOUS
  <2>4. z \in Seq(Digit) /\ Len(z) = 0 /\ h \o z = h
    BY <1>4, <2>3, EmptySeq, ConcatEmptySeq
  <2>5. d = x \o (int_to_hex(Len(v)) \o (h \o z))
    BY ONLY <1>10, <1>13, <1>15, <2>1, <2>4
  <2>6. PICK n : n = Len(v)
    OBVIOUS
  <2>7. n \in Nat /\ Fits(n) /\ Len(h) = 2 * n /\ d = x \o (int_to_hex(n) \o (h \o z))
    BY ONLY <1>2, <1>4, <2>5, <2>6
  <2>8. Holds(d, W, n, h)
    BY <2>2, <2>4, <2>7 DEF Holds
  <2>9. /\ ValueEnd(d, W) \in Int /\ ValueEnd(d, W) <= Len(d)
        /\ ValueAt(d, W) = hex_to_byte_array(h)
    BY <1>4, <1>7, <2>7, <2>8, HeldValue
  <2> QED  BY <1>4, <2>9
<1>18. Len(d) \in Nat
  BY <1>6, <1>9, <1>14, <1>15, ConcatIs, LenIs
<1>19. ~PutReverts(d)
  BY <1>9, <1>16, <1>17, <1>18 DEF PutReverts
<1>20. DecodedPut(d) = [key |-> r.key, value |-> v]
  BY <1>6, <1>9, <1>16, <1>17 DEF DecodedPut
<1>21. r = [key |-> r.key, value |-> r.value]
  BY DEF GoodRow
<1> QED  BY <1>1, <1>12, <1>19, <1>20, <1>21

-----------------------------------------------------------------------------
(* put_batch *)

(* The places of words in a text of words.                                 *)
LEMMA Times ==
    ASSUME NEW m \in Nat, NEW i \in 0..m
    PROVE  i * W \in Nat /\ m * W \in Nat /\ i * W <= m * W
<1>1. W \in Nat
  BY WidthIs
<1>2. PICK e : e = m - i
  OBVIOUS
<1>3. e \in Nat /\ i \in Nat /\ m = i + e
  BY <1>2
<1>4. e * W \in Nat /\ i * W \in Nat /\ (i + e) * W = i * W + e * W
  BY <1>1, <1>3
<1> QED  BY <1>3, <1>4

LEMMA Words ==
    ASSUME NEW m \in Nat, NEW i \in 1..m
    PROVE  /\ (i - 1) * W + 1 \in Nat \ {0} /\ i * W \in Nat
           /\ i * W <= m * W /\ (i - 1) * W + 1 <= i * W + 1
<1>1. W \in Nat
  BY WidthIs
<1>2. i - 1 \in 0..m /\ i \in 0..m
  OBVIOUS
<1>3. (i - 1) * W \in Nat /\ i * W \in Nat /\ i * W <= m * W
  BY <1>2, Times
<1>4. i * W = (i - 1) * W + W
  BY <1>1
<1> QED  BY <1>1, <1>3, <1>4

HasWords(x, n) == x \in Seq(Digit) /\ Len(x) = n * W

(* The words of two texts, one behind the other.                           *)
LEMMA JoinWords ==
    ASSUME NEW s, NEW t, NEW k \in Nat, NEW m \in Nat, HasWords(s, k), HasWords(t, m)
    PROVE  /\ HasWords(s \o t, k + m)
           /\ \A i \in 1..k : Word(s \o t, i) = Word(s, i)
           /\ \A i \in 1..m : Word(s \o t, k + i) = Word(t, i)
<1>1. W \in Nat
  BY WidthIs
<1>2. /\ s \in Seq(Digit) /\ Len(s) = k * W
      /\ t \in Seq(Digit) /\ Len(t) = m * W
  BY DEF HasWords
<1>3. s \o t \in Seq(Digit) /\ Len(s \o t) = (k + m) * W
  <2>1. s \o t \in Seq(Digit) /\ Len(s \o t) = k * W + m * W
    BY <1>2, ConcatIs
  <2>2. (k + m) * W = k * W + m * W
    BY <1>1
  <2> QED  BY <2>1, <2>2
<1>4. ASSUME NEW i \in 1..k PROVE Word(s \o t, i) = Word(s, i)
  <2>1. PICK p : p = (i - 1) * W + 1
    OBVIOUS
  <2>2. PICK q : q = i * W
    OBVIOUS
  <2>3. p \in Nat \ {0} /\ q \in Nat /\ q <= Len(s) /\ p <= q + 1
    BY <1>2, <2>1, <2>2, Words
  <2>4. SubSeq(s \o t, p, q) = SubSeq(s, p, q)
    BY <1>2, <2>3, InFront
  <2> QED  BY <2>1, <2>2, <2>4 DEF Word
<1>5. ASSUME NEW i \in 1..m PROVE Word(s \o t, k + i) = Word(t, i)
  <2>1. PICK p : p = (i - 1) * W + 1
    OBVIOUS
  <2>2. PICK q : q = i * W
    OBVIOUS
  <2>3. p \in Nat \ {0} /\ q \in Nat /\ q <= Len(t) /\ p <= q + 1
    BY <1>2, <2>1, <2>2, Words
  <2>4. SubSeq(s \o t, Len(s) + p, Len(s) + q) = SubSeq(t, p, q)
    BY <1>2, <2>3, Behind
  <2>5. PICK j : j = k + i
    OBVIOUS
  <2>6. (j - 1) * W + 1 = Len(s) + p /\ j * W = Len(s) + q
    BY <1>1, <1>2, <2>1, <2>2, <2>5
  <2>7. Word(s \o t, j) = SubSeq(s \o t, (j - 1) * W + 1, j * W)
    BY DEF Word
  <2>8. Word(t, i) = SubSeq(t, p, q)
    BY <2>1, <2>2 DEF Word
  <2> QED  BY ONLY <2>4, <2>5, <2>6, <2>7, <2>8
<1>6. HasWords(s \o t, k + m)
  BY <1>3 DEF HasWords
<1> QED  BY <1>4, <1>5, <1>6

LEMMA OneWord ==
    ASSUME NEW x \in Seq(Digit), Len(x) = W
    PROVE  HasWords(x, 1) /\ Word(x, 1) = x
<1>1. (1 - 1) * W + 1 = 1 /\ 1 * W = Len(x)
  BY WidthIs
<1> QED  BY <1>1, SubSeqFull DEF Word, HasWords

LEMMA Whole ==
    ASSUME NEW c \in 0..8
    PROVE  (c * WB) \div WB = c
<1>1. WB \in 1..32
  BY WidthIs
<1> QED  BY <1>1

(* The parts of the data of put_batch, for n rows.                         *)
BatchText(n, ks, os, vs) ==
    int_to_hex(W) \o int_to_hex(n * WB + 3 * WB) \o int_to_hex(n) \o ks
      \o int_to_hex(n) \o os \o vs

(* What is read in it: counts, keys and offsets, and where the values are. *)
BatchRead(data, n, ks, os, vs) ==
    /\ hex_to_int(Word(data, 3)) = n
    /\ hex_to_int(Word(data, 2)) = n * WB + 3 * WB
    /\ \A i \in 1..n : Word(data, 3 + i) = Word(ks, i)
    /\ \A i \in 1..n : Word(data, n + 4 + i) = Word(os, i)
    /\ \E x : HasWords(x, 2 * n + 4) /\ data = x \o vs

LEMMA BatchParts ==
    ASSUME NEW n \in 0..2, NEW ks, NEW os, NEW vs \in Seq(Digit), HasWords(ks, n), HasWords(os, n),
           NEW data, data = BatchText(n, ks, os, vs)
    PROVE  BatchRead(data, n, ks, os, vs)
<1>1. PICK a : a = int_to_hex(W)
  OBVIOUS
<1>2. PICK b : b = int_to_hex(n * WB + 3 * WB)
  OBVIOUS
<1>3. PICK c : c = int_to_hex(n)
  OBVIOUS
<1>4. /\ W \in 0..255 /\ n \in 0..255 /\ n * WB + 3 * WB \in 0..255
      /\ n \in Nat /\ W \in Nat /\ n * WB + 3 * WB \in Nat
  BY WidthIs
<1>5. a \in Seq(Digit) /\ Len(a) = W
  BY <1>1, <1>4, SmallFits, NumberExact
<1>6. b \in Seq(Digit) /\ Len(b) = W /\ hex_to_int(b) = n * WB + 3 * WB
  BY <1>2, <1>4, SmallFits, NumberExact
<1>7. c \in Seq(Digit) /\ Len(c) = W /\ hex_to_int(c) = n
  BY <1>3, <1>4, SmallFits, NumberExact
<1>8. /\ HasWords(a, 1) /\ Word(a, 1) = a /\ HasWords(b, 1) /\ Word(b, 1) = b
      /\ HasWords(c, 1) /\ Word(c, 1) = c
  BY <1>5, <1>6, <1>7, OneWord
<1>9. PICK x2 : x2 = a \o b
  OBVIOUS
<1>10. PICK x3 : x3 = x2 \o c
  OBVIOUS
<1>11. PICK x4 : x4 = x3 \o ks
  OBVIOUS
<1>12. PICK x5 : x5 = x4 \o c
  OBVIOUS
<1>13. PICK x6 : x6 = x5 \o os
  OBVIOUS
<1>14. data = x6 \o vs
  BY ONLY <1>1, <1>2, <1>3, <1>9, <1>10, <1>11, <1>12, <1>13,
      data = BatchText(n, ks, os, vs) DEF BatchText
<1>15. HasWords(ks, n) /\ HasWords(os, n)
  OBVIOUS
<1>16. HasWords(x2, 2) /\ Word(x2, 2) = b
  <2>1. /\ HasWords(x2, 1 + 1)
        /\ \A i \in 1..1 : Word(x2, 1 + i) = Word(b, i)
    BY ONLY <1>8, <1>9, JoinWords
  <2> QED  BY <1>8, <2>1
<1>17. HasWords(x3, 3) /\ Word(x3, 2) = b /\ Word(x3, 3) = c
  <2>1. /\ HasWords(x3, 2 + 1)
        /\ \A i \in 1..2 : Word(x3, i) = Word(x2, i)
        /\ \A i \in 1..1 : Word(x3, 2 + i) = Word(c, i)
    BY ONLY <1>8, <1>10, <1>16, JoinWords
  <2> QED  BY <1>8, <1>16, <2>1
<1>18. /\ HasWords(x4, 3 + n)
       /\ \A i \in 1..3 : Word(x4, i) = Word(x3, i)
       /\ \A i \in 1..n : Word(x4, 3 + i) = Word(ks, i)
  <2>1. PICK k : k = 3
    OBVIOUS
  <2>2. k \in Nat /\ HasWords(x3, k) /\ n \in Nat
    BY <1>4, <1>17, <2>1
  <2>3. /\ HasWords(x4, k + n)
        /\ \A i \in 1..k : Word(x4, i) = Word(x3, i)
        /\ \A i \in 1..n : Word(x4, k + i) = Word(ks, i)
    BY ONLY <1>11, <1>15, <2>2, JoinWords
  <2> QED  BY <2>1, <2>3
<1>19. /\ HasWords(x5, n + 4)
       /\ \A i \in 1..(3 + n) : Word(x5, i) = Word(x4, i)
  <2>1. PICK k : k = 3 + n
    OBVIOUS
  <2>2. k \in Nat /\ HasWords(x4, k) /\ k + 1 = n + 4
    BY <1>4, <1>18, <2>1
  <2>3. /\ HasWords(x5, k + 1)
        /\ \A i \in 1..k : Word(x5, i) = Word(x4, i)
    BY ONLY <1>8, <1>12, <2>2, JoinWords
  <2> QED  BY <2>1, <2>2, <2>3
<1>20. /\ HasWords(x6, 2 * n + 4)
       /\ \A i \in 1..(n + 4) : Word(x6, i) = Word(x5, i)
       /\ \A i \in 1..n : Word(x6, n + 4 + i) = Word(os, i)
  <2>1. PICK k : k = n + 4
    OBVIOUS
  <2>2. k \in Nat /\ HasWords(x5, k) /\ k + n = 2 * n + 4 /\ n \in Nat
    BY <1>4, <1>19, <2>1
  <2>3. /\ HasWords(x6, k + n)
        /\ \A i \in 1..k : Word(x6, i) = Word(x5, i)
        /\ \A i \in 1..n : Word(x6, k + i) = Word(os, i)
    BY ONLY <1>13, <1>15, <2>2, JoinWords
  <2> QED  BY <2>1, <2>2, <2>3
<1>21. ASSUME NEW i \in 1..(2 * n + 4) PROVE Word(data, i) = Word(x6, i)
  <2>1. PICK m : m = 2 * n + 4
    OBVIOUS
  <2>2. PICK p : p = (i - 1) * W + 1
    OBVIOUS
  <2>3. PICK q : q = i * W
    OBVIOUS
  <2>4. m \in Nat /\ i \in 1..m
    BY <1>4, <2>1
  <2>5. p \in Nat \ {0} /\ q \in Nat /\ q <= m * W /\ p <= q + 1
    BY ONLY <2>2, <2>3, <2>4, Words
  <2>6. SubSeq(x6 \o vs, p, q) = SubSeq(x6, p, q)
    <3>1. vs \in Seq(Digit) /\ x6 \in Seq(Digit) /\ q <= Len(x6)
      BY <1>20, <2>1, <2>5 DEF HasWords
    <3> QED  BY ONLY <2>5, <3>1, InFront
  <2> QED  BY ONLY <1>14, <2>2, <2>3, <2>6 DEF Word
<1>22. Word(data, 2) = b /\ Word(data, 3) = c
  <2>1. /\ 2 \in 1..(2 * n + 4) /\ 3 \in 1..(2 * n + 4) /\ 2 \in 1..(n + 4) /\ 3 \in 1..(n + 4)
        /\ 2 \in 1..(3 + n) /\ 3 \in 1..(3 + n) /\ 2 \in 1..3 /\ 3 \in 1..3
    BY <1>4
  <2> QED  BY ONLY <1>17, <1>18, <1>19, <1>20, <1>21, <2>1
<1>23. ASSUME NEW i \in 1..n PROVE Word(data, 3 + i) = Word(ks, i)
  <2>1. PICK j : j = 3 + i
    OBVIOUS
  <2>2. j \in 1..(2 * n + 4) /\ j \in 1..(n + 4) /\ j \in 1..(3 + n)
    BY <1>4, <2>1
  <2>3. Word(data, j) = Word(x4, j)
    BY ONLY <1>19, <1>20, <1>21, <2>2
  <2>4. Word(x4, 3 + i) = Word(ks, i)
    BY <1>18
  <2> QED  BY ONLY <2>1, <2>3, <2>4
<1>24. ASSUME NEW i \in 1..n PROVE Word(data, n + 4 + i) = Word(os, i)
  <2>1. PICK j : j = n + 4 + i
    OBVIOUS
  <2>2. j \in 1..(2 * n + 4)
    BY <1>4, <2>1
  <2>3. Word(data, j) = Word(x6, j)
    BY ONLY <1>21, <2>2
  <2>4. Word(x6, n + 4 + i) = Word(os, i)
    BY <1>20
  <2> QED  BY ONLY <2>1, <2>3, <2>4
<1> QED  BY ONLY <1>6, <1>7, <1>14, <1>20, <1>22, <1>23, <1>24 DEF BatchRead

(* Where the value of the i-th of n rows is.                               *)
BatchPlace(n, i) == (2 * n + 4) * WB + 2 * WB * (i - 1)

(* What the contract decodes of the data for the n rows of t.              *)
BatchGives(data, t, n) ==
    DecodedBatch(data) =
        IF \E i \in 1..n : ValueEnd(data, BatchPlace(n, i)) > Len(data) THEN Failed("revert")
        ELSE Decoded({[key |-> t[i].key, value |-> ValueAt(data, BatchPlace(n, i))] : i \in 1..n})

LEMMA BatchGivesIs ==
    ASSUME NEW t, NEW n \in 0..2, NEW data,
           hex_to_int(Word(data, 3)) = n,
           hex_to_int(Word(data, 2)) = n * WB + 3 * WB,
           \A i \in 1..n : hex_to_byte_array(Word(data, 3 + i)) = t[i].key,
           \A i \in 1..n : hex_to_int(Word(data, n + 4 + i)) = ValueOffset(n, i)
    PROVE  BatchGives(data, t, n) /\ \A i \in 1..n : BatchPlace(n, i) \in Nat
<1> DEFINE base == hex_to_int(Word(data, 2)) + WB
           at(i) == base + hex_to_int(Word(data, base \div WB + i))
<1>1. DecodedBatch(data) =
        IF \E i \in 1..hex_to_int(Word(data, 3)) : ValueEnd(data, at(i)) > Len(data)
        THEN Failed("revert")
        ELSE Decoded({[key |-> hex_to_byte_array(Word(data, 3 + i)),
                       value |-> ValueAt(data, at(i))] : i \in 1..hex_to_int(Word(data, 3))})
  BY DEF DecodedBatch
<1>2. n \in Nat /\ WB \in Nat /\ 1 <= WB
  BY WidthIs
<1>3. base = (n + 4) * WB
  BY <1>2
<1>4. base \div WB = n + 4
  <2>1. n + 4 \in 0..8
    BY <1>2
  <2> HIDE DEF base
  <2> QED  BY <1>3, <2>1, Whole
<1>5. ASSUME NEW i \in 1..n
      PROVE  /\ at(i) = BatchPlace(n, i)
             /\ at(i) \in Nat
  <2>1. PICK o : o = hex_to_int(Word(data, n + 4 + i))
    OBVIOUS
  <2>2. o = n * WB + 2 * WB * (i - 1)
    BY <2>1 DEF ValueOffset
  <2>3. at(i) = (n + 4) * WB + o
    <3> HIDE DEF base
    <3> QED  BY <1>3, <1>4, <2>1
  <2> HIDE DEF at
  <2>4. i - 1 \in Nat
    BY <1>2
  <2>5. PICK e : e = WB * (i - 1)
    OBVIOUS
  <2>6. e \in Nat /\ 2 * WB * (i - 1) = 2 * e
    BY <1>2, <2>4, <2>5
  <2>7. (2 * n + 4) * WB = (n + 4) * WB + n * WB /\ (n + 4) * WB \in Nat /\ n * WB \in Nat
    BY <1>2
  <2> QED  BY <2>2, <2>3, <2>6, <2>7 DEF BatchPlace
<1> HIDE DEF base, at
<1>6. {[key |-> hex_to_byte_array(Word(data, 3 + i)), value |-> ValueAt(data, at(i))] : i \in 1..n}
        = {[key |-> t[i].key, value |-> ValueAt(data, BatchPlace(n, i))] : i \in 1..n}
  BY <1>5
<1>7. (\E i \in 1..n : ValueEnd(data, at(i)) > Len(data))
        <=> \E i \in 1..n : ValueEnd(data, BatchPlace(n, i)) > Len(data)
  BY <1>5
<1>8. hex_to_int(Word(data, 3)) = n
  OBVIOUS
<1>9. BatchGives(data, t, n)
  BY ONLY <1>1, <1>6, <1>7, <1>8 DEF BatchGives
<1> QED  BY ONLY <1>5, <1>9

(* A value of no more than a word, filled up to a word.                    *)
LEMMA ShortValue ==
    ASSUME NEW r, GoodRow(r), Len(r.value) <= WB
    PROVE  \E z \in Seq(Digit) :
             /\ convert_to_32byte(byte_array_to_hex(r.value)) = byte_array_to_hex(r.value) \o z
             /\ Len(byte_array_to_hex(r.value) \o z) = W
             /\ byte_array_to_hex(r.value) \o z \in Seq(Digit)
<1>1. PICK h : h = byte_array_to_hex(r.value)
  OBVIOUS
<1>2. h \in Seq(Digit) /\ Len(h) = 2 * Len(r.value) /\ Len(r.value) \in Nat
  BY <1>1, BytesExact DEF GoodRow
<1>3. PICK m : m = Len(h)
  OBVIOUS
<1>4. W \in Nat /\ m \in Nat /\ m <= W /\ W - m \in Nat
  BY <1>2, <1>3, WidthIs
<1>5. PICK z : z = Zeros(W - m)
  OBVIOUS
<1>6. z \in Seq(Digit) /\ Len(z) = W - m
  BY <1>4, <1>5, ZerosAre
<1>7. PICK y : y = Zeros(m)
  OBVIOUS
<1>8. y \in Seq(Digit) /\ Len(y) = m
  BY <1>4, <1>7, ZerosAre
<1>9. PICK a : a = Zeros(W)
  OBVIOUS
<1>10. a \in Seq(Digit) /\ Len(a) = W
  BY <1>4, <1>9, ZerosAre
<1>11. h \o z \in Seq(Digit) /\ Len(h \o z) = W
  <2>1. h \o z \in Seq(Digit) /\ Len(h \o z) = m + (W - m)
    BY <1>2, <1>3, <1>6, ConcatIs
  <2>2. m + (W - m) = W
    BY <1>4
  <2> QED  BY <2>1, <2>2
<1>12. a = z \o y
  <2>1. PICK b : b = z \o y
    OBVIOUS
  <2>2. /\ b \in Seq(Digit) /\ Len(b) = (W - m) + m
        /\ \A i \in 1..((W - m) + m) : b[i] = IF i <= W - m THEN z[i] ELSE y[i - (W - m)]
    BY <1>6, <1>8, <2>1, ConcatProperties
  <2>3. (W - m) + m = W
    BY <1>4
  <2>4. ASSUME NEW i \in 1..W PROVE b[i] = a[i]
    <3>1. a[i] = 0
      BY <1>4, <1>9 DEF Zeros
    <3>2. CASE i <= W - m
      <4>1. i \in 1..(W - m)
        BY <1>4, <3>2
      <4>2. z[i] = 0
        BY <1>5, <4>1 DEF Zeros
      <4> QED  BY <2>2, <2>3, <3>1, <3>2, <4>2
    <3>3. CASE ~(i <= W - m)
      <4>1. i - (W - m) \in 1..m
        BY <1>4, <3>3
      <4>2. y[i - (W - m)] = 0
        BY <1>7, <4>1 DEF Zeros
      <4> QED  BY <2>2, <2>3, <3>1, <3>3, <4>2
    <3> QED  BY <3>2, <3>3
  <2>5. b = a
    BY <1>10, <2>2, <2>3, <2>4, SeqEqual
  <2> QED  BY <2>1, <2>5
<1>13. SubSeq(h \o a, 1, W) = h \o z
  <2>1. (h \o z) \o y = h \o a
    BY ONLY <1>2, <1>6, <1>8, <1>12, ConcatAssociative, SMTT(30)
  <2>2. SubSeq((h \o z) \o y, 1, Len(h \o z)) = h \o z
    BY ONLY <1>8, <1>11, FrontIs
  <2> QED  BY ONLY <1>11, <2>1, <2>2
<1>14. convert_to_32byte(h) = h \o z
  BY <1>9, <1>13 DEF convert_to_32byte
<1> QED  BY <1>1, <1>6, <1>11, <1>14

(* The texts that put_batch makes of a row.                                *)
KeyText(r) == convert_to_32byte(byte_array_to_hex(r.key))
OffsetText(n, i) == convert_to_32byte(int_to_hex(ValueOffset(n, i)))
ValueText(r) == int_to_hex(Len(r.value)) \o convert_to_32byte(byte_array_to_hex(r.value))

LEMMA KeyTextIs ==
    ASSUME NEW r, GoodRow(r)
    PROVE  /\ HasWords(KeyText(r), 1) /\ Word(KeyText(r), 1) = KeyText(r)
           /\ hex_to_byte_array(KeyText(r)) = r.key
<1>1. r.key \in Seq(0..255) /\ Len(r.key) = WB
  BY DEF GoodRow
<1>2. PICK x : x = KeyText(r)
  OBVIOUS
<1>3. x \in Seq(Digit) /\ Len(x) = W /\ hex_to_byte_array(x) = r.key
  BY <1>1, <1>2, KeyWord DEF KeyText
<1> QED  BY <1>2, <1>3, OneWord

LEMMA OffsetTextIs ==
    ASSUME NEW n \in 1..2, NEW i \in 1..n
    PROVE  /\ HasWords(OffsetText(n, i), 1) /\ Word(OffsetText(n, i), 1) = OffsetText(n, i)
           /\ hex_to_int(OffsetText(n, i)) = ValueOffset(n, i)
<1>1. ValueOffset(n, i) \in 0..255
  <2>1. n = 1 \/ n = 2
    OBVIOUS
  <2>2. i = 1 \/ i = 2
    OBVIOUS
  <2> QED  BY <2>1, <2>2, WidthIs DEF ValueOffset
<1>2. PICK o : o = ValueOffset(n, i)
  OBVIOUS
<1>3. o \in 0..255 /\ o \in Nat
  BY <1>1, <1>2
<1>4. PICK x : x = int_to_hex(o)
  OBVIOUS
<1>5. x \in Seq(Digit) /\ Len(x) = W /\ hex_to_int(x) = o
  BY <1>3, <1>4, SmallFits, NumberExact
<1>6. OffsetText(n, i) = x
  BY <1>2, <1>4, <1>5, WordKept DEF OffsetText
<1> QED  BY <1>2, <1>5, <1>6, OneWord

(* Whatever its length, a text is made one word.                           *)
LEMMA WordCut ==
    ASSUME NEW x \in Seq(Digit)
    PROVE  convert_to_32byte(x) \in Seq(Digit) /\ Len(convert_to_32byte(x)) = W
<1>1. W \in Nat
  BY WidthIs
<1>2. PICK z : z = Zeros(W)
  OBVIOUS
<1>3. PICK y : y = x \o z
  OBVIOUS
<1>4. z \in Seq(Digit) /\ Len(z) = W
  BY <1>1, <1>2, ZerosAre
<1>5. y \in Seq(Digit) /\ Len(y) = Len(x) + W
  BY ONLY <1>3, <1>4, ConcatIs, x \in Seq(Digit)
<1>6. PICK i : i = 1
  OBVIOUS
<1>7. i \in Nat \ {0} /\ W <= Len(y) /\ i <= W + 1 /\ W - i + 1 = W
  BY <1>1, <1>5, <1>6, LenIs
<1>8. SubSeq(y, i, W) \in Seq(Digit) /\ Len(SubSeq(y, i, W)) = W - i + 1
  BY ONLY <1>1, <1>5, <1>7, SubSeqIs
<1> QED  BY ONLY <1>2, <1>3, <1>6, <1>7, <1>8 DEF convert_to_32byte

LEMMA ValueTextIs ==
    ASSUME NEW r, GoodRow(r)
    PROVE  /\ HasWords(ValueText(r), 2)
           /\ \E c \in Seq(Digit) : ValueText(r) = int_to_hex(Len(r.value)) \o c
<1>1. PICK l : l = int_to_hex(Len(r.value))
  OBVIOUS
<1>2. l \in Seq(Digit) /\ Len(l) = W
  BY <1>1, LengthFits, NumberExact
<1>3. PICK c : c = convert_to_32byte(byte_array_to_hex(r.value))
  OBVIOUS
<1>4. c \in Seq(Digit) /\ Len(c) = W
  <2>1. byte_array_to_hex(r.value) \in Seq(Digit)
    BY BytesExact DEF GoodRow
  <2> QED  BY <1>3, <2>1, WordCut
<1>5. HasWords(l, 1) /\ HasWords(c, 1)
  BY <1>2, <1>4, OneWord
<1>6. PICK k : k = 1
  OBVIOUS
<1>7. HasWords(l \o c, k + k)
  <2>1. k \in Nat /\ HasWords(l, k) /\ HasWords(c, k)
    BY <1>5, <1>6
  <2> QED  BY ONLY <2>1, JoinWords
<1>8. ValueText(r) = l \o c
  BY <1>1, <1>3 DEF ValueText
<1>9. HasWords(ValueText(r), 2)
  <2>1. k + k = 2
    BY <1>6
  <2> QED  BY ONLY <1>7, <1>8, <2>1
<1> QED  BY ONLY <1>1, <1>4, <1>8, <1>9

(* A short value is whole in its word.                                     *)
LEMMA ShortValueText ==
    ASSUME NEW r, GoodRow(r), Len(r.value) <= WB
    PROVE  \E z \in Seq(Digit) :
              ValueText(r) = int_to_hex(Len(r.value)) \o (byte_array_to_hex(r.value) \o z)
<1>1. PICK z \in Seq(Digit) :
         convert_to_32byte(byte_array_to_hex(r.value)) = byte_array_to_hex(r.value) \o z
  BY ShortValue
<1> QED  BY <1>1 DEF ValueText

(* A value with its length, between other texts, is where it is held.      *)
LEMMA HoldsBehind ==
    ASSUME NEW x \in Seq(Digit), NEW y \in Seq(Digit), NEW r, GoodRow(r), Len(r.value) <= WB,
           NEW b \in Nat, Len(x) = 2 * b, NEW data, data = x \o (ValueText(r) \o y)
    PROVE  Holds(data, b, Len(r.value), byte_array_to_hex(r.value))
<1>1. PICK l : l = int_to_hex(Len(r.value))
  OBVIOUS
<1>2. l \in Seq(Digit)
  BY <1>1, LengthFits, NumberExact
<1>3. PICK h : h = byte_array_to_hex(r.value)
  OBVIOUS
<1>4. h \in Seq(Digit)
  BY <1>3, BytesExact DEF GoodRow
<1>5. PICK z \in Seq(Digit) : ValueText(r) = l \o (h \o z)
  BY <1>1, <1>3, ShortValueText
<1>6. PICK u : u = h \o z
  OBVIOUS
<1>7. u \in Seq(Digit)
  BY <1>4, <1>5, <1>6, ConcatIs
<1>8. y \in Seq(Digit) /\ z \in Seq(Digit)
  BY <1>5
<1>9. (l \o u) \o y = l \o (u \o y)
  BY ONLY <1>2, <1>7, <1>8, ConcatAssociative, SMTT(30)
<1>10. (h \o z) \o y = h \o (z \o y)
  BY ONLY <1>4, <1>8, ConcatAssociative
<1>11. PICK w : w = z \o y
  OBVIOUS
<1>12. w \in Seq(Digit)
  BY <1>8, <1>11, ConcatIs
<1>13. ValueText(r) \o y = l \o (h \o w)
  BY ONLY <1>5, <1>6, <1>9, <1>10, <1>11
<1>14. data = x \o (l \o (h \o w))
  BY ONLY <1>13, data = x \o (ValueText(r) \o y)
<1>15. x \in Seq(Digit) /\ Len(x) = 2 * b
  OBVIOUS
<1> QED  BY ONLY <1>1, <1>3, <1>12, <1>14, <1>15 DEF Holds

(* The text of a row's value at a byte of the data.                        *)
Placed(data, b, r) ==
    \E x, y \in Seq(Digit) : Len(x) = 2 * b /\ data = x \o (ValueText(r) \o y)

(* Where everything is in the data of put_batch.                           *)
BatchRows(data, t, n) ==
    /\ n \in 0..2 /\ DOMAIN t = 1..n /\ \A i \in 1..n : GoodRow(t[i])
    /\ hex_to_int(Word(data, 3)) = n
    /\ hex_to_int(Word(data, 2)) = n * WB + 3 * WB
    /\ \A i \in 1..n : hex_to_byte_array(Word(data, 3 + i)) = t[i].key
    /\ \A i \in 1..n : hex_to_int(Word(data, n + 4 + i)) = ValueOffset(n, i)
    /\ \A i \in 1..n : Placed(data, BatchPlace(n, i), t[i])

LEMMA BatchOfNone == BatchRows(put_batch_data(<<>>), <<>>, 0)
<1> DEFINE t == <<>>
<1>1. PICK data : data = put_batch_data(t)
  OBVIOUS
<1>2. PICK e : e = <<>>
  OBVIOUS
<1>3. /\ [i \in DOMAIN t |-> KeyText(t[i])] = e /\ [i \in DOMAIN t |-> OffsetText(Len(t), i)] = e
      /\ [i \in DOMAIN t |-> ValueText(t[i])] = e
  BY <1>2
<1>4. Len(t) = 0 /\ DOMAIN t = 1..0
  OBVIOUS
<1>5. FlattenSeq(e) = e
  BY <1>2, FlatNone
<1> HIDE DEF t
<1>6. data = int_to_hex(W) \o int_to_hex(Len(t) * WB + 3 * WB) \o int_to_hex(Len(t)) \o e
               \o int_to_hex(Len(t)) \o e \o e
  BY <1>1, <1>3, <1>5 DEF put_batch_data, KeyText, OffsetText, ValueText
<1>7. PICK n : n = 0
  OBVIOUS
<1>8. e \in Seq(Digit) /\ HasWords(e, n)
  <2>1. e \in Seq(Digit) /\ Len(e) = 0
    BY <1>2, EmptySeq
  <2>2. W \in Nat
    BY WidthIs
  <2> QED  BY <1>7, <2>1, <2>2 DEF HasWords
<1>9. data = BatchText(n, e, e, e)
  BY ONLY <1>4, <1>6, <1>7 DEF BatchText
<1>10. n \in 0..2
  BY <1>7
<1>11. hex_to_int(Word(data, 3)) = n /\ hex_to_int(Word(data, 2)) = n * WB + 3 * WB
  <2>1. BatchRead(data, n, e, e, e)
    BY ONLY <1>8, <1>9, <1>10, BatchParts
  <2> QED  BY ONLY <2>1 DEF BatchRead
<1>12. \A i \in 1..n : FALSE
  BY <1>7
<1>13. DOMAIN t = 1..n
  BY <1>4, <1>7
<1>14. BatchRows(data, t, n)
  BY ONLY <1>10, <1>11, <1>12, <1>13 DEF BatchRows
<1> QED  BY <1>1, <1>7, <1>14 DEF t

LEMMA BatchOfOne ==
    ASSUME NEW r, GoodRow(r)
    PROVE  BatchRows(put_batch_data(<<r>>), <<r>>, 1)
<1>1. PICK t : t = <<r>>
  OBVIOUS
<1>2. Len(t) = 1 /\ DOMAIN t = 1..1 /\ t[1] = r
  BY <1>1
<1>3. PICK data : data = put_batch_data(t)
  OBVIOUS
<1>4. PICK k : k = KeyText(r)
  OBVIOUS
<1>5. PICK o : o = OffsetText(1, 1)
  OBVIOUS
<1>6. PICK v : v = ValueText(r)
  OBVIOUS
<1>7. PICK ks : ks = [i \in DOMAIN t |-> KeyText(t[i])]
  OBVIOUS
<1>8. PICK os : os = [i \in DOMAIN t |-> OffsetText(Len(t), i)]
  OBVIOUS
<1>9. PICK vs : vs = [i \in DOMAIN t |-> ValueText(t[i])]
  OBVIOUS
<1>10. data = int_to_hex(W) \o int_to_hex(Len(t) * WB + 3 * WB) \o int_to_hex(Len(t))
               \o FlattenSeq(ks) \o int_to_hex(Len(t)) \o FlattenSeq(os) \o FlattenSeq(vs)
  BY <1>3, <1>7, <1>8, <1>9 DEF put_batch_data, KeyText, OffsetText, ValueText
<1>11. FlattenSeq(ks) = k /\ FlattenSeq(os) = o /\ FlattenSeq(vs) = v
  <2>1. Len(ks) = 1 /\ ks[1] = k
    BY <1>2, <1>4, <1>7
  <2>2. Len(os) = 1 /\ os[1] = o
    BY <1>2, <1>5, <1>8
  <2>3. Len(vs) = 1 /\ vs[1] = v
    BY <1>2, <1>6, <1>9
  <2> QED  BY ONLY <2>1, <2>2, <2>3, FlatOne
<1>12. PICK n : n = 1
  OBVIOUS
<1>13. n \in 0..2 /\ n \in 1..2
  BY <1>12
<1>14. data = BatchText(n, k, o, v)
  BY ONLY <1>2, <1>10, <1>11, <1>12 DEF BatchText
<1>15. HasWords(k, n) /\ Word(k, 1) = k /\ hex_to_byte_array(k) = r.key
  BY <1>4, <1>12, KeyTextIs
<1>16. HasWords(o, n) /\ Word(o, 1) = o /\ hex_to_int(o) = ValueOffset(n, 1)
  <2>1. 1 \in 1..n
    BY <1>12
  <2>2. o = OffsetText(n, 1)
    BY <1>5, <1>12
  <2> QED  BY <1>12, <1>13, <2>1, <2>2, OffsetTextIs
<1>17. v \in Seq(Digit)
  BY <1>6, ValueTextIs DEF HasWords
<1>18. /\ hex_to_int(Word(data, 3)) = n /\ hex_to_int(Word(data, 2)) = n * WB + 3 * WB
       /\ \A i \in 1..n : Word(data, 3 + i) = Word(k, i)
       /\ \A i \in 1..n : Word(data, n + 4 + i) = Word(o, i)
       /\ \E x : HasWords(x, 2 * n + 4) /\ data = x \o v
  <2>1. BatchRead(data, n, k, o, v)
    BY ONLY <1>13, <1>14, <1>15, <1>16, <1>17, BatchParts
  <2> QED  BY ONLY <2>1 DEF BatchRead
<1>19. PICK x : HasWords(x, 2 * n + 4) /\ data = x \o v
  BY <1>18
<1>20. PICK b : b = BatchPlace(n, 1)
  OBVIOUS
<1>21. x \in Seq(Digit) /\ Len(x) = 2 * b /\ b \in Nat
  <2>1. x \in Seq(Digit) /\ Len(x) = (2 * n + 4) * W
    BY <1>19 DEF HasWords
  <2>2. (2 * n + 4) * W = 2 * b /\ b \in Nat
    BY <1>12, <1>20, WidthIs DEF BatchPlace
  <2> QED  BY <2>1, <2>2
<1>22. PICK e : e = <<>>
  OBVIOUS
<1>23. e \in Seq(Digit) /\ v \o e = v
  BY <1>17, <1>22, EmptySeq, ConcatEmptySeq
<1>24. Placed(data, b, r)
  <2>1. data = x \o (ValueText(r) \o e)
    BY ONLY <1>6, <1>19, <1>23
  <2> QED  BY <1>21, <1>23, <2>1 DEF Placed
<1>25. ASSUME NEW i \in 1..n
       PROVE  /\ GoodRow(t[i]) /\ hex_to_byte_array(Word(data, 3 + i)) = t[i].key
              /\ hex_to_int(Word(data, n + 4 + i)) = ValueOffset(n, i)
              /\ Placed(data, BatchPlace(n, i), t[i])
  <2>1. i = 1
    BY <1>12
  <2>2. Word(data, 3 + i) = k /\ Word(data, n + 4 + i) = o
    BY <1>15, <1>16, <1>18, <2>1
  <2>3. BatchPlace(n, i) = b
    BY <1>20, <2>1
  <2> QED  BY <1>2, <1>15, <1>16, <1>24, <2>1, <2>2, <2>3
<1>26. DOMAIN t = 1..n
  BY <1>2, <1>12
<1>27. BatchRows(data, t, n)
  BY ONLY <1>13, <1>18, <1>25, <1>26 DEF BatchRows
<1> QED  BY <1>1, <1>3, <1>12, <1>27

LEMMA BatchOfTwo ==
    ASSUME NEW r, NEW q, GoodRow(r), GoodRow(q)
    PROVE  BatchRows(put_batch_data(<<r, q>>), <<r, q>>, 2)
<1>1. PICK t : t = <<r, q>>
  OBVIOUS
<1>2. Len(t) = 2 /\ DOMAIN t = 1..2 /\ t[1] = r /\ t[2] = q
  BY <1>1
<1>3. PICK data : data = put_batch_data(t)
  OBVIOUS
<1>4. PICK k : k = KeyText(r) \o KeyText(q)
  OBVIOUS
<1>5. PICK o : o = OffsetText(2, 1) \o OffsetText(2, 2)
  OBVIOUS
<1>6. PICK v : v = ValueText(r) \o ValueText(q)
  OBVIOUS
<1>7. PICK ks : ks = [i \in DOMAIN t |-> KeyText(t[i])]
  OBVIOUS
<1>8. PICK os : os = [i \in DOMAIN t |-> OffsetText(Len(t), i)]
  OBVIOUS
<1>9. PICK vs : vs = [i \in DOMAIN t |-> ValueText(t[i])]
  OBVIOUS
<1>10. data = int_to_hex(W) \o int_to_hex(Len(t) * WB + 3 * WB) \o int_to_hex(Len(t))
               \o FlattenSeq(ks) \o int_to_hex(Len(t)) \o FlattenSeq(os) \o FlattenSeq(vs)
  BY <1>3, <1>7, <1>8, <1>9 DEF put_batch_data, KeyText, OffsetText, ValueText
<1>11. FlattenSeq(ks) = k /\ FlattenSeq(os) = o /\ FlattenSeq(vs) = v
  <2>1. Len(ks) = 2 /\ ks[1] = KeyText(r) /\ ks[2] = KeyText(q)
    BY <1>2, <1>7
  <2>2. Len(os) = 2 /\ os[1] = OffsetText(2, 1) /\ os[2] = OffsetText(2, 2)
    BY <1>2, <1>8
  <2>3. Len(vs) = 2 /\ vs[1] = ValueText(r) /\ vs[2] = ValueText(q)
    BY <1>2, <1>9
  <2>4. FlattenSeq(ks) = ks[1] \o ks[2]
    BY ONLY <2>1, FlatTwo
  <2>5. FlattenSeq(os) = os[1] \o os[2]
    BY ONLY <2>2, FlatTwo
  <2>6. FlattenSeq(vs) = vs[1] \o vs[2]
    BY ONLY <2>3, FlatTwo
  <2> QED  BY ONLY <1>4, <1>5, <1>6, <2>1, <2>2, <2>3, <2>4, <2>5, <2>6
<1>12. PICK n : n = 2
  OBVIOUS
<1>13. n \in 0..2 /\ n \in 1..2
  BY <1>12
<1>14. data = BatchText(n, k, o, v)
  BY ONLY <1>2, <1>10, <1>11, <1>12 DEF BatchText
<1>15. PICK one : one = 1
  OBVIOUS
<1>16. one \in Nat /\ one + one = n /\ 1 \in 1..one
  BY <1>12, <1>15
<1>17. /\ HasWords(k, n) /\ Word(k, 1) = KeyText(r) /\ Word(k, 2) = KeyText(q)
  <2>1. /\ HasWords(KeyText(r), one) /\ Word(KeyText(r), 1) = KeyText(r)
        /\ HasWords(KeyText(q), one) /\ Word(KeyText(q), 1) = KeyText(q)
    BY <1>15, KeyTextIs
  <2>2. /\ HasWords(k, one + one)
        /\ \A i \in 1..one : Word(k, i) = Word(KeyText(r), i)
        /\ \A i \in 1..one : Word(k, one + i) = Word(KeyText(q), i)
    BY ONLY <1>4, <1>16, <2>1, JoinWords
  <2>3. one + 1 = 2
    BY <1>15
  <2> QED  BY ONLY <1>16, <2>1, <2>2, <2>3
<1>18. HasWords(o, n) /\ Word(o, 1) = OffsetText(2, 1) /\ Word(o, 2) = OffsetText(2, 2)
  <2>1. /\ HasWords(OffsetText(2, 1), one) /\ Word(OffsetText(2, 1), 1) = OffsetText(2, 1)
        /\ HasWords(OffsetText(2, 2), one) /\ Word(OffsetText(2, 2), 1) = OffsetText(2, 2)
    BY <1>15, OffsetTextIs
  <2>2. /\ HasWords(o, one + one)
        /\ \A i \in 1..one : Word(o, i) = Word(OffsetText(2, 1), i)
        /\ \A i \in 1..one : Word(o, one + i) = Word(OffsetText(2, 2), i)
    BY ONLY <1>5, <1>16, <2>1, JoinWords
  <2>3. one + 1 = 2
    BY <1>15
  <2> QED  BY ONLY <1>16, <2>1, <2>2, <2>3
<1>19. PICK vr : vr = ValueText(r)
  OBVIOUS
<1>20. PICK vq : vq = ValueText(q)
  OBVIOUS
<1>21. HasWords(vr, n) /\ HasWords(vq, n)
  BY <1>12, <1>19, <1>20, ValueTextIs
<1>22. vr \in Seq(Digit) /\ vq \in Seq(Digit)
  BY <1>21 DEF HasWords
<1>23. v \in Seq(Digit) /\ v = vr \o vq
  BY <1>6, <1>19, <1>20, <1>22, ConcatIs
<1>24. /\ hex_to_int(Word(data, 3)) = n /\ hex_to_int(Word(data, 2)) = n * WB + 3 * WB
       /\ \A i \in 1..n : Word(data, 3 + i) = Word(k, i)
       /\ \A i \in 1..n : Word(data, n + 4 + i) = Word(o, i)
       /\ \E x : HasWords(x, 2 * n + 4) /\ data = x \o v
  <2>1. BatchRead(data, n, k, o, v)
    BY ONLY <1>13, <1>14, <1>17, <1>18, <1>23, BatchParts
  <2> QED  BY ONLY <2>1 DEF BatchRead
<1>25. PICK x : HasWords(x, 2 * n + 4) /\ data = x \o v
  BY <1>24
<1>26. PICK b : b = BatchPlace(n, 1)
  OBVIOUS
<1>27. x \in Seq(Digit) /\ Len(x) = 2 * b /\ b \in Nat
  <2>1. x \in Seq(Digit) /\ Len(x) = (2 * n + 4) * W
    BY <1>25 DEF HasWords
  <2>2. (2 * n + 4) * W = 2 * b /\ b \in Nat
    BY <1>12, <1>26, WidthIs DEF BatchPlace
  <2> QED  BY <2>1, <2>2
<1>28. Placed(data, b, r)
  <2>1. data = x \o (ValueText(r) \o vq)
    BY ONLY <1>23, <1>25, <1>19
  <2> QED  BY <1>27, <1>22, <2>1 DEF Placed
<1>29. PICK c : c = BatchPlace(n, 2)
  OBVIOUS
<1>30. PICK u : u = x \o vr
  OBVIOUS
<1>31. u \in Seq(Digit) /\ Len(u) = 2 * c /\ c \in Nat
  <2>1. u \in Seq(Digit) /\ Len(u) = Len(x) + Len(vr)
    BY <1>27, <1>22, <1>30, ConcatIs
  <2>2. Len(x) = (2 * n + 4) * W /\ Len(vr) = n * W
    BY <1>25, <1>21 DEF HasWords
  <2>3. (2 * n + 4) * W + n * W = 2 * c /\ c \in Nat
    BY <1>12, <1>29, WidthIs DEF BatchPlace
  <2> QED  BY <2>1, <2>2, <2>3
<1>32. PICK e : e = <<>>
  OBVIOUS
<1>33. e \in Seq(Digit) /\ vq \o e = vq
  BY <1>22, <1>32, EmptySeq, ConcatEmptySeq
<1>34. Placed(data, c, q)
  <2>1. x \o (vr \o vq) = (x \o vr) \o vq
    BY ONLY <1>27, <1>22, ConcatAssociative
  <2>2. data = u \o (ValueText(q) \o e)
    BY ONLY <1>23, <1>25, <1>33, <1>20, <1>30, <2>1
  <2> QED  BY <1>31, <1>33, <2>2 DEF Placed
<1>35. /\ hex_to_byte_array(KeyText(r)) = r.key /\ hex_to_byte_array(KeyText(q)) = q.key
       /\ hex_to_int(OffsetText(2, 1)) = ValueOffset(2, 1)
       /\ hex_to_int(OffsetText(2, 2)) = ValueOffset(2, 2)
  BY KeyTextIs, OffsetTextIs
<1>36. ASSUME NEW i \in 1..n
       PROVE  /\ GoodRow(t[i]) /\ hex_to_byte_array(Word(data, 3 + i)) = t[i].key
              /\ hex_to_int(Word(data, n + 4 + i)) = ValueOffset(n, i)
              /\ Placed(data, BatchPlace(n, i), t[i])
  <2>1. CASE i = 1
    <3>1. Word(data, 3 + i) = KeyText(r) /\ Word(data, n + 4 + i) = OffsetText(2, 1)
      BY <1>17, <1>18, <1>24, <2>1
    <3>2. BatchPlace(n, i) = b
      BY <1>26, <2>1
    <3>3. hex_to_int(OffsetText(2, 1)) = ValueOffset(n, i)
      BY <1>12, <1>35, <2>1
    <3> QED  BY <1>2, <1>28, <1>35, <2>1, <3>1, <3>2, <3>3
  <2>2. CASE i = 2
    <3>1. Word(data, 3 + i) = KeyText(q) /\ Word(data, n + 4 + i) = OffsetText(2, 2)
      BY <1>17, <1>18, <1>24, <2>2
    <3>2. BatchPlace(n, i) = c
      BY <1>29, <2>2
    <3>3. hex_to_int(OffsetText(2, 2)) = ValueOffset(n, i)
      BY <1>12, <1>35, <2>2
    <3> QED  BY <1>2, <1>34, <1>35, <2>2, <3>1, <3>2, <3>3
  <2>3. i = 1 \/ i = 2
    BY <1>12
  <2> QED  BY <2>1, <2>2, <2>3
<1>37. DOMAIN t = 1..n
  BY <1>2, <1>12
<1>38. BatchRows(data, t, n)
  BY ONLY <1>13, <1>24, <1>36, <1>37 DEF BatchRows
<1> QED  BY <1>1, <1>3, <1>12, <1>38

LEMMA BatchExists ==
    ASSUME NEW t \in Tables
    PROVE  \E n : BatchRows(put_batch_data(t), t, n)
<1>1. CASE t = <<>>
  BY <1>1, BatchOfNone
<1>2. ASSUME NEW r, t = <<r>>, GoodRow(r) PROVE \E n : BatchRows(put_batch_data(t), t, n)
  BY <1>2, BatchOfOne
<1>3. ASSUME NEW r, NEW q, t = <<r, q>>, GoodPair(r, q)
      PROVE  \E n : BatchRows(put_batch_data(t), t, n)
  <2>1. BatchRows(put_batch_data(<<r, q>>), <<r, q>>, 2)
    BY <1>3, BatchOfTwo DEF GoodPair
  <2> QED  BY <1>3, <2>1
<1> QED  BY <1>1, <1>2, <1>3, TablesAre

LEMMA BatchExact ==
    ASSUME NEW t \in Tables, \A r \in Rows(t) : Len(r.value) <= WB
    PROVE  DecodedBatch(put_batch_data(t)) = Decoded(Rows(t))
<1>1. PICK data : data = put_batch_data(t)
  OBVIOUS
<1>2. PICK n : BatchRows(data, t, n)
  BY <1>1, BatchExists
<1>3. /\ n \in 0..2 /\ DOMAIN t = 1..n /\ \A i \in 1..n : GoodRow(t[i])
      /\ \A i \in 1..n : Placed(data, BatchPlace(n, i), t[i])
  BY ONLY <1>2 DEF BatchRows
<1>4. BatchGives(data, t, n) /\ \A i \in 1..n : BatchPlace(n, i) \in Nat
  BY ONLY <1>2, BatchGivesIs, ZenonT(60) DEF BatchRows
<1>5. Rows(t) = {t[i] : i \in 1..n}
  BY <1>3 DEF Rows
<1>6. ASSUME NEW i \in 1..n
      PROVE  /\ ~(ValueEnd(data, BatchPlace(n, i)) > Len(data))
             /\ [key |-> t[i].key, value |-> ValueAt(data, BatchPlace(n, i))] = t[i]
  <2>1. PICK r : r = t[i]
    OBVIOUS
  <2>2. GoodRow(r) /\ Len(r.value) <= WB
    BY <1>3, <1>5, <2>1
  <2>3. PICK h : h = byte_array_to_hex(r.value)
    OBVIOUS
  <2>4. r.value \in Seq(0..255)
    BY <2>2 DEF GoodRow
  <2>5. h \in Seq(Digit) /\ Len(h) = 2 * Len(r.value) /\ hex_to_byte_array(h) = r.value
    BY <2>3, <2>4, BytesExact
  <2>6. Len(r.value) \in Nat /\ Fits(Len(r.value))
    BY <2>2, LengthFits
  <2>7. PICK b : b = BatchPlace(n, i)
    OBVIOUS
  <2>8. b \in Nat /\ Placed(data, b, r)
    BY <1>3, <1>4, <2>1, <2>7
  <2>9. Holds(data, b, Len(r.value), h)
    <3>1. PICK x, y \in Seq(Digit) : Len(x) = 2 * b /\ data = x \o (ValueText(r) \o y)
      BY ONLY <2>8 DEF Placed
    <3>2. x \in Seq(Digit) /\ y \in Seq(Digit)
      BY <3>1
    <3> QED  BY ONLY <2>2, <2>3, <2>8, <3>1, <3>2, HoldsBehind
  <2>10. /\ data \in Seq(Digit) /\ ValueEnd(data, b) \in Int
         /\ ValueEnd(data, b) <= Len(data) /\ ValueAt(data, b) = hex_to_byte_array(h)
    BY ONLY <2>5, <2>6, <2>8, <2>9, HeldValue
  <2>11. Len(data) \in Nat
    BY <2>10, LenIs
  <2>12. ~(ValueEnd(data, b) > Len(data))
    BY <2>10, <2>11
  <2>13. r = [key |-> r.key, value |-> r.value]
    BY <2>2 DEF GoodRow
  <2> QED  BY ONLY <2>1, <2>5, <2>7, <2>10, <2>12, <2>13
<1>7. {[key |-> t[i].key, value |-> ValueAt(data, BatchPlace(n, i))] : i \in 1..n} = Rows(t)
  BY ONLY <1>5, <1>6
<1> QED  BY ONLY <1>1, <1>4, <1>6, <1>7 DEF BatchGives

(* The end of a value of any length is a number, and what lies before it   *)
(* within the data is made of digits.                                      *)
LEMMA PlacedValue ==
    ASSUME NEW data, NEW b \in Nat, NEW r, GoodRow(r), Placed(data, b, r)
    PROVE  ValueEnd(data, b) > Len(data) \/ ValueAt(data, b) \in Seq(0..255)
<1>1. PICK x, y \in Seq(Digit) : Len(x) = 2 * b /\ data = x \o (ValueText(r) \o y)
  BY DEF Placed
<1>2. x \in Seq(Digit) /\ y \in Seq(Digit)
  BY <1>1
<1>3. PICK n : n = Len(r.value)
  OBVIOUS
<1>4. PICK l : l = int_to_hex(n)
  OBVIOUS
<1>5. n \in Nat /\ l \in Seq(Digit) /\ Len(l) = W /\ hex_to_int(l) = n
  BY <1>3, <1>4, LengthFits, NumberExact
<1>6. PICK c \in Seq(Digit) : ValueText(r) = l \o c
  BY <1>3, <1>4, ValueTextIs
<1>7. c \in Seq(Digit)
  BY <1>6
<1>8. PICK u : u = c \o y
  OBVIOUS
<1>9. PICK v : v = l \o u
  OBVIOUS
<1>10. u \in Seq(Digit) /\ v \in Seq(Digit) /\ Len(v) = W + Len(u)
  BY ONLY <1>2, <1>5, <1>7, <1>8, <1>9, ConcatIs
<1>11. data = x \o v
  <2>1. l \in Seq(Digit) /\ c \in Seq(Digit) /\ y \in Seq(Digit)
    BY <1>2, <1>5, <1>7
  <2>2. (l \o c) \o y = l \o (c \o y)
    BY ONLY <2>1, ConcatAssociative
  <2> QED  BY ONLY <1>1, <1>6, <1>8, <1>9, <2>2
<1>12. data \in Seq(Digit)
  BY ONLY <1>2, <1>10, <1>11, ConcatIs
<1>13. W \in Nat /\ Len(u) \in Nat /\ Len(data) \in Nat
  BY <1>10, <1>12, LenIs, WidthIs
<1>14. SubSeq(data, 2 * b + 1, 2 * b + W) = l
  <2>1. W <= Len(v)
    BY <1>10, <1>13
  <2>2. SubSeq(x \o v, Len(x) + 1, Len(x) + W) = SubSeq(v, 1, W)
    BY ONLY <1>2, <1>10, <1>13, <2>1, StartBehind
  <2>3. SubSeq(l \o u, 1, Len(l)) = l
    BY ONLY <1>5, <1>10, FrontIs
  <2> QED  BY ONLY <1>1, <1>5, <1>9, <1>11, <2>2, <2>3
<1>15. PICK e : e = ValueEnd(data, b)
  OBVIOUS
<1>16. e = 2 * b + W + 2 * n
  BY ONLY <1>5, <1>14, <1>15 DEF ValueEnd
<1>17. ASSUME ~(e > Len(data)) PROVE ValueAt(data, b) \in Seq(0..255)
  <2>1. PICK i : i = 2 * b + W + 1
    OBVIOUS
  <2>2. i \in Nat \ {0} /\ e \in Nat /\ e <= Len(data) /\ i <= e + 1
    BY <1>5, <1>13, <1>16, <1>17, <2>1
  <2>3. SubSeq(data, i, e) \in Seq(Digit)
    BY ONLY <1>12, <2>2, SubSeqIs
  <2>4. hex_to_byte_array(SubSeq(data, i, e)) \in Seq(0..255)
    BY ONLY <2>3, DigitsExact
  <2> QED  BY ONLY <1>15, <2>1, <2>4 DEF ValueAt
<1> QED  BY ONLY <1>15, <1>17

LEMMA BatchTyped ==
    ASSUME NEW t \in Tables
    PROVE  \/ DecodedBatch(put_batch_data(t)) = Failed("revert")
           \/ \E rows : /\ DecodedBatch(put_batch_data(t)) = Decoded(rows)
                        /\ \A r \in rows : Len(r.key) = WB /\ r.value \in Seq(0..255)
<1>1. PICK data : data = put_batch_data(t)
  OBVIOUS
<1>2. PICK n : BatchRows(data, t, n)
  BY <1>1, BatchExists
<1>3. /\ \A i \in 1..n : GoodRow(t[i])
      /\ \A i \in 1..n : Placed(data, BatchPlace(n, i), t[i])
  BY ONLY <1>2 DEF BatchRows
<1>4. BatchGives(data, t, n) /\ \A i \in 1..n : BatchPlace(n, i) \in Nat
  BY ONLY <1>2, BatchGivesIs, ZenonT(60) DEF BatchRows
<1>5. CASE \E i \in 1..n : ValueEnd(data, BatchPlace(n, i)) > Len(data)
  BY ONLY <1>1, <1>4, <1>5 DEF BatchGives
<1>6. CASE ~ \E i \in 1..n : ValueEnd(data, BatchPlace(n, i)) > Len(data)
  <2>1. PICK rows : rows = {[key |-> t[i].key, value |-> ValueAt(data, BatchPlace(n, i))] :
                              i \in 1..n}
    OBVIOUS
  <2>2. DecodedBatch(data) = Decoded(rows)
    BY ONLY <1>4, <1>6, <2>1 DEF BatchGives
  <2>3. ASSUME NEW r \in rows PROVE Len(r.key) = WB /\ r.value \in Seq(0..255)
    <3>1. PICK i \in 1..n : r = [key |-> t[i].key, value |-> ValueAt(data, BatchPlace(n, i))]
      BY <2>1
    <3>2. Len(t[i].key) = WB
      BY <1>3 DEF GoodRow
    <3>3. ValueAt(data, BatchPlace(n, i)) \in Seq(0..255)
      BY ONLY <1>3, <1>4, <1>6, PlacedValue, i \in 1..n
    <3> QED  BY <3>1, <3>2, <3>3
  <2> QED  BY <1>1, <2>2, <2>3
<1> QED  BY <1>5, <1>6

-----------------------------------------------------------------------------
(* Pieces *)

(* Of some numbers, one is the least.                                      *)
LEMMA LeastNumber ==
    ASSUME NEW S, S \subseteq Nat, S # {}
    PROVE  \E x \in S : \A y \in S : x <= y
<1> DEFINE R == OpToRel(<, Nat)
<1>1. IsWellFoundedOn(R, Nat)
  BY NatLessThanWellFounded
<1>2. \A x, y \in Nat : <<y, x>> \notin R => x <= y
  BY DEF OpToRel
<1> HIDE DEF R
<1>3. \E x \in S : \A y \in S : <<y, x>> \notin R
  BY ONLY <1>1, WFMin, S \subseteq Nat, S # {}
<1> QED  BY <1>2, <1>3

(* Where tokens are found from p on, and the first of these places.        *)
TokensFrom(text, p) == {i \in p..(Len(text) - 7) : Found(text, i)}
FirstFound(text, p) == CHOOSE j \in TokensFrom(text, p) : \A k \in TokensFrom(text, p) : j <= k

LEMMA FirstFoundIs ==
    ASSUME NEW text \in Seq(Digit), NEW p \in Nat \ {0}, TokensFrom(text, p) # {}
    PROVE  /\ FirstFound(text, p) \in Nat /\ p <= FirstFound(text, p)
           /\ FirstFound(text, p) + 8 <= Len(text) + 1
           /\ Found(text, FirstFound(text, p))
           /\ \A k \in TokensFrom(text, p) : FirstFound(text, p) <= k
<1>1. PICK S : S = TokensFrom(text, p)
  OBVIOUS
<1>2. Len(text) \in Nat
  BY LenIs
<1>3. S \subseteq Nat /\ S # {}
  BY <1>1, <1>2 DEF TokensFrom
<1>4. \E x \in S : \A y \in S : x <= y
  BY ONLY <1>3, LeastNumber
<1>5. PICK x : x = FirstFound(text, p)
  OBVIOUS
<1>6. x \in S /\ \A y \in S : x <= y
  BY <1>1, <1>4, <1>5 DEF FirstFound
<1>7. x \in p..(Len(text) - 7) /\ Found(text, x)
  BY <1>1, <1>6 DEF TokensFrom
<1>8. x \in Nat /\ p <= x /\ x + 8 <= Len(text) + 1
  BY <1>2, <1>7
<1> QED  BY <1>1, <1>5, <1>6, <1>7, <1>8

(* The pieces from p on, when the pieces behind the next token are known.  *)
PiecesFrom(text, p, cut) ==
    IF TokensFrom(text, p) = {} THEN <<>>
    ELSE <<SubSeq(text, p, FirstFound(text, p) - 1)>> \o cut[FirstFound(text, p) + 8]

(* The pieces of a text are defined: what follows a piece begins behind    *)
(* it.                                                                     *)
LEMMA CutExists ==
    ASSUME NEW text \in Seq(Digit)
    PROVE  \E cut : cut = [p \in 1..(Len(text) + 1) |-> PiecesFrom(text, p, cut)]
<1>1. PICK n : n = Len(text) + 1
  OBVIOUS
<1>2. n \in Nat
  BY <1>1, LenIs
<1> DEFINE Good(k, f) == \A p \in 1..n : n - p < k => f[p] = PiecesFrom(text, p, f)
           S == {k \in Nat : \E f : Good(k, f)}
<1>3. 0 \in S
  <2>1. \A p \in 1..n : ~(n - p < 0)
    BY <1>2
  <2>2. Good(0, <<>>)
    BY <2>1
  <2> QED  BY <2>2
<1>4. ASSUME NEW k \in Nat, NEW f, Good(k, f)
      PROVE  \E h : Good(k + 1, h)
  <2> DEFINE h == [p \in 1..n |-> IF n - p < k THEN f[p] ELSE PiecesFrom(text, p, f)]
  <2>1. ASSUME NEW p \in 1..n, n - p < k + 1
        PROVE  PiecesFrom(text, p, h) = PiecesFrom(text, p, f)
    <3>1. CASE TokensFrom(text, p) = {}
      BY <3>1 DEF PiecesFrom
    <3>2. CASE TokensFrom(text, p) # {}
      <4>1. PICK q : q = FirstFound(text, p) + 8
        OBVIOUS
      <4>2. p \in Nat \ {0}
        BY <1>2
      <4>3. q \in 1..n /\ n - q < k
        <5>1. FirstFound(text, p) \in Nat /\ p <= FirstFound(text, p)
              /\ FirstFound(text, p) + 8 <= n
          BY <1>1, <3>2, <4>2, FirstFoundIs
        <5> QED  BY <1>2, <2>1, <4>1, <5>1
      <4>4. h[q] = f[q]
        BY <4>3
      <4> HIDE DEF h
      <4> QED  BY <4>1, <4>4 DEF PiecesFrom
    <3> QED  BY <3>1, <3>2
  <2>2. ASSUME NEW p \in 1..n, n - p < k + 1 PROVE h[p] = PiecesFrom(text, p, h)
    <3>1. h[p] = IF n - p < k THEN f[p] ELSE PiecesFrom(text, p, f)
      OBVIOUS
    <3> HIDE DEF h
    <3>2. n - p < k => f[p] = PiecesFrom(text, p, f)
      BY <1>4
    <3>3. PiecesFrom(text, p, h) = PiecesFrom(text, p, f)
      BY <2>1, <2>2
    <3> QED  BY <3>1, <3>2, <3>3
  <2> HIDE DEF h
  <2>3. Good(k + 1, h)
    BY <2>2
  <2> QED  BY <2>3
<1>5. ASSUME NEW k \in S PROVE k + 1 \in S
  <2>1. k \in Nat /\ k + 1 \in Nat
    OBVIOUS
  <2>2. PICK f : Good(k, f)
    OBVIOUS
  <2> HIDE DEF Good
  <2>3. \E h : Good(k + 1, h)
    BY <1>4, <2>1, <2>2
  <2> QED  BY <2>1, <2>3
<1>6. S = Nat
  <2> HIDE DEF Good
  <2>1. S \subseteq Nat
    OBVIOUS
  <2> HIDE DEF S
  <2> QED  BY <1>3, <1>5, <2>1, SetInduction
<1>7. PICK f : Good(n, f)
  BY <1>2, <1>6
<1>8. ASSUME NEW p \in 1..n PROVE f[p] = PiecesFrom(text, p, f)
  <2>1. n - p < n
    BY <1>2
  <2> QED  BY <1>7, <2>1
<1> DEFINE g == [p \in 1..n |-> f[p]]
<1>9. ASSUME NEW p \in 1..n PROVE g[p] = PiecesFrom(text, p, g)
  <2>1. CASE TokensFrom(text, p) = {}
    BY <1>8, <2>1 DEF PiecesFrom
  <2>2. CASE TokensFrom(text, p) # {}
    <3>1. PICK q : q = FirstFound(text, p) + 8
      OBVIOUS
    <3>2. p \in Nat \ {0}
      BY <1>2
    <3>3. q \in 1..n
      <4>1. FirstFound(text, p) \in Nat /\ FirstFound(text, p) + 8 <= n
        BY <1>1, <2>2, <3>2, FirstFoundIs
      <4> QED  BY <1>2, <3>1, <4>1
    <3>4. g[q] = f[q] /\ g[p] = f[p]
      BY <3>3
    <3> HIDE DEF g
    <3> QED  BY <1>8, <3>1, <3>4 DEF PiecesFrom
  <2> QED  BY <2>1, <2>2
<1>10. g = [p \in 1..n |-> PiecesFrom(text, p, g)]
  <2>1. g = [p \in 1..n |-> g[p]]
    OBVIOUS
  <2> HIDE DEF g
  <2> QED  BY <1>9, <2>1
<1> QED  BY <1>1, <1>10

LEMMA PiecesIs ==
    ASSUME NEW text \in Seq(Digit)
    PROVE  \E cut : /\ Pieces(text) = cut[1]
                    /\ \A p \in 1..(Len(text) + 1) : /\ cut[p] = PiecesFrom(text, p, cut)
                                                     /\ cut[p] \in Seq(Seq(Digit))
<1> DEFINE G(f) == [p \in 1..(Len(text) + 1) |->
          LET at == {i \in p..(Len(text) - 7) : Found(text, i)} IN
          IF at = {} THEN <<>>
          ELSE LET i == CHOOSE j \in at : \A k \in at : j <= k
               IN <<SubSeq(text, p, i - 1)>> \o f[i + 8]]
           F == CHOOSE f : f = G(f)
<1>1. \A f : G(f) = [p \in 1..(Len(text) + 1) |-> PiecesFrom(text, p, f)]
  BY DEF PiecesFrom, TokensFrom, FirstFound
<1>2. Pieces(text) = F[1]
  BY DEF Pieces
<1> HIDE DEF G
<1>3. \E f : f = G(f)
  <2>1. PICK cut : cut = [p \in 1..(Len(text) + 1) |-> PiecesFrom(text, p, cut)]
    BY CutExists
  <2> QED  BY <1>1, <2>1
<1>4. F = G(F)
  BY <1>3
<1> HIDE DEF F
<1>5. PICK n : n = Len(text) + 1
  OBVIOUS
<1>6. n \in Nat /\ Len(text) \in Nat
  BY <1>5, LenIs
<1>7. F = [p \in 1..n |-> PiecesFrom(text, p, F)]
  BY <1>1, <1>4, <1>5
<1>8. \A p \in 1..n : F[p] = PiecesFrom(text, p, F)
  BY <1>7
<1> DEFINE S == {k \in Nat : \A p \in 1..n : n - p < k => F[p] \in Seq(Seq(Digit))}
<1>9. 0 \in S
  BY <1>6
<1>10. ASSUME NEW k \in S PROVE k + 1 \in S
  <2>1. ASSUME NEW p \in 1..n, n - p < k + 1 PROVE F[p] \in Seq(Seq(Digit))
    <3>1. CASE TokensFrom(text, p) = {}
      <4>1. F[p] = <<>>
        BY <1>8, <3>1 DEF PiecesFrom
      <4> QED  BY <4>1, EmptySeq
    <3>2. CASE TokensFrom(text, p) # {}
      <4>1. PICK q : q = FirstFound(text, p)
        OBVIOUS
      <4>2. p \in Nat \ {0}
        BY <1>6
      <4>3. q \in Nat /\ p <= q /\ q + 8 <= n
        BY <1>5, <3>2, <4>1, <4>2, FirstFoundIs
      <4>4. q + 8 \in 1..n /\ n - (q + 8) < k /\ k \in Nat
        BY <1>6, <2>1, <4>3
      <4>5. F[q + 8] \in Seq(Seq(Digit))
        BY <4>4
      <4>6. SubSeq(text, p, q - 1) \in Seq(Digit)
        <5>1. q - 1 \in Nat /\ q - 1 <= Len(text) /\ p <= q - 1 + 1
          BY <1>5, <1>6, <4>2, <4>3
        <5> QED  BY <4>2, <5>1, SubSeqIs
      <4>7. <<SubSeq(text, p, q - 1)>> \in Seq(Seq(Digit))
        BY <4>6
      <4>8. F[p] = <<SubSeq(text, p, q - 1)>> \o F[q + 8]
        BY <1>8, <3>2, <4>1 DEF PiecesFrom
      <4> QED  BY ONLY <4>5, <4>7, <4>8, ConcatProperties
    <3> QED  BY <3>1, <3>2
  <2>2. k + 1 \in Nat
    OBVIOUS
  <2> QED  BY <2>1, <2>2
<1>11. S = Nat
  <2>1. S \subseteq Nat
    OBVIOUS
  <2> HIDE DEF S
  <2> QED  BY <1>9, <1>10, <2>1, SetInduction
<1>12. ASSUME NEW p \in 1..n PROVE F[p] \in Seq(Seq(Digit))
  <2>1. n - p < n
    BY <1>6
  <2> QED  BY <1>6, <1>11, <2>1
<1> QED  BY <1>2, <1>5, <1>8, <1>12

(* The first piece, and the second one.                                    *)
LEMMA OnePiece ==
    ASSUME NEW text \in Seq(Digit), TokensFrom(text, 1) # {}
    PROVE  /\ Pieces(text) \in Seq(Seq(Digit)) /\ 1 <= Len(Pieces(text))
           /\ Pieces(text)[1] = SubSeq(text, 1, FirstFound(text, 1) - 1)
<1>1. PICK cut : /\ Pieces(text) = cut[1]
                 /\ \A p \in 1..(Len(text) + 1) : /\ cut[p] = PiecesFrom(text, p, cut)
                                                  /\ cut[p] \in Seq(Seq(Digit))
  BY PiecesIs
<1>2. PICK q : q = FirstFound(text, 1)
  OBVIOUS
<1>3. Len(text) \in Nat /\ 1 \in 1..(Len(text) + 1)
  BY LenIs
<1>4. q + 8 \in 1..(Len(text) + 1)
  <2>1. q \in Nat /\ q + 8 <= Len(text) + 1
    BY <1>2, FirstFoundIs
  <2> QED  BY <1>3, <2>1
<1>5. PICK a : a = SubSeq(text, 1, q - 1)
  OBVIOUS
<1>6. PICK c : c = cut[q + 8]
  OBVIOUS
<1>7. c \in Seq(Seq(Digit)) /\ Pieces(text) \in Seq(Seq(Digit))
  BY <1>1, <1>3, <1>4, <1>6
<1>8. Pieces(text) = <<a>> \o c
  BY <1>1, <1>2, <1>3, <1>5, <1>6 DEF PiecesFrom
<1> QED  BY <1>2, <1>5, <1>7, <1>8

LEMMA SecondPiece ==
    ASSUME NEW text \in Seq(Digit), TokensFrom(text, 1) # {},
           NEW q, q = FirstFound(text, 1) + 8, TokensFrom(text, q) # {}
    PROVE  /\ 2 <= Len(Pieces(text))
           /\ Pieces(text)[2] = SubSeq(text, q, FirstFound(text, q) - 1)
<1>1. PICK cut : /\ Pieces(text) = cut[1]
                 /\ \A p \in 1..(Len(text) + 1) : /\ cut[p] = PiecesFrom(text, p, cut)
                                                  /\ cut[p] \in Seq(Seq(Digit))
  BY PiecesIs
<1>2. Len(text) \in Nat /\ 1 \in 1..(Len(text) + 1)
  BY LenIs
<1>3. q \in 1..(Len(text) + 1)
  <2>1. FirstFound(text, 1) \in Nat /\ FirstFound(text, 1) + 8 <= Len(text) + 1
    BY FirstFoundIs
  <2> QED  BY <1>2, <2>1
<1>4. PICK r : r = FirstFound(text, q) + 8
  OBVIOUS
<1>5. r \in 1..(Len(text) + 1)
  <2>1. q \in Nat \ {0}
    BY <1>2, <1>3
  <2>2. FirstFound(text, q) \in Nat /\ FirstFound(text, q) + 8 <= Len(text) + 1
    BY <2>1, FirstFoundIs
  <2> QED  BY <1>2, <1>4, <2>2
<1>6. PICK a : a = SubSeq(text, 1, FirstFound(text, 1) - 1)
  OBVIOUS
<1>7. PICK b : b = SubSeq(text, q, FirstFound(text, q) - 1)
  OBVIOUS
<1>8. PICK d : d = cut[r]
  OBVIOUS
<1>9. PICK c : c = cut[q]
  OBVIOUS
<1>10. c = <<b>> \o d
  BY <1>1, <1>3, <1>4, <1>7, <1>8, <1>9 DEF PiecesFrom
<1>11. Pieces(text) = <<a>> \o c
  BY <1>1, <1>2, <1>6, <1>9 DEF PiecesFrom
<1>12. d \in Seq(Seq(Digit)) /\ c \in Seq(Seq(Digit))
  BY <1>1, <1>3, <1>5, <1>8, <1>9
<1>13. c[1] = b /\ 1 <= Len(c)
  BY ONLY <1>10, <1>12
<1>14. 2 <= Len(<<a>> \o c) /\ (<<a>> \o c)[2] = c[1]
  BY ONLY <1>12, <1>13
<1> QED  BY <1>7, <1>11, <1>13, <1>14

(* What Clean says of a value in digits.                                   *)
CleanText(h) == \A i \in 1..(Len(h \o Token) - 8) : SubSeq(h \o Token, i, i + 7) # Token

LEMMA TokenIs == Token \in Seq(Digit) /\ Len(Token) = 8
BY DEF Token, Digit

(* The first token behind a and what it says of h, when h is followed by   *)
(* a token.                                                                *)
Piece(text, a, h) ==
    /\ text \in Seq(Digit)
    /\ Len(a) + Len(h) + 1 \in TokensFrom(text, Len(a) + 1)
    /\ CleanText(h) <=> FirstFound(text, Len(a) + 1) = Len(a) + Len(h) + 1
    /\ CleanText(h) <=> SubSeq(text, Len(a) + 1, FirstFound(text, Len(a) + 1) - 1) = h

LEMMA PieceIs ==
    ASSUME NEW a \in Seq(Digit), NEW h \in Seq(Digit), NEW c \in Seq(Digit),
           NEW text, text = a \o (h \o (Token \o c))
    PROVE  Piece(text, a, h)
<1>1. PICK m : m = Len(a)
  OBVIOUS
<1>2. PICK n : n = Len(h)
  OBVIOUS
<1>3. m \in Nat /\ n \in Nat /\ Len(c) \in Nat
  BY <1>1, <1>2, LenIs
<1>4. PICK u : u = h \o Token
  OBVIOUS
<1>5. u \in Seq(Digit) /\ Len(u) = n + 8
  BY <1>2, <1>4, TokenIs, ConcatIs, ZenonT(60)
<1>6. PICK y : y = u \o c
  OBVIOUS
<1>7. y \in Seq(Digit) /\ Len(y) = n + 8 + Len(c)
  BY <1>5, <1>6, ConcatIs
<1>8. text = a \o y
  <2>1. Token \in Seq(Digit) /\ h \in Seq(Digit) /\ c \in Seq(Digit)
    BY TokenIs
  <2>2. (h \o Token) \o c = h \o (Token \o c)
    BY ONLY <2>1, ConcatAssociative, SMTT(30)
  <2> QED  BY ONLY <1>4, <1>6, <2>2, text = a \o (h \o (Token \o c))
<1>9. a \in Seq(Digit) /\ Len(a) = m
  BY <1>1
<1>10. text \in Seq(Digit) /\ Len(text) = m + (n + 8 + Len(c))
  BY ONLY <1>7, <1>8, <1>9, ConcatIs
<1>11. ASSUME NEW i \in 1..(n + 1)
       PROVE  SubSeq(text, m + i, m + i + 7) = SubSeq(u, i, i + 7)
  <2>1. PICK j : j = i + 7
    OBVIOUS
  <2>2. /\ i \in Nat \ {0} /\ j \in Nat /\ j <= Len(u) /\ i <= j + 1 /\ j <= Len(y)
        /\ m + j = m + i + 7
    BY <1>3, <1>5, <1>7, <2>1
  <2>3. SubSeq(a \o y, Len(a) + i, Len(a) + j) = SubSeq(y, i, j)
    BY ONLY <1>7, <1>9, <2>2, Behind, ZenonT(60)
  <2>4. SubSeq(u \o c, i, j) = SubSeq(u, i, j)
    BY ONLY <1>5, <2>2, c \in Seq(Digit), InFront
  <2> QED  BY ONLY <1>6, <1>8, <1>9, <2>1, <2>2, <2>3, <2>4
<1>12. SubSeq(u, n + 1, n + 8) = Token
  <2>1. Token \in Seq(Digit) /\ Len(Token) = 8 /\ h \in Seq(Digit) /\ Len(h) = n
    BY <1>2, TokenIs
  <2>2. PICK j : j = 8
    OBVIOUS
  <2>3. j \in Nat /\ j <= Len(Token)
    BY <2>1, <2>2
  <2>4. SubSeq(h \o Token, Len(h) + 1, Len(h) + j) = SubSeq(Token, 1, j)
    BY ONLY <2>1, <2>3, StartBehind
  <2>5. SubSeq(Token, 1, Len(Token)) = Token
    BY ONLY <2>1, SubSeqFull
  <2> QED  BY ONLY <1>4, <2>1, <2>2, <2>4, <2>5
<1>13. PICK e : e = m + n + 1
  OBVIOUS
<1>14. PICK T : T = TokensFrom(text, m + 1)
  OBVIOUS
<1>15. \A x : x \in T <=> x \in (m + 1)..(Len(text) - 7) /\ SubSeq(text, x, x + 7) = Token
  BY <1>14 DEF TokensFrom, Found
<1>16. e \in T
  <2>1. n + 1 \in 1..(n + 1) /\ m + (n + 1) = e /\ m + (n + 1) + 7 = e + 7 /\ n + 1 + 7 = n + 8
        /\ e \in (m + 1)..(Len(text) - 7)
    BY <1>3, <1>10, <1>13
  <2>2. SubSeq(text, m + (n + 1), m + (n + 1) + 7) = SubSeq(u, n + 1, n + 1 + 7)
    BY ONLY <1>11, <2>1
  <2>3. SubSeq(text, e, e + 7) = Token
    BY ONLY <1>12, <2>1, <2>2
  <2> QED  BY <1>15, <2>1, <2>3
<1>17. PICK f : f = FirstFound(text, m + 1)
  OBVIOUS
<1>18. f \in Nat /\ m + 1 <= f /\ f + 8 <= Len(text) + 1 /\ f \in T /\ f <= e
  <2>1. m + 1 \in Nat \ {0} /\ T # {}
    BY <1>3, <1>16
  <2>2. /\ f \in Nat /\ m + 1 <= f /\ f + 8 <= Len(text) + 1 /\ Found(text, f)
        /\ \A k \in T : f <= k
    BY ONLY <1>10, <1>14, <1>17, <2>1, FirstFoundIs
  <2>3. f \in (m + 1)..(Len(text) - 7)
    BY <1>3, <1>10, <2>2
  <2> QED  BY <1>15, <1>16, <2>2, <2>3 DEF Found
<1>19. CleanText(h) <=> \A i \in 1..n : SubSeq(u, i, i + 7) # Token
  <2>1. Len(u) - 8 = n
    BY <1>3, <1>5
  <2> QED  BY ONLY <1>4, <2>1 DEF CleanText
<1>20. ASSUME CleanText(h) PROVE f = e
  <2>1. ASSUME f < e PROVE FALSE
    <3>1. PICK i : i = f - m
      OBVIOUS
    <3>2. i \in 1..n /\ i \in 1..(n + 1) /\ m + i = f
      BY <1>3, <1>13, <1>18, <2>1, <3>1
    <3>3. SubSeq(text, m + i, m + i + 7) = SubSeq(u, i, i + 7)
      BY ONLY <1>11, <3>2
    <3>4. SubSeq(text, f, f + 7) = Token
      BY <1>15, <1>18
    <3>5. SubSeq(u, i, i + 7) = Token
      BY ONLY <3>2, <3>3, <3>4
    <3> QED  BY <1>19, <1>20, <3>2, <3>5
  <2> QED  BY <1>3, <1>13, <1>18, <2>1
<1>21. ASSUME f = e PROVE CleanText(h)
  <2>1. ASSUME NEW i \in 1..n, SubSeq(u, i, i + 7) = Token PROVE FALSE
    <3>1. PICK x : x = m + i
      OBVIOUS
    <3>2. i \in 1..(n + 1) /\ x \in (m + 1)..(Len(text) - 7) /\ x < e
      BY <1>3, <1>10, <1>13, <3>1
    <3>3. SubSeq(text, m + i, m + i + 7) = SubSeq(u, i, i + 7)
      BY ONLY <1>11, <3>2
    <3>4. SubSeq(text, x, x + 7) = Token
      BY ONLY <2>1, <3>1, <3>3
    <3>5. x \in T
      BY <1>15, <3>2, <3>4
    <3>6. f <= x
      <4>1. m + 1 \in Nat \ {0} /\ T # {}
        BY <1>3, <1>16
      <4>2. \A k \in T : f <= k
        BY ONLY <1>10, <1>14, <1>17, <4>1, FirstFoundIs
      <4> QED  BY <3>5, <4>2
    <3> QED  BY <1>3, <1>13, <1>21, <3>2, <3>6
  <2> QED  BY <1>19, <2>1
<1>22. /\ SubSeq(text, m + 1, f - 1) \in Seq(Digit)
       /\ Len(SubSeq(text, m + 1, f - 1)) = f - 1 - (m + 1) + 1
  <2>1. PICK i : i = m + 1
    OBVIOUS
  <2>2. PICK j : j = f - 1
    OBVIOUS
  <2>3. i \in Nat \ {0} /\ j \in Nat /\ j <= Len(text) /\ i <= j + 1
    BY <1>3, <1>10, <1>18, <2>1, <2>2
  <2>4. SubSeq(text, i, j) \in Seq(Digit) /\ Len(SubSeq(text, i, j)) = j - i + 1
    BY ONLY <1>10, <2>3, SubSeqIs
  <2> QED  BY <2>1, <2>2, <2>4
<1>23. ASSUME f = e PROVE SubSeq(text, m + 1, f - 1) = h
  <2>1. f - 1 = m + n /\ n <= Len(y) /\ n <= Len(u)
    BY <1>3, <1>5, <1>7, <1>13, <1>23
  <2>2. SubSeq(a \o y, Len(a) + 1, Len(a) + n) = SubSeq(y, 1, n)
    BY ONLY <1>3, <1>7, <1>9, <2>1, StartBehind
  <2>3. PICK i : i = 1
    OBVIOUS
  <2>4. i \in Nat \ {0} /\ i <= n + 1
    BY <1>3, <2>3
  <2>5. SubSeq(u \o c, i, n) = SubSeq(u, i, n)
    BY ONLY <1>3, <1>5, <2>1, <2>4, c \in Seq(Digit), InFront
  <2>6. SubSeq(h \o Token, 1, Len(h)) = h
    BY ONLY h \in Seq(Digit), TokenIs, FrontIs
  <2> QED  BY ONLY <1>2, <1>4, <1>6, <1>8, <1>9, <2>1, <2>2, <2>3, <2>5, <2>6
<1>24. ASSUME SubSeq(text, m + 1, f - 1) = h PROVE f = e
  <2>1. n = f - 1 - (m + 1) + 1
    BY ONLY <1>2, <1>22, <1>24
  <2> QED  BY <1>3, <1>13, <1>18, <2>1
<1> QED  BY ONLY <1>1, <1>2, <1>10, <1>13, <1>14, <1>16, <1>17, <1>20, <1>21, <1>23, <1>24 DEF Piece

(* The pieces of one value and of two values, each with its token.         *)
LEMMA PiecesOfOne ==
    ASSUME NEW h \in Seq(Digit), NEW z \in Seq(Digit),
           NEW text, text = h \o (Token \o z)
    PROVE  /\ Pieces(text) \in Seq(Seq(Digit)) /\ 1 <= Len(Pieces(text))
           /\ CleanText(h) <=> Pieces(text)[1] = h
<1>1. PICK a : a = <<>>
  OBVIOUS
<1>2. a \in Seq(Digit) /\ Len(a) = 0
  BY <1>1, EmptySeq
<1>3. text \in Seq(Digit)
  BY TokenIs, ConcatIs
<1>4. text = a \o text
  BY ONLY <1>1, <1>3, ConcatEmptySeq
<1>5. /\ Len(a) + Len(h) + 1 \in TokensFrom(text, Len(a) + 1)
      /\ CleanText(h) <=> SubSeq(text, Len(a) + 1, FirstFound(text, Len(a) + 1) - 1) = h
  <2>1. text = a \o (h \o (Token \o z))
    BY <1>4
  <2>2. h \in Seq(Digit) /\ z \in Seq(Digit)
    OBVIOUS
  <2>3. Piece(text, a, h)
    BY ONLY <1>2, <2>1, <2>2, PieceIs
  <2> QED  BY ONLY <2>3 DEF Piece
<1>6. Len(a) + 1 = 1
  BY <1>2
<1>7. TokensFrom(text, 1) # {}
  BY <1>5, <1>6
<1>8. /\ Pieces(text) \in Seq(Seq(Digit)) /\ 1 <= Len(Pieces(text))
      /\ Pieces(text)[1] = SubSeq(text, 1, FirstFound(text, 1) - 1)
  BY ONLY <1>3, <1>7, OnePiece
<1> QED  BY ONLY <1>5, <1>6, <1>8

TwoPieces(P, h, k) ==
    /\ P \in Seq(Seq(Digit)) /\ 2 <= Len(P)
    /\ (CleanText(h) /\ CleanText(k)) <=> (P[1] = h /\ P[2] = k)

LEMMA PiecesOfTwo ==
    ASSUME NEW h \in Seq(Digit), NEW k \in Seq(Digit), NEW z \in Seq(Digit),
           NEW text, text = h \o (Token \o (k \o (Token \o z)))
    PROVE  TwoPieces(Pieces(text), h, k)
<1>1. PICK c : c = k \o (Token \o z)
  OBVIOUS
<1>2. c \in Seq(Digit)
  BY <1>1, TokenIs, ConcatIs
<1>3. text = h \o (Token \o c)
  BY <1>1
<1>4. /\ Pieces(text) \in Seq(Seq(Digit)) /\ 1 <= Len(Pieces(text))
      /\ CleanText(h) <=> Pieces(text)[1] = h
  BY ONLY <1>2, <1>3, h \in Seq(Digit), PiecesOfOne
<1>5. PICK e : e = <<>>
  OBVIOUS
<1>6. e \in Seq(Digit) /\ Len(e) = 0
  BY <1>5, EmptySeq
<1>7. text \in Seq(Digit)
  BY <1>2, <1>3, TokenIs, ConcatIs
<1>8. text = e \o (h \o (Token \o c))
  BY ONLY <1>3, <1>5, <1>7, ConcatEmptySeq
<1>9. /\ Len(h) + 1 \in TokensFrom(text, 1)
      /\ CleanText(h) <=> FirstFound(text, 1) = Len(h) + 1
  <2>1. /\ Len(e) + Len(h) + 1 \in TokensFrom(text, Len(e) + 1)
        /\ CleanText(h) <=> FirstFound(text, Len(e) + 1) = Len(e) + Len(h) + 1
    <3>1. Piece(text, e, h)
      BY ONLY <1>2, <1>6, <1>8, h \in Seq(Digit), PieceIs
    <3> QED  BY ONLY <3>1 DEF Piece
  <2>2. Len(e) + 1 = 1 /\ Len(e) + Len(h) + 1 = Len(h) + 1
    BY <1>6, LenIs
  <2> QED  BY ONLY <2>1, <2>2
<1>10. PICK a : a = h \o Token
  OBVIOUS
<1>11. a \in Seq(Digit) /\ Len(a) = Len(h) + 8
  <2>1. h \in Seq(Digit) /\ Token \in Seq(Digit) /\ Len(Token) = 8
    BY TokenIs
  <2>2. a \in Seq(Digit) /\ Len(a) = Len(h) + Len(Token)
    BY ONLY <1>10, <2>1, ConcatIs
  <2> QED  BY ONLY <2>1, <2>2
<1>12. text = a \o (k \o (Token \o z))
  <2>1. (h \o Token) \o c = h \o (Token \o c)
    BY ONLY <1>2, TokenIs, h \in Seq(Digit), ConcatAssociative, SMTT(30)
  <2> QED  BY ONLY <1>1, <1>3, <1>10, <2>1
<1>13. /\ Len(a) + Len(k) + 1 \in TokensFrom(text, Len(a) + 1)
       /\ CleanText(k) <=> SubSeq(text, Len(a) + 1, FirstFound(text, Len(a) + 1) - 1) = k
  <2>1. Piece(text, a, k)
    BY ONLY <1>11, <1>12, k \in Seq(Digit), z \in Seq(Digit), PieceIs
  <2> QED  BY ONLY <2>1 DEF Piece
<1>14. PICK f : f = FirstFound(text, 1)
  OBVIOUS
<1>15. f \in Nat /\ f <= Len(h) + 1 /\ TokensFrom(text, 1) # {}
  <2>1. PICK p : p = 1
    OBVIOUS
  <2>2. p \in Nat \ {0} /\ TokensFrom(text, p) # {}
    BY <1>9, <2>1
  <2>3. /\ FirstFound(text, p) \in Nat
        /\ \A x \in TokensFrom(text, p) : FirstFound(text, p) <= x
    BY ONLY <1>7, <2>2, FirstFoundIs
  <2> QED  BY ONLY <1>9, <1>14, <2>1, <2>2, <2>3
<1>16. PICK q : q = f + 8
  OBVIOUS
<1>17. TokensFrom(text, q) # {}
  <2>1. PICK x : x = Len(a) + Len(k) + 1
    OBVIOUS
  <2>2. x \in (Len(a) + 1)..(Len(text) - 7) /\ Found(text, x)
    BY <1>13, <2>1 DEF TokensFrom
  <2>3. Len(h) \in Nat /\ Len(k) \in Nat /\ Len(text) \in Nat
    BY <1>7, LenIs
  <2>4. x \in q..(Len(text) - 7)
    BY <1>11, <1>15, <1>16, <2>2, <2>3
  <2> QED  BY <2>2, <2>4 DEF TokensFrom
<1>18. /\ 2 <= Len(Pieces(text))
       /\ Pieces(text)[2] = SubSeq(text, q, FirstFound(text, q) - 1)
  BY ONLY <1>7, <1>14, <1>15, <1>16, <1>17, SecondPiece
<1>19. ASSUME CleanText(h) PROVE CleanText(k) <=> Pieces(text)[2] = k
  <2>1. q = Len(a) + 1
    BY <1>9, <1>11, <1>14, <1>16, <1>19, LenIs
  <2> QED  BY ONLY <1>13, <1>18, <2>1
<1> QED  BY ONLY <1>4, <1>18, <1>19 DEF TwoPieces

-----------------------------------------------------------------------------
(* tableScan and split *)

(* The parts of the answer of tableScan, for n rows.                       *)
ScanText(n, ks, m, js) ==
    int_to_hex(2 * WB) \o int_to_hex((3 + n) * WB) \o int_to_hex(n) \o ks \o int_to_hex(m) \o js

(* What split reads in it: a count, keys and the text of all values.       *)
ScanRead(response, n, ks, js) ==
    /\ hex_to_int(Word(response, 3)) = n
    /\ \A i \in 1..n : Word(response, i + 3) = Word(ks, i)
    /\ From(response, ValuesAt(n)) = js

LEMMA ScanParts ==
    ASSUME NEW n \in 0..2, NEW ks, HasWords(ks, n), NEW m \in Nat, Fits(m),
           NEW js \in Seq(Digit), NEW response, response = ScanText(n, ks, m, js)
    PROVE  ScanRead(response, n, ks, js)
<1>1. PICK a : a = int_to_hex(2 * WB)
  OBVIOUS
<1>2. PICK b : b = int_to_hex((3 + n) * WB)
  OBVIOUS
<1>3. PICK c : c = int_to_hex(n)
  OBVIOUS
<1>4. PICK l : l = int_to_hex(m)
  OBVIOUS
<1>5. /\ 2 * WB \in 0..255 /\ (3 + n) * WB \in 0..255 /\ n \in 0..255
      /\ 2 * WB \in Nat /\ (3 + n) * WB \in Nat /\ n \in Nat
  <2>1. n = 0 \/ n = 1 \/ n = 2
    OBVIOUS
  <2> QED  BY <2>1, WidthIs
<1>6. a \in Seq(Digit) /\ Len(a) = W /\ b \in Seq(Digit) /\ Len(b) = W
  BY <1>1, <1>2, <1>5, SmallFits, NumberExact
<1>7. c \in Seq(Digit) /\ Len(c) = W /\ hex_to_int(c) = n
  BY <1>3, <1>5, SmallFits, NumberExact
<1>8. l \in Seq(Digit) /\ Len(l) = W
  BY <1>4, NumberExact
<1>9. /\ HasWords(a, 1) /\ HasWords(b, 1) /\ HasWords(l, 1)
      /\ HasWords(c, 1) /\ Word(c, 1) = c
  BY <1>6, <1>7, <1>8, OneWord
<1>10. PICK x2 : x2 = a \o b
  OBVIOUS
<1>11. PICK x3 : x3 = x2 \o c
  OBVIOUS
<1>12. PICK x4 : x4 = x3 \o ks
  OBVIOUS
<1>13. PICK x5 : x5 = x4 \o l
  OBVIOUS
<1>14. response = x5 \o js
  BY ONLY <1>1, <1>2, <1>3, <1>4, <1>10, <1>11, <1>12, <1>13,
      response = ScanText(n, ks, m, js) DEF ScanText
<1>15. HasWords(ks, n)
  OBVIOUS
<1>16. HasWords(x2, 2)
  <2>1. HasWords(x2, 1 + 1)
    BY ONLY <1>9, <1>10, JoinWords
  <2> QED  BY <2>1
<1>17. HasWords(x3, 3) /\ Word(x3, 3) = c
  <2>1. /\ HasWords(x3, 2 + 1)
        /\ \A i \in 1..1 : Word(x3, 2 + i) = Word(c, i)
    BY ONLY <1>9, <1>11, <1>16, JoinWords
  <2> QED  BY <1>9, <2>1
<1>18. /\ HasWords(x4, 3 + n) /\ Word(x4, 3) = c
       /\ \A i \in 1..n : Word(x4, 3 + i) = Word(ks, i)
  <2>1. PICK k : k = 3
    OBVIOUS
  <2>2. k \in Nat /\ HasWords(x3, k) /\ n \in Nat
    BY <1>5, <1>17, <2>1
  <2>3. /\ HasWords(x4, k + n)
        /\ \A i \in 1..k : Word(x4, i) = Word(x3, i)
        /\ \A i \in 1..n : Word(x4, k + i) = Word(ks, i)
    BY ONLY <1>12, <1>15, <2>2, JoinWords
  <2>4. 3 \in 1..k
    BY <2>1
  <2> QED  BY <1>17, <2>1, <2>3, <2>4
<1>19. /\ HasWords(x5, n + 4)
       /\ \A i \in 1..(3 + n) : Word(x5, i) = Word(x4, i)
  <2>1. PICK k : k = 3 + n
    OBVIOUS
  <2>2. k \in Nat /\ HasWords(x4, k) /\ k + 1 = n + 4
    BY <1>5, <1>18, <2>1
  <2>3. /\ HasWords(x5, k + 1)
        /\ \A i \in 1..k : Word(x5, i) = Word(x4, i)
    BY ONLY <1>9, <1>13, <2>2, JoinWords
  <2> QED  BY <2>1, <2>2, <2>3
<1>20. ASSUME NEW i \in 1..(3 + n) PROVE Word(response, i) = Word(x4, i)
  <2>1. PICK k : k = n + 4
    OBVIOUS
  <2>2. PICK p : p = (i - 1) * W + 1
    OBVIOUS
  <2>3. PICK q : q = i * W
    OBVIOUS
  <2>4. k \in Nat /\ i \in 1..k
    BY <1>5, <2>1
  <2>5. p \in Nat \ {0} /\ q \in Nat /\ q <= k * W /\ p <= q + 1
    BY ONLY <2>2, <2>3, <2>4, Words
  <2>6. SubSeq(x5 \o js, p, q) = SubSeq(x5, p, q)
    <3>1. js \in Seq(Digit) /\ x5 \in Seq(Digit) /\ q <= Len(x5)
      BY <1>19, <2>1, <2>5 DEF HasWords
    <3> QED  BY ONLY <2>5, <3>1, InFront
  <2>7. Word(response, i) = Word(x5, i)
    BY ONLY <1>14, <2>2, <2>3, <2>6 DEF Word
  <2> QED  BY <1>19, <2>7
<1>21. hex_to_int(Word(response, 3)) = n
  <2>1. 3 \in 1..(3 + n)
    BY <1>5
  <2> QED  BY ONLY <1>7, <1>18, <1>20, <2>1
<1>22. ASSUME NEW i \in 1..n PROVE Word(response, i + 3) = Word(ks, i)
  <2>1. i + 3 \in 1..(3 + n) /\ i + 3 = 3 + i
    BY <1>5
  <2>2. Word(x4, 3 + i) = Word(ks, i)
    BY <1>18
  <2> QED  BY ONLY <1>20, <2>1, <2>2
<1>23. From(response, ValuesAt(n)) = js
  <2>1. PICK e : e = Len(js)
    OBVIOUS
  <2>2. x5 \in Seq(Digit) /\ Len(x5) = (n + 4) * W /\ js \in Seq(Digit) /\ e \in Nat /\ e <= Len(js)
    BY <1>19, <2>1, LenIs DEF HasWords
  <2>3. SubSeq(x5 \o js, Len(x5) + 1, Len(x5) + e) = SubSeq(js, 1, e)
    BY ONLY <2>2, StartBehind
  <2>4. Len(x5 \o js) = Len(x5) + e
    BY ONLY <2>1, <2>2, ConcatIs
  <2>5. (ValuesAt(n) - 1) * W + 1 = Len(x5) + 1
    <3>1. ValuesAt(n) - 1 = n + 4
      BY <1>5 DEF ValuesAt
    <3> QED  BY ONLY <2>2, <3>1
  <2>6. SubSeq(js, 1, Len(js)) = js
    BY ONLY <2>2, SubSeqFull
  <2> QED  BY ONLY <1>14, <2>1, <2>3, <2>4, <2>5, <2>6 DEF From
<1> QED  BY ONLY <1>21, <1>22, <1>23 DEF ScanRead

(* What split makes of an answer for the n rows of t, with the pieces P.   *)
SplitGives(response, t, n, P) ==
    split(response) =
        IF \E i \in 1..n : Len(P[i]) % 2 = 1 THEN Failed("runtime_error")
        ELSE Decoded({[key |-> t[i].key, value |-> hex_to_byte_array(P[i])] : i \in 1..n})

LEMMA SplitIs ==
    ASSUME NEW t, NEW n \in 0..2, DOMAIN t = 1..n,
           NEW ks, \A i \in 1..n : hex_to_byte_array(Word(ks, i)) = t[i].key,
           NEW response, NEW js, ScanRead(response, n, ks, js),
           NEW P, P = Pieces(js), P \in Seq(Seq(Digit)), n <= Len(P)
    PROVE  SplitGives(response, t, n, P)
<1> DEFINE m == hex_to_int(Word(response, 3))
           keys == [i \in 1..m |-> Word(response, i + 3)]
           values == Pieces(From(response, ValuesAt(m)))
<1>1. split(response) =
        IF \E i \in 1..m : i <= Len(values) /\ Len(values[i]) % 2 = 1
        THEN Failed("runtime_error")
        ELSE IF Len(values) < m THEN Failed("out_of_range")
        ELSE Decoded({[key |-> hex_to_byte_array(keys[i]),
                       value |-> hex_to_byte_array(values[i])] : i \in 1..m})
  BY DEF split
<1>2. m = n /\ \A i \in 1..n : Word(response, i + 3) = Word(ks, i)
  BY DEF ScanRead
<1>3. values = P
  <2>1. From(response, ValuesAt(n)) = js
    BY DEF ScanRead
  <2> HIDE DEF m
  <2> QED  BY <1>2, <2>1
<1>4. \A i \in 1..n : hex_to_byte_array(keys[i]) = t[i].key
  <2> HIDE DEF m
  <2>1. \A i \in 1..n : keys[i] = Word(ks, i)
    BY <1>2
  <2> QED  BY <2>1
<1> HIDE DEF m, keys, values
<1>5. Len(P) \in Nat /\ n \in Nat
  OBVIOUS
<1>6. \A i \in 1..n : i <= Len(P)
  BY <1>5
<1>7. ~(Len(P) < n)
  BY <1>5
<1>8. {[key |-> hex_to_byte_array(keys[i]), value |-> hex_to_byte_array(values[i])] : i \in 1..n}
        = {[key |-> t[i].key, value |-> hex_to_byte_array(P[i])] : i \in 1..n}
  BY <1>3, <1>4
<1> QED  BY ONLY <1>1, <1>2, <1>3, <1>6, <1>7, <1>8 DEF SplitGives

(* What a scan of t gives, with the pieces P of the text of its values.    *)
ScanIs(t, P) ==
    /\ P \in Seq(Seq(Digit)) /\ Len(t) <= Len(P)
    /\ (\A i \in 1..Len(t) : CleanText(byte_array_to_hex(t[i].value)))
         <=> (\A i \in 1..Len(t) : P[i] = byte_array_to_hex(t[i].value))
    /\ SplitGives(tableScan(t), t, Len(t), P)

(* The text of the values of one row.                                      *)
Marked(r) == byte_array_to_hex(r.value) \o Token
HexKey(r) == byte_array_to_hex(r.key)

LEMMA HexKeyIs ==
    ASSUME NEW r, GoodRow(r)
    PROVE  /\ HasWords(HexKey(r), 1) /\ Word(HexKey(r), 1) = HexKey(r)
           /\ hex_to_byte_array(HexKey(r)) = r.key
<1>1. PICK x : x = HexKey(r)
  OBVIOUS
<1>2. r.key \in Seq(0..255) /\ Len(r.key) = WB
  BY DEF GoodRow
<1>3. x \in Seq(Digit) /\ Len(x) = 2 * WB /\ hex_to_byte_array(x) = r.key
  BY <1>1, <1>2, BytesExact DEF HexKey
<1>4. Len(x) = W
  BY <1>3, WidthIs
<1> QED  BY <1>1, <1>3, <1>4, OneWord

LEMMA MarkedIs ==
    ASSUME NEW r, GoodRow(r)
    PROVE  /\ byte_array_to_hex(r.value) \in Seq(Digit)
           /\ Marked(r) \in Seq(Digit) /\ Len(Marked(r)) = 2 * (Len(r.value) + 4)
           /\ Len(r.value) \in Nat
<1>1. PICK h : h = byte_array_to_hex(r.value)
  OBVIOUS
<1>2. h \in Seq(Digit) /\ Len(h) = 2 * Len(r.value) /\ Len(r.value) \in Nat
  BY <1>1, BytesExact DEF GoodRow
<1>3. h \o Token \in Seq(Digit) /\ Len(h \o Token) = 2 * Len(r.value) + 8
  <2>1. /\ h \o Token \in Seq(Digit) /\ Len(h \o Token) = Len(h) + Len(Token)
    BY ONLY <1>2, TokenIs, ConcatIs
  <2> QED  BY <1>2, <2>1, TokenIs
<1>4. Len(h \o Token) = 2 * (Len(r.value) + 4)
  BY <1>2, <1>3
<1> QED  BY ONLY <1>1, <1>2, <1>3, <1>4 DEF Marked

(* tableScan in its parts.                                                 *)
LEMMA ScanTextIs ==
    ASSUME NEW t, NEW n, n = Len(t),
           NEW ks, ks = FlattenSeq([i \in DOMAIN t |-> HexKey(t[i])]),
           NEW js, js = FlattenSeq([i \in DOMAIN t |-> Marked(t[i])]),
           NEW m, m = Len(js) \div 2
    PROVE  tableScan(t) = ScanText(n, ks, m, Padded(js))
<1>1. Joined(t) = js
  BY DEF Joined, Marked
<1> QED  BY <1>1 DEF tableScan, ScanText, HexKey

LEMMA ScanOfNone == \E P : ScanIs(<<>>, P)
<1>1. PICK t : t = <<>>
  OBVIOUS
<1>2. PICK e : e = <<>>
  OBVIOUS
<1>3. PICK n : n = 0
  OBVIOUS
<1>4. n \in 0..2 /\ n = Len(t) /\ DOMAIN t = 1..n /\ \A i \in 1..n : FALSE
  BY <1>1, <1>3
<1>5. e \in Seq(Digit) /\ HasWords(e, n)
  <2>1. e \in Seq(Digit) /\ Len(e) = 0
    BY <1>2, EmptySeq
  <2>2. W \in Nat
    BY WidthIs
  <2> QED  BY <1>3, <2>1, <2>2 DEF HasWords
<1>6. /\ e = FlattenSeq([i \in DOMAIN t |-> HexKey(t[i])])
      /\ e = FlattenSeq([i \in DOMAIN t |-> Marked(t[i])])
  <2>1. [i \in DOMAIN t |-> HexKey(t[i])] = <<>> /\ [i \in DOMAIN t |-> Marked(t[i])] = <<>>
    BY <1>1
  <2> QED  BY <1>2, <2>1, FlatNone
<1>7. PICK m : m = Len(e) \div 2
  OBVIOUS
<1>8. m \in Nat /\ Fits(m)
  <2>1. m = 0
    BY <1>2, <1>7
  <2> QED  BY <2>1, SmallFits
<1>9. tableScan(t) = ScanText(n, e, m, Padded(e))
  BY ONLY <1>4, <1>6, <1>7, ScanTextIs
<1>10. PICK js : js = Padded(e)
  OBVIOUS
<1>11. js \in Seq(Digit)
  <2>1. PICK z \in Seq(Digit) : Padded(e) = e \o z
    BY <1>5, PaddedIs
  <2> QED  BY ONLY <1>5, <1>10, <2>1, z \in Seq(Digit), ConcatIs
<1>12. PICK response : response = tableScan(t)
  OBVIOUS
<1>13. ScanRead(response, n, e, js)
  <2>1. response = ScanText(n, e, m, js)
    BY ONLY <1>9, <1>10, <1>12
  <2> QED  BY ONLY <1>4, <1>5, <1>8, <1>11, <2>1, ScanParts
<1>14. PICK P : P = Pieces(js)
  OBVIOUS
<1>15. P \in Seq(Seq(Digit)) /\ n <= Len(P)
  <2>1. PICK cut : /\ Pieces(js) = cut[1]
                   /\ \A p \in 1..(Len(js) + 1) : /\ cut[p] = PiecesFrom(js, p, cut)
                                                   /\ cut[p] \in Seq(Seq(Digit))
    BY <1>11, PiecesIs
  <2>2. 1 \in 1..(Len(js) + 1)
    BY <1>11, LenIs
  <2>3. P \in Seq(Seq(Digit))
    BY <1>14, <2>1, <2>2
  <2> QED  BY <1>3, <2>3
<1>16. SplitGives(response, t, n, P)
  <2>1. \A i \in 1..n : hex_to_byte_array(Word(e, i)) = t[i].key
    BY <1>4
  <2> QED  BY ONLY <1>4, <1>13, <1>14, <1>15, <2>1, SplitIs
<1>17. ScanIs(t, P)
  BY ONLY <1>4, <1>12, <1>15, <1>16 DEF ScanIs
<1> QED  BY <1>1, <1>17

LEMMA ScanOfOne ==
    ASSUME NEW r, GoodRow(r)
    PROVE  \E P : ScanIs(<<r>>, P)
<1>1. PICK t : t = <<r>>
  OBVIOUS
<1>2. PICK n : n = 1
  OBVIOUS
<1>3. n \in 0..2 /\ n = Len(t) /\ DOMAIN t = 1..n /\ 1..n = {1} /\ t[1] = r
  BY <1>1, <1>2
<1>4. PICK ks : ks = HexKey(r)
  OBVIOUS
<1>5. HasWords(ks, n) /\ Word(ks, 1) = ks /\ hex_to_byte_array(ks) = r.key
  BY <1>2, <1>4, HexKeyIs
<1>6. PICK h : h = byte_array_to_hex(r.value)
  OBVIOUS
<1>7. PICK j : j = Marked(r)
  OBVIOUS
<1>8. h \in Seq(Digit) /\ j \in Seq(Digit) /\ Len(j) = 2 * (Len(r.value) + 4)
  BY <1>6, <1>7, MarkedIs
<1>9. /\ ks = FlattenSeq([i \in DOMAIN t |-> HexKey(t[i])])
      /\ j = FlattenSeq([i \in DOMAIN t |-> Marked(t[i])])
  <2>1. PICK a : a = [i \in DOMAIN t |-> HexKey(t[i])]
    OBVIOUS
  <2>2. PICK b : b = [i \in DOMAIN t |-> Marked(t[i])]
    OBVIOUS
  <2>3. Len(a) = 1 /\ a[1] = ks /\ Len(b) = 1 /\ b[1] = j
    BY <1>2, <1>3, <1>4, <1>7, <2>1, <2>2
  <2> QED  BY <2>1, <2>2, <2>3, FlatOne
<1>10. PICK m : m = Len(j) \div 2
  OBVIOUS
<1>11. m \in Nat /\ Fits(m)
  <2>1. Len(r.value) \in Nat /\ Len(r.value) <= MaxLong + MaxShort
    BY DEF GoodRow
  <2>2. m = Len(r.value) + 4
    <3>1. PICK l : l = Len(j)
      OBVIOUS
    <3>2. PICK a : a = Len(r.value)
      OBVIOUS
    <3>3. a \in Nat /\ l = 2 * (a + 4) /\ m = l \div 2
      BY ONLY <1>8, <1>10, <2>1, <3>1, <3>2
    <3>4. m = a + 4
      BY ONLY <3>3
    <3> QED  BY ONLY <3>2, <3>4
  <2>3. m \in 0..(MaxLong + MaxShort + 8)
    BY <2>1, <2>2, LengthAssumption
  <2> QED  BY <2>3, LengthAssumption, RoomAssumption DEF Fits
<1>12. tableScan(t) = ScanText(n, ks, m, Padded(j))
  BY ONLY <1>3, <1>9, <1>10, ScanTextIs
<1>13. PICK js : js = Padded(j)
  OBVIOUS
<1>14. PICK z \in Seq(Digit) : js = h \o (Token \o z)
  <2>1. PICK z \in Seq(Digit) : js = j \o z
    BY <1>8, <1>13, PaddedIs
  <2>2. z \in Seq(Digit)
    BY <2>1
  <2>3. (h \o Token) \o z = h \o (Token \o z)
    BY ONLY <1>8, <2>2, TokenIs, ConcatAssociative, SMTT(30)
  <2>4. js = h \o (Token \o z)
    BY ONLY <1>6, <1>7, <2>1, <2>3 DEF Marked
  <2> QED  BY ONLY <2>2, <2>4
<1>15. js \in Seq(Digit)
  <2>1. z \in Seq(Digit)
    BY <1>14
  <2> QED  BY ONLY <1>8, <1>14, <2>1, TokenIs, ConcatIs
<1>16. PICK response : response = tableScan(t)
  OBVIOUS
<1>17. ScanRead(response, n, ks, js)
  <2>1. response = ScanText(n, ks, m, js)
    BY ONLY <1>12, <1>13, <1>16
  <2> QED  BY ONLY <1>3, <1>5, <1>11, <1>15, <2>1, ScanParts
<1>18. PICK P : P = Pieces(js)
  OBVIOUS
<1>19. P \in Seq(Seq(Digit)) /\ 1 <= Len(P) /\ (CleanText(h) <=> P[1] = h)
  <2>1. z \in Seq(Digit)
    BY <1>14
  <2> QED  BY ONLY <1>8, <1>14, <1>18, <2>1, PiecesOfOne
<1>20. n <= Len(P)
  BY <1>2, <1>19
<1>21. SplitGives(response, t, n, P)
  <2>1. \A i \in 1..n : hex_to_byte_array(Word(ks, i)) = t[i].key
    BY <1>3, <1>5
  <2> QED  BY ONLY <1>3, <1>17, <1>18, <1>19, <1>20, <2>1, SplitIs
<1>22. (\A i \in 1..n : CleanText(byte_array_to_hex(t[i].value)))
         <=> (\A i \in 1..n : P[i] = byte_array_to_hex(t[i].value))
  BY ONLY <1>3, <1>6, <1>19
<1>23. ScanIs(t, P)
  BY ONLY <1>3, <1>16, <1>19, <1>20, <1>21, <1>22 DEF ScanIs
<1> QED  BY <1>1, <1>23

LEMMA ScanOfTwo ==
    ASSUME NEW r, NEW q, GoodPair(r, q)
    PROVE  \E P : ScanIs(<<r, q>>, P)
<1>1. GoodRow(r) /\ GoodRow(q)
  BY DEF GoodPair
<1>2. PICK t : t = <<r, q>>
  OBVIOUS
<1>3. PICK n : n = 2
  OBVIOUS
<1>4. n \in 0..2 /\ n = Len(t) /\ DOMAIN t = 1..n /\ 1..n = {1, 2} /\ t[1] = r /\ t[2] = q
  BY <1>2, <1>3
<1>5. PICK ks : ks = HexKey(r) \o HexKey(q)
  OBVIOUS
<1>6. /\ HasWords(ks, n)
      /\ hex_to_byte_array(Word(ks, 1)) = r.key /\ hex_to_byte_array(Word(ks, 2)) = q.key
  <2>1. PICK x : x = HexKey(r)
    OBVIOUS
  <2>2. PICK y : y = HexKey(q)
    OBVIOUS
  <2>3. /\ HasWords(x, 1) /\ Word(x, 1) = x /\ hex_to_byte_array(x) = r.key
        /\ HasWords(y, 1) /\ Word(y, 1) = y /\ hex_to_byte_array(y) = q.key
    BY <1>1, <2>1, <2>2, HexKeyIs
  <2>4. /\ HasWords(x \o y, 1 + 1)
        /\ \A i \in 1..1 : Word(x \o y, i) = Word(x, i)
        /\ \A i \in 1..1 : Word(x \o y, 1 + i) = Word(y, i)
    BY ONLY <2>3, JoinWords
  <2>5. ks = x \o y
    BY <1>5, <2>1, <2>2
  <2>6. 1 \in 1..1 /\ 1 + 1 = 2
    OBVIOUS
  <2> QED  BY ONLY <1>3, <2>3, <2>4, <2>5, <2>6
<1>7. PICK h : h = byte_array_to_hex(r.value)
  OBVIOUS
<1>8. PICK k : k = byte_array_to_hex(q.value)
  OBVIOUS
<1>9. PICK j : j = Marked(r) \o Marked(q)
  OBVIOUS
<1>10. /\ h \in Seq(Digit) /\ k \in Seq(Digit) /\ j \in Seq(Digit)
      /\ Len(j) = 2 * (Len(r.value) + Len(q.value) + 8)
  <2>1. /\ h \in Seq(Digit) /\ Marked(r) \in Seq(Digit)
        /\ Len(Marked(r)) = 2 * (Len(r.value) + 4) /\ Len(r.value) \in Nat
    BY <1>7, <1>1, MarkedIs
  <2>2. /\ k \in Seq(Digit) /\ Marked(q) \in Seq(Digit)
        /\ Len(Marked(q)) = 2 * (Len(q.value) + 4) /\ Len(q.value) \in Nat
    BY <1>8, <1>1, MarkedIs
  <2>3. j \in Seq(Digit) /\ Len(j) = Len(Marked(r)) + Len(Marked(q))
    BY ONLY <1>9, <2>1, <2>2, ConcatIs
  <2>4. PICK a : a = Len(r.value)
    OBVIOUS
  <2>5. PICK b : b = Len(q.value)
    OBVIOUS
  <2>6. Len(j) = 2 * (a + 4) + 2 * (b + 4) /\ a \in Nat /\ b \in Nat
    BY ONLY <2>1, <2>2, <2>3, <2>4, <2>5
  <2>7. 2 * (a + 4) + 2 * (b + 4) = 2 * (a + b + 8)
    BY ONLY <2>6
  <2> QED  BY ONLY <2>1, <2>2, <2>3, <2>4, <2>5, <2>6, <2>7
<1>11. /\ ks = FlattenSeq([i \in DOMAIN t |-> HexKey(t[i])])
       /\ j = FlattenSeq([i \in DOMAIN t |-> Marked(t[i])])
  <2>1. PICK a : a = [i \in DOMAIN t |-> HexKey(t[i])]
    OBVIOUS
  <2>2. PICK b : b = [i \in DOMAIN t |-> Marked(t[i])]
    OBVIOUS
  <2>3. /\ Len(a) = 2 /\ a[1] = HexKey(r) /\ a[2] = HexKey(q)
        /\ Len(b) = 2 /\ b[1] = Marked(r) /\ b[2] = Marked(q)
    BY <1>3, <1>4, <2>1, <2>2
  <2>4. FlattenSeq(a) = a[1] \o a[2] /\ FlattenSeq(b) = b[1] \o b[2]
    BY ONLY <2>3, FlatTwo
  <2> QED  BY ONLY <1>5, <1>9, <2>1, <2>2, <2>3, <2>4
<1>12. PICK m : m = Len(j) \div 2
  OBVIOUS
<1>13. m \in Nat /\ Fits(m)
  <2>1. PICK a : a = Len(r.value)
    OBVIOUS
  <2>2. PICK b : b = Len(q.value)
    OBVIOUS
  <2>3. a \in Nat /\ b \in Nat /\ a + b <= MaxLong + MaxShort
    BY <1>1, <2>1, <2>2 DEF GoodRow, GoodPair
  <2>4. m = a + b + 8
    <3>1. PICK l : l = Len(j)
      OBVIOUS
    <3>2. l = 2 * (a + b + 8) /\ m = l \div 2
      BY ONLY <1>10, <1>12, <2>1, <2>2, <3>1
    <3> QED  BY ONLY <2>3, <3>2
  <2>5. m \in 0..(MaxLong + MaxShort + 8)
    BY <2>3, <2>4, LengthAssumption
  <2> QED  BY <2>5, LengthAssumption, RoomAssumption DEF Fits
<1>14. tableScan(t) = ScanText(n, ks, m, Padded(j))
  BY ONLY <1>4, <1>11, <1>12, ScanTextIs
<1>15. PICK js : js = Padded(j)
  OBVIOUS
<1>16. PICK z \in Seq(Digit) : js = h \o (Token \o (k \o (Token \o z)))
  <2>1. PICK z \in Seq(Digit) : js = j \o z
    BY <1>10, <1>15, PaddedIs
  <2>2. z \in Seq(Digit) /\ Token \in Seq(Digit)
    BY <2>1, TokenIs
  <2>3. PICK a : a = h \o Token
    OBVIOUS
  <2>4. PICK b : b = k \o Token
    OBVIOUS
  <2>5. PICK c : c = Token \o z
    OBVIOUS
  <2>6. PICK d : d = k \o c
    OBVIOUS
  <2>7. a \in Seq(Digit) /\ b \in Seq(Digit) /\ c \in Seq(Digit) /\ d \in Seq(Digit)
    BY ONLY <1>10, <2>2, <2>3, <2>4, <2>5, <2>6, ConcatIs
  <2>8. js = (a \o b) \o z
    BY ONLY <1>7, <1>8, <1>9, <2>1, <2>3, <2>4 DEF Marked
  <2>9. (a \o b) \o z = a \o (b \o z)
    BY ONLY <2>2, <2>7, ConcatAssociative, SMTT(30)
  <2>10. b \o z = d
    <3>1. (k \o Token) \o z = k \o (Token \o z)
      BY ONLY <1>10, <2>2, ConcatAssociative, SMTT(30)
    <3> QED  BY ONLY <2>4, <2>5, <2>6, <3>1
  <2>11. a \o d = h \o (Token \o d)
    <3>1. h \in Seq(Digit) /\ d \in Seq(Digit)
      BY <1>10, <2>7
    <3>2. (h \o Token) \o d = h \o (Token \o d)
      BY ONLY <2>2, <3>1, ConcatAssociative
    <3> QED  BY ONLY <2>3, <3>2
  <2>12. js = h \o (Token \o (k \o (Token \o z)))
    BY ONLY <2>5, <2>6, <2>8, <2>9, <2>10, <2>11
  <2> QED  BY ONLY <2>2, <2>12
<1>17. z \in Seq(Digit)
  BY <1>16
<1>18. PICK P : P = Pieces(js)
  OBVIOUS
<1>19. /\ P \in Seq(Seq(Digit)) /\ 2 <= Len(P)
       /\ (CleanText(h) /\ CleanText(k)) <=> (P[1] = h /\ P[2] = k)
  <2>1. TwoPieces(P, h, k)
    BY ONLY <1>10, <1>16, <1>17, <1>18, PiecesOfTwo
  <2> QED  BY ONLY <2>1 DEF TwoPieces
<1>20. js \in Seq(Digit)
  <2>1. PICK y \in Seq(Digit) : js = j \o y
    BY <1>10, <1>15, PaddedIs
  <2>2. y \in Seq(Digit)
    BY <2>1
  <2> QED  BY ONLY <1>10, <2>1, <2>2, ConcatIs
<1>21. PICK response : response = tableScan(t)
  OBVIOUS
<1>22. ScanRead(response, n, ks, js)
  <2>1. response = ScanText(n, ks, m, js)
    BY ONLY <1>14, <1>15, <1>21
  <2> QED  BY ONLY <1>4, <1>6, <1>13, <1>20, <2>1, ScanParts
<1>23. n <= Len(P)
  BY <1>3, <1>19
<1>24. SplitGives(response, t, n, P)
  <2>1. \A i \in 1..n : hex_to_byte_array(Word(ks, i)) = t[i].key
    BY <1>4, <1>6
  <2> QED  BY ONLY <1>4, <1>18, <1>19, <1>22, <1>23, <2>1, SplitIs
<1>25. (\A i \in 1..n : CleanText(byte_array_to_hex(t[i].value)))
         <=> (\A i \in 1..n : P[i] = byte_array_to_hex(t[i].value))
  BY ONLY <1>4, <1>7, <1>8, <1>19
<1>26. ScanIs(t, P)
  BY ONLY <1>4, <1>19, <1>21, <1>23, <1>24, <1>25 DEF ScanIs
<1> QED  BY <1>2, <1>26

LEMMA ScanExists ==
    ASSUME NEW t \in Tables
    PROVE  \E P : ScanIs(t, P)
BY TablesAre, ScanOfNone, ScanOfOne, ScanOfTwo

-----------------------------------------------------------------------------
(* What a scan gives back. *)

LEMMA CleanIs ==
    ASSUME NEW r
    PROVE  Clean(r.value) <=> CleanText(byte_array_to_hex(r.value))
BY DEF Clean, CleanText

(* The keys of a table are different.                                      *)
LEMMA KeysDiffer ==
    ASSUME NEW t \in Tables
    PROVE  /\ DOMAIN t = 1..Len(t)
           /\ \A i \in 1..Len(t) : GoodRow(t[i])
           /\ \A i, j \in 1..Len(t) : t[i].key = t[j].key => i = j
<1>1. CASE t = <<>>
  BY <1>1
<1>2. ASSUME NEW r, t = <<r>>, GoodRow(r)
      PROVE  /\ DOMAIN t = 1..Len(t)
             /\ \A i \in 1..Len(t) : GoodRow(t[i])
             /\ \A i, j \in 1..Len(t) : t[i].key = t[j].key => i = j
  BY <1>2
<1>3. ASSUME NEW r, NEW q, t = <<r, q>>, GoodPair(r, q)
      PROVE  /\ DOMAIN t = 1..Len(t)
             /\ \A i \in 1..Len(t) : GoodRow(t[i])
             /\ \A i, j \in 1..Len(t) : t[i].key = t[j].key => i = j
  <2>1. GoodRow(r) /\ GoodRow(q) /\ r.key # q.key
    BY <1>3 DEF GoodPair
  <2>2. DOMAIN t = 1..Len(t) /\ 1..Len(t) = {1, 2} /\ t[1] = r /\ t[2] = q
    BY <1>3
  <2> QED  BY ONLY <2>1, <2>2
<1> QED  BY <1>1, <1>2, <1>3, TablesAre

(* The result of a scan is an exception, or a row for every key.           *)
LEMMA ScanResult ==
    ASSUME NEW t \in Tables
    PROVE  \E P : /\ \A i \in 1..Len(t) : P[i] \in Seq(Digit)
                  /\ (\A r \in Rows(t) : Clean(r.value))
                       <=> (\A i \in 1..Len(t) : P[i] = byte_array_to_hex(t[i].value))
                  /\ SplitGives(tableScan(t), t, Len(t), P)
<1>1. PICK P : ScanIs(t, P)
  BY ScanExists
<1>2. DOMAIN t = 1..Len(t) /\ \A i \in 1..Len(t) : GoodRow(t[i])
  BY KeysDiffer
<1>3. Rows(t) = {t[i] : i \in 1..Len(t)}
  BY ONLY <1>2 DEF Rows
<1>4. (\A r \in Rows(t) : Clean(r.value))
        <=> (\A i \in 1..Len(t) : CleanText(byte_array_to_hex(t[i].value)))
  BY ONLY <1>3, CleanIs
<1>5. /\ P \in Seq(Seq(Digit)) /\ Len(t) <= Len(P)
      /\ (\A i \in 1..Len(t) : CleanText(byte_array_to_hex(t[i].value)))
           <=> (\A i \in 1..Len(t) : P[i] = byte_array_to_hex(t[i].value))
      /\ SplitGives(tableScan(t), t, Len(t), P)
  BY ONLY <1>1 DEF ScanIs
<1>6. ASSUME NEW i \in 1..Len(t) PROVE P[i] \in Seq(Digit)
  <2>1. t = <<>> \/ Len(t) = 1 \/ Len(t) = 2
    BY TablesAre
  <2>2. Len(t) \in Nat /\ Len(P) \in Nat
    BY <1>5, <2>1
  <2>3. i \in 1..Len(P)
    BY <1>5, <2>2
  <2> QED  BY <1>5, <2>3
<1> QED  BY ONLY <1>4, <1>5, <1>6

(* A scan fails, or gives every key with a value of bytes.                 *)
LEMMA ScanKeeps ==
    ASSUME NEW t \in Tables
    PROVE  \/ split(tableScan(t)) = Failed("runtime_error")
           \/ \E rows : /\ split(tableScan(t)) = Decoded(rows)
                        /\ {r.key : r \in rows} = {r.key : r \in Rows(t)}
                        /\ \A r \in rows : Len(r.key) = WB /\ r.value \in Seq(0..255)
<1>1. PICK P : /\ \A i \in 1..Len(t) : P[i] \in Seq(Digit)
               /\ SplitGives(tableScan(t), t, Len(t), P)
  BY ScanResult
<1>2. PICK n : n = Len(t)
  OBVIOUS
<1>3. DOMAIN t = 1..n /\ \A i \in 1..n : GoodRow(t[i])
  BY <1>2, KeysDiffer
<1>4. CASE \E i \in 1..n : Len(P[i]) % 2 = 1
  BY ONLY <1>1, <1>2, <1>4 DEF SplitGives
<1>5. CASE ~ \E i \in 1..n : Len(P[i]) % 2 = 1
  <2>1. PICK rows : rows = {[key |-> t[i].key, value |-> hex_to_byte_array(P[i])] : i \in 1..n}
    OBVIOUS
  <2>2. split(tableScan(t)) = Decoded(rows)
    BY ONLY <1>1, <1>2, <1>5, <2>1 DEF SplitGives
  <2>3. {r.key : r \in rows} = {r.key : r \in Rows(t)}
    <3>1. Rows(t) = {t[i] : i \in 1..n}
      BY ONLY <1>3 DEF Rows
    <3>2. ASSUME NEW r \in rows PROVE r.key \in {q.key : q \in Rows(t)}
      <4>1. PICK i \in 1..n : r = [key |-> t[i].key, value |-> hex_to_byte_array(P[i])]
        BY <2>1
      <4>2. r.key = t[i].key /\ t[i] \in Rows(t)
        BY <3>1, <4>1
      <4> QED  BY <4>2
    <3>3. ASSUME NEW q \in Rows(t) PROVE q.key \in {r.key : r \in rows}
      <4>1. PICK i \in 1..n : q = t[i]
        BY <3>1
      <4>2. PICK r : r = [key |-> t[i].key, value |-> hex_to_byte_array(P[i])]
        OBVIOUS
      <4>3. r \in rows /\ r.key = q.key
        BY <2>1, <4>1, <4>2
      <4> QED  BY <4>3
    <3> QED  BY ONLY <3>2, <3>3
  <2>4. ASSUME NEW r \in rows PROVE Len(r.key) = WB /\ r.value \in Seq(0..255)
    <3>1. PICK i \in 1..n : r = [key |-> t[i].key, value |-> hex_to_byte_array(P[i])]
      BY <2>1
    <3>2. Len(t[i].key) = WB
      BY <1>3 DEF GoodRow
    <3>3. hex_to_byte_array(P[i]) \in Seq(0..255)
      BY <1>1, <1>2, DigitsExact
    <3> QED  BY <3>1, <3>2, <3>3
  <2> QED  BY <2>2, <2>3, <2>4
<1> QED  BY <1>4, <1>5

(* Rows are no exception, and differ when their results do.                *)
LEMMA ResultsDiffer ==
    /\ \A rows, e : e \in {"none", "runtime_error", "revert"} => Decoded(rows) # Failed(e)
    /\ \A r, q : Decoded(r) = Decoded(q) => r = q
<1>1. ASSUME NEW rows, NEW e, e \in {"none", "runtime_error", "revert"}
      PROVE  Decoded(rows) # Failed(e)
  <2>1. Decoded(rows).is = "rows" /\ Failed(e).is = e
    BY DEF Decoded, Failed
  <2> QED  BY <1>1, <2>1
<1>2. ASSUME NEW r, NEW q, Decoded(r) = Decoded(q) PROVE r = q
  <2>1. Decoded(r).rows = r /\ Decoded(q).rows = q
    BY DEF Decoded
  <2> QED  BY <1>2, <2>1
<1> QED  BY <1>1, <1>2

(* The rows are those of the table exactly when every piece is a value.    *)
LEMMA ScanExact ==
    ASSUME NEW t \in Tables
    PROVE  split(tableScan(t)) = Decoded(Rows(t)) <=> \A r \in Rows(t) : Clean(r.value)
<1>1. PICK P : /\ \A i \in 1..Len(t) : P[i] \in Seq(Digit)
               /\ (\A r \in Rows(t) : Clean(r.value))
                    <=> (\A i \in 1..Len(t) : P[i] = byte_array_to_hex(t[i].value))
               /\ SplitGives(tableScan(t), t, Len(t), P)
  BY ScanResult
<1>2. PICK n : n = Len(t)
  OBVIOUS
<1>3. /\ DOMAIN t = 1..n /\ \A i \in 1..n : GoodRow(t[i])
      /\ \A i, j \in 1..n : t[i].key = t[j].key => i = j
  BY <1>2, KeysDiffer
<1>4. Rows(t) = {t[i] : i \in 1..n}
  BY ONLY <1>3 DEF Rows
<1>5. ASSUME NEW i \in 1..n
      PROVE  /\ t[i] = [key |-> t[i].key, value |-> t[i].value] /\ t[i].value \in Seq(0..255)
             /\ byte_array_to_hex(t[i].value) \in Seq(Digit)
             /\ Len(byte_array_to_hex(t[i].value)) = 2 * Len(t[i].value)
             /\ hex_to_byte_array(byte_array_to_hex(t[i].value)) = t[i].value
  <2>1. PICK r : r = t[i]
    OBVIOUS
  <2>2. GoodRow(r)
    BY <1>3, <2>1
  <2>3. r = [key |-> r.key, value |-> r.value] /\ r.value \in Seq(0..255)
    BY <2>2 DEF GoodRow
  <2>4. PICK v : v = r.value
    OBVIOUS
  <2>5. v \in Seq(0..255)
    BY <2>3, <2>4
  <2>6. /\ byte_array_to_hex(v) \in Seq(Digit) /\ Len(byte_array_to_hex(v)) = 2 * Len(v)
        /\ hex_to_byte_array(byte_array_to_hex(v)) = v
    BY ONLY <2>5, BytesExact
  <2> QED  BY ONLY <2>1, <2>3, <2>4, <2>5, <2>6
<1>6. PICK R : R = {[key |-> t[i].key, value |-> hex_to_byte_array(P[i])] : i \in 1..n}
  OBVIOUS
<1>7. split(tableScan(t)) = IF \E i \in 1..n : Len(P[i]) % 2 = 1
                            THEN Failed("runtime_error") ELSE Decoded(R)
  BY ONLY <1>1, <1>2, <1>6 DEF SplitGives
<1>8. ASSUME \A i \in 1..n : P[i] = byte_array_to_hex(t[i].value)
      PROVE  split(tableScan(t)) = Decoded(Rows(t))
  <2>1. ASSUME NEW i \in 1..n PROVE Len(P[i]) % 2 # 1
    <3>1. PICK k : k = Len(t[i].value)
      OBVIOUS
    <3>2. k \in Nat /\ Len(P[i]) = 2 * k
      <4>1. t[i].value \in Seq(0..255) /\ Len(P[i]) = 2 * Len(t[i].value)
        BY ONLY <1>5, <1>8, i \in 1..n
      <4>2. k \in Nat
        BY ONLY <3>1, <4>1, LenProperties
      <4> QED  BY ONLY <3>1, <4>1, <4>2
    <3>3. PICK e : e = Len(P[i])
      OBVIOUS
    <3>4. e % 2 # 1
      BY ONLY <3>2, <3>3
    <3> QED  BY ONLY <3>3, <3>4
  <2>2. R = Rows(t)
    <3>1. \A i \in 1..n : t[i] = [key |-> t[i].key, value |-> hex_to_byte_array(P[i])]
      BY ONLY <1>5, <1>8
    <3> QED  BY ONLY <1>4, <1>6, <3>1
  <2> QED  BY ONLY <1>7, <2>1, <2>2
<1>9. ASSUME split(tableScan(t)) = Decoded(Rows(t)), NEW i \in 1..n
      PROVE  P[i] = byte_array_to_hex(t[i].value)
  <2>1. /\ ~ \E j \in 1..n : Len(P[j]) % 2 = 1
        /\ Rows(t) = R
    BY ONLY <1>7, <1>9, ResultsDiffer
  <2>2. PICK e : e = [key |-> t[i].key, value |-> hex_to_byte_array(P[i])]
    OBVIOUS
  <2>3. e \in Rows(t)
    BY ONLY <1>6, <2>1, <2>2, i \in 1..n
  <2>4. PICK j \in 1..n : e = t[j]
    BY ONLY <1>4, <2>3
  <2>5. e.key = t[i].key /\ e.value = hex_to_byte_array(P[i])
    BY ONLY <2>2
  <2>6. j = i
    BY <1>3, <2>4, <2>5
  <2>7. t[i].value = hex_to_byte_array(P[i])
    BY ONLY <2>4, <2>5, <2>6
  <2>8. PICK d : d = P[i]
    OBVIOUS
  <2>9. d \in Seq(Digit)
    BY <1>1, <1>2, <2>8
  <2>10. Len(d) % 2 = 0
    <3>1. Len(d) \in Nat /\ Len(d) % 2 # 1
      BY <2>1, <2>8, <2>9, LenIs
    <3> QED  BY ONLY <3>1
  <2>11. byte_array_to_hex(hex_to_byte_array(d)) = d
    BY ONLY <2>9, <2>10, DigitsExact
  <2> QED  BY ONLY <2>7, <2>8, <2>11
<1> QED  BY ONLY <1>1, <1>2, <1>8, <1>9

-----------------------------------------------------------------------------
(* The specification *)

(* What an operation leaves: the result is what its decoder makes of what  *)
(* the table is coded as.                                                  *)
Decodes ==
    \/ op = "none" /\ result = Failed("none")
    \/ op = "tableScan" /\ result = split(tableScan(table))
    \/ op \in {"get", "put"} /\ result = Decoded(Rows(table))
    \/ op = "put_batch" /\ result = DecodedBatch(put_batch_data(table))

IInv == table \in Tables /\ Decodes

(* get and put of all rows.                                                *)
LEMMA GetDecodes ==
    ASSUME NEW t \in Tables
    PROVE  {[r EXCEPT !.value = DecodedGet(Answer(@))] : r \in Rows(t)} = Rows(t)
<1>1. ASSUME NEW r \in Rows(t) PROVE [r EXCEPT !.value = DecodedGet(Answer(@))] = r
  <2>1. GoodRow(r)
    BY RowsOfTable
  <2>2. DecodedGet(Answer(r.value)) = r.value
    BY <2>1, GetExact
  <2>3. r \in [key : Seq(0..255), value : Seq(0..255)]
    BY <2>1 DEF GoodRow
  <2> QED  BY <2>2, <2>3
<1> QED  BY <1>1

LEMMA PutDecodes ==
    ASSUME NEW t \in Tables
    PROVE  /\ ~ \E r \in Rows(t) : PutReverts(put_data(r))
           /\ {DecodedPut(put_data(r)) : r \in Rows(t)} = Rows(t)
<1>1. ASSUME NEW r \in Rows(t) PROVE ~PutReverts(put_data(r)) /\ DecodedPut(put_data(r)) = r
  <2>1. GoodRow(r)
    BY RowsOfTable
  <2> QED  BY <2>1, PutExact
<1>2. \A r \in Rows(t) : ~PutReverts(put_data(r))
  BY <1>1
<1>3. {DecodedPut(put_data(r)) : r \in Rows(t)} = Rows(t)
  BY <1>1
<1> QED  BY <1>2, <1>3

LEMMA IInvInit == Init => IInv
BY DEF Init, IInv, Decodes

LEMMA IInvNext == IInv /\ [Next]_vars => IInv'
<1> SUFFICES ASSUME IInv, [Next]_vars PROVE IInv'
  OBVIOUS
<1>1. table \in Tables /\ Decodes
  BY DEF IInv
<1>2. CASE get_all
  BY <1>1, <1>2 DEF get_all, IInv, Decodes
<1>3. CASE get
  <2>1. result' = Decoded(Rows(table))
    BY <1>1, <1>3, GetDecodes DEF get
  <2> QED  BY <1>1, <1>3, <2>1 DEF get, IInv, Decodes
<1>4. CASE put
  <2>1. result' = Decoded(Rows(table))
    BY <1>1, <1>4, PutDecodes DEF put
  <2> QED  BY <1>1, <1>4, <2>1 DEF put, IInv, Decodes
<1>5. CASE put_batch
  BY <1>1, <1>5 DEF put_batch, IInv, Decodes
<1>6. CASE UNCHANGED vars
  BY <1>1, <1>6 DEF vars, IInv, Decodes
<1> QED  BY <1>2, <1>3, <1>4, <1>5, <1>6 DEF Next

LEMMA Invariance == Spec => []IInv
BY IInvInit, IInvNext, PTL DEF Spec

(* A value that put writes and a value that get reads, of any bytes and    *)
(* any length whose number fits a word, is the same on both sides.         *)
THEOREM OneRow == Spec => []OneRowExact
<1>1. IInv => OneRowExact
  BY DEF IInv, Decodes, OneRowExact
<1> QED  BY <1>1, Invariance, PTL

(* put_batch writes its rows when no value is longer than a word: at any   *)
(* word size and any values, the offsets it codes are the ones where the   *)
(* contract looks.                                                         *)
THEOREM ShortBatch == Spec => []ShortBatchExact
<1>1. IInv => ShortBatchExact
  BY BatchExact DEF IInv, Decodes, ShortBatchExact
<1> QED  BY <1>1, Invariance, PTL

(* split finds a piece for every key, whatever the values hold: the token  *)
(* behind every value is found, or one that starts before it.              *)
THEOREM KeysKept == Spec => []ScanKeepsKeys
<1>1. IInv => ScanKeepsKeys
  <2>1. ASSUME IInv, op = "tableScan"
        PROVE  \/ result.is = "runtime_error"
               \/ /\ result.is = "rows"
                  /\ {r.key : r \in result.rows} = {r.key : r \in Rows(table)}
    <3>1. table \in Tables /\ result = split(tableScan(table))
      BY <2>1 DEF IInv, Decodes
    <3>2. CASE result = Failed("runtime_error")
      BY <3>2 DEF Failed
    <3>3. ASSUME NEW rows, result = Decoded(rows),
                 {r.key : r \in rows} = {r.key : r \in Rows(table)}
          PROVE  result.is = "rows" /\ {r.key : r \in result.rows} = {r.key : r \in Rows(table)}
      <4>1. result.is = "rows" /\ result.rows = rows
        BY <3>3 DEF Decoded
      <4> QED  BY <3>3, <4>1
    <3> QED  BY <3>1, <3>2, <3>3, ScanKeeps
  <2> QED  BY <2>1 DEF ScanKeepsKeys
<1> QED  BY <1>1, Invariance, PTL

(* A scan gives back the table exactly when no value hides the token that  *)
(* the contract puts behind it.                                            *)
THEOREM ScanExactness == Spec => []ScanExactlyIfClean
<1>1. IInv => ScanExactlyIfClean
  <2>1. ASSUME IInv, op = "tableScan"
        PROVE  result = Decoded(Rows(table)) <=> \A r \in Rows(table) : Clean(r.value)
    <3>1. table \in Tables /\ result = split(tableScan(table))
      BY <2>1 DEF IInv, Decodes
    <3> QED  BY <3>1, ScanExact
  <2> QED  BY <2>1 DEF ScanExactlyIfClean
<1> QED  BY <1>1, Invariance, PTL

(* Every operation ends in rows of whole keys and values of bytes, or in   *)
(* one of the exceptions.                                                  *)
THEOREM TypeCorrect == Spec => []TypeOK
<1> DEFINE Typed(res) == /\ res.is \in {"none", "rows", "out_of_range", "runtime_error", "revert"}
                         /\ \A r \in res.rows : Len(r.key) = WB /\ r.value \in Seq(0..255)
<1>1. \A e \in {"none", "runtime_error", "revert"} : Typed(Failed(e))
  BY DEF Failed
<1>2. ASSUME NEW rows, \A r \in rows : Len(r.key) = WB /\ r.value \in Seq(0..255)
      PROVE  Typed(Decoded(rows))
  BY <1>2 DEF Decoded
<1> HIDE DEF Typed
<1>3. ASSUME IInv PROVE TypeOK
  <2>1. table \in Tables /\ op \in {"none", "tableScan", "get", "put", "put_batch"}
    BY <1>3 DEF IInv, Decodes
  <2>2. ASSUME op = "none" /\ result = Failed("none") PROVE Typed(result)
    BY <1>1, <2>2
  <2>3. ASSUME result = split(tableScan(table)) PROVE Typed(result)
    BY <1>1, <1>2, <2>1, <2>3, ScanKeeps
  <2>4. ASSUME result = Decoded(Rows(table)) PROVE Typed(result)
    <3>1. \A r \in Rows(table) : Len(r.key) = WB /\ r.value \in Seq(0..255)
      BY <2>1, RowsOfTable DEF GoodRow
    <3> QED  BY <1>2, <2>4, <3>1
  <2>5. ASSUME result = DecodedBatch(put_batch_data(table)) PROVE Typed(result)
    BY <1>1, <1>2, <2>1, <2>5, BatchTyped
  <2>6. Typed(result)
    BY <1>3, <2>2, <2>3, <2>4, <2>5 DEF IInv, Decodes
  <2> QED  BY <2>1, <2>6 DEF TypeOK, Typed
<1> QED  BY <1>3, Invariance, PTL

=============================================================================
