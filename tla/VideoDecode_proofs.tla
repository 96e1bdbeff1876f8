------------------------- MODULE VideoDecode_proofs -------------------------
(***************************************************************************)
(* What the decoders compute and what they may do to the framebuffer, for  *)
(* every framebuffer, palette, size of block, Huffman table and stream of  *)
(* frames.                                                                 *)
(*                                                                         *)
(* The operators of the decoders are recursive functions, least and        *)
(* greatest elements, so the module first has induction and recursion over *)
(* the natural numbers, from the fact that they are well ordered.  Then it *)
(* follows the code: the bit reader, the Huffman tables (TableSearch), the *)
(* run-length decoders (RawType), the tile decoder (TileStep), and the     *)
(* invariant they keep together (IInv).                                    *)
(***************************************************************************)
EXTENDS VideoDecode, WellFoundedInduction, TLAPS

---------------------------------------------------------------------------
(* Numbers.  The natural numbers are well ordered, and that is the form in  *)
(* which induction is used here: the least counterexample is refuted.       *)

\* A set of natural numbers has a least element.
LEMMA NatMin == ASSUME NEW T, T \subseteq Nat, T # {} PROVE \E x \in T : \A y \in T : x <= y
<1> DEFINE R == OpToRel(<, Nat)
<1>1. \E x \in T : \A y \in T : ~ (<<y, x>> \in R)
    BY WFMin, NatLessThanWellFounded
<1>2. \A x, y \in Nat : <<y, x>> \in R <=> y < x
    BY DEF OpToRel
<1> HIDE DEF R
<1>3. PICK x \in T : \A y \in T : ~(<<y, x>> \in R)
    BY <1>1
<1>4. ASSUME NEW y \in T PROVE x <= y
  <2>1. ~(<<y, x>> \in R) /\ x \in Nat /\ y \in Nat
      BY <1>3
  <2>2. ~(y < x)
      BY <2>1, <1>2, Zenon
  <2> QED
      BY <2>1, <2>2
<1> QED
    BY <1>4

\* Induction over all natural numbers.
LEMMA Induct == ASSUME NEW S, 0 \in S, \A n \in Nat : n \in S => n + 1 \in S
                PROVE  \A n \in Nat : n \in S
<1> DEFINE Bad == {n \in Nat : n \notin S}
<1> SUFFICES ASSUME Bad # {} PROVE FALSE
    OBVIOUS
<1>1. PICK n \in Bad : \A y \in Bad : n <= y
    BY NatMin
<1>2. n - 1 \in Nat
    OBVIOUS
<1>3. n - 1 \in S
    BY <1>1, <1>2
<1> QED
    BY <1>2, <1>3

\* Induction up to m.
LEMMA InductUpto == ASSUME NEW m \in Nat, NEW S, 0 \in S, \A n \in 0..(m - 1) : n \in S => n + 1 \in S
                    PROVE  \A n \in 0..m : n \in S
<1> DEFINE R == {n \in Nat : n \in 0..m => n \in S}
<1>1. 0 \in R
    OBVIOUS
<1>2. ASSUME NEW n \in Nat, n \in R PROVE n + 1 \in R
    BY <1>2
<1> HIDE DEF R
<1>3. \A n \in Nat : n \in R
    BY <1>1, <1>2, Induct
<1> QED
    BY <1>3 DEF R

\* A function that does not fall from one number to the next does not fall.
LEMMA Grows ==
    ASSUME NEW n \in Nat, NEW f \in [0..n -> Nat], \A l \in 1..n : f[l - 1] <= f[l],
           NEW i \in 0..n, NEW j \in i..n
    PROVE  f[i] <= f[j]
<1> DEFINE G == {m \in Nat : i + m \in 0..n => f[i] <= f[i + m]}
<1>1. 0 \in G
    OBVIOUS
<1>2. ASSUME NEW m \in Nat, m \in G, i + (m + 1) \in 0..n PROVE f[i] <= f[i + (m + 1)]
  <2>1. i + (m + 1) \in 1..n /\ (i + (m + 1)) - 1 = i + m /\ i + m \in 0..n
      BY <1>2
  <2>2. f[i + m] <= f[i + (m + 1)] /\ f[i + m] \in Nat /\ f[i + (m + 1)] \in Nat /\ f[i] \in Nat
      BY <2>1
  <2> QED
      BY <1>2, <2>1, <2>2
<1>3. \A m \in Nat : m \in G => m + 1 \in G
    BY <1>2
<1>4. j - i \in Nat /\ i + (j - i) = j /\ j \in 0..n
    OBVIOUS
<1>5. j - i \in G
  <2> HIDE DEF G
  <2> QED
      BY <1>1, <1>3, <1>4, Induct
<1> QED
    BY <1>4, <1>5

\* What Min and Max of the community modules choose.
LEMMA MinOf == ASSUME NEW T, T \subseteq Nat, T # {}
               PROVE  Min(T) \in T /\ \A y \in T : Min(T) <= y
    BY NatMin DEF Min

\* A bounded set of natural numbers that is not empty has a greatest element.
LEMMA MaxOf == ASSUME NEW n \in Nat, NEW T, T \subseteq 0..n, T # {}
               PROVE  Max(T) \in T /\ \A y \in T : y <= Max(T)
<1> DEFINE D == {n - y : y \in T}
<1>1. D \subseteq Nat
  <2>1. \A y \in T : y \in 0..n
      OBVIOUS
  <2> QED
      BY <2>1
<1>2. PICK d \in D : \A y \in D : d <= y
  <2>1. D # {}
      OBVIOUS
  <2> QED
      BY <1>1, <2>1, NatMin
<1>3. PICK x \in T : d = n - x
    BY <1>2
<1>4. ASSUME NEW y \in T PROVE x >= y
  <2>1. n - y \in D
      OBVIOUS
  <2>2. d <= n - y
      BY <1>2, <2>1
  <2>3. x \in Nat /\ y \in Nat
      OBVIOUS
  <2> QED
      BY <1>3, <2>2, <2>3
<1>5. Max(T) \in T /\ \A y \in T : Max(T) >= y
    BY <1>3, <1>4 DEF Max
<1> QED
  <2>1. \A y \in T : y \in Int
      OBVIOUS
  <2> QED
      BY <1>5, <2>1

\* Differences.
LEMMA Minus == ASSUME NEW m \in Nat, NEW a \in Nat, NEW b \in Nat
               PROVE  m - b < m + 1 /\ (b > a => m - b < m - a)
    OBVIOUS

\* Products.
LEMMA Times == ASSUME NEW a \in Nat, NEW b \in Nat
               PROVE  a * b \in Nat /\ a * (2 * b) = 2 * (a * b) /\ (a + 1) * b = a * b + b
    OBVIOUS

\* Products grow with their factors.
LEMMA TimesLess == ASSUME NEW a \in Nat, NEW b \in Nat, NEW c \in Nat, a <= b
                   PROVE  a * c <= b * c
    OBVIOUS

\* Division by a positive number.
LEMMA DivMod ==
    ASSUME NEW a \in Nat, NEW b \in Nat \ {0}
    PROVE  /\ a \div b \in Nat /\ a % b \in 0..(b - 1)
           /\ a = b * (a \div b) + (a % b)
    OBVIOUS

\* Quotient and remainder of a number that is given by them.
LEMMA DivModIs ==
    ASSUME NEW b \in Nat \ {0}, NEW c \in Nat, NEW d \in 0..(b - 1)
    PROVE  (c * b + d) \div b = c /\ (c * b + d) % b = d
    OBVIOUS

---------------------------------------------------------------------------
(* Recursion.  A recursive function is what its equation says only if some  *)
(* function satisfies the equation.                                         *)

\* g satisfies the equation up to n: b at 0, and st[i] of the value before at i.
Upto(g, n, b, st, T) ==
    g \in [0..n -> T] /\ g[0] = b /\ \A i \in 1..n : g[i] = st[i][g[i - 1]]

\* Such a function exists for every n ...
LEMMA UptoExists ==
    ASSUME NEW T, NEW b \in T, NEW st \in [Nat -> [T -> T]], NEW m \in Nat
    PROVE  \E g : Upto(g, m, b, st, T)
<1> DEFINE Bad == {n \in Nat : ~ \E g : Upto(g, n, b, st, T)}
<1> SUFFICES ASSUME Bad # {} PROVE FALSE
    OBVIOUS
<1>1. Bad \subseteq Nat
    OBVIOUS
<1>2. PICK n \in Bad : \A y \in Bad : n <= y
    BY NatMin, <1>1
<1>3. n # 0
  <2>1. Upto([i \in 0..0 |-> b], 0, b, st, T)
      BY DEF Upto
  <2> QED
      BY <2>1
<1>4. n - 1 \in Nat /\ n - 1 \notin Bad
  <2> HIDE DEF Bad
  <2> QED
      BY <1>1, <1>2, <1>3
<1>5. PICK g : Upto(g, n - 1, b, st, T)
    BY <1>4
<1> DEFINE h == [i \in 0..n |-> IF i = n THEN st[n][g[n - 1]] ELSE g[i]]
<1>6. h \in [0..n -> T]
    BY <1>4, <1>5 DEF Upto
<1>7. h[0] = b
    BY <1>3, <1>4, <1>5 DEF Upto
<1>8. ASSUME NEW i \in 1..n PROVE h[i] = st[i][h[i - 1]]
    BY <1>4, <1>5 DEF Upto
<1>9. Upto(h, n, b, st, T)
    BY <1>6, <1>7, <1>8 DEF Upto
<1> QED
    BY <1>9

\* ... and two of them agree as far as both go.
LEMMA UptoUnique ==
    ASSUME NEW T, NEW b \in T, NEW st \in [Nat -> [T -> T]], NEW m \in Nat, NEW n \in Nat, m <= n,
           NEW g, NEW h, Upto(g, m, b, st, T), Upto(h, n, b, st, T), NEW j \in 0..m
    PROVE  g[j] = h[j]
<1> DEFINE Bad == {i \in 0..m : g[i] # h[i]}
<1> SUFFICES ASSUME Bad # {} PROVE FALSE
    OBVIOUS
<1>1. Bad \subseteq Nat
    OBVIOUS
<1>2. PICK i \in Bad : \A y \in Bad : i <= y
    BY NatMin, <1>1
<1>3. i # 0
    BY DEF Upto
<1>4. i - 1 \in 0..m /\ i - 1 \notin Bad
    BY <1>2, <1>3
<1>5. i \in 1..m /\ i \in 1..n
    BY <1>3
<1>6. g[i] = st[i][g[i - 1]] /\ h[i] = st[i][h[i - 1]]
    BY <1>5 DEF Upto
<1> QED
    BY <1>4, <1>6

\* The same for all natural numbers.
Recurs(f, b, st, T) ==
    f \in [Nat -> T] /\ f[0] = b /\ \A n \in Nat : n # 0 => f[n] = st[n][f[n - 1]]

\* So some function satisfies the equation on all of Nat.
LEMMA RecursExists ==
    ASSUME NEW T, NEW b \in T, NEW st \in [Nat -> [T -> T]]
    PROVE  \E f : Recurs(f, b, st, T)
<1>1. \A n \in Nat : \E g : Upto(g, n, b, st, T)
    BY UptoExists
<1> DEFINE G == [n \in Nat |-> CHOOSE g : Upto(g, n, b, st, T)]
<1>2. \A n \in Nat : Upto(G[n], n, b, st, T)
    BY <1>1
<1> HIDE DEF G
<1> DEFINE f == [n \in Nat |-> G[n][n]]
<1>3. f \in [Nat -> T] /\ f[0] = b
    BY <1>2 DEF Upto
<1>4. ASSUME NEW n \in Nat, n # 0 PROVE f[n] = st[n][f[n - 1]]
  <2>1. n - 1 \in Nat /\ n - 1 <= n /\ n - 1 \in 0..(n - 1) /\ n \in 1..n
      BY <1>4
  <2>2. Upto(G[n], n, b, st, T) /\ Upto(G[n - 1], n - 1, b, st, T)
      BY <1>2, <2>1
  <2>3. G[n - 1][n - 1] = G[n][n - 1]
      BY <2>1, <2>2, UptoUnique
  <2>4. G[n][n] = st[n][G[n][n - 1]]
      BY <2>1, <2>2 DEF Upto
  <2> QED
      BY <2>1, <2>3, <2>4
<1>5. Recurs(f, b, st, T)
    BY <1>3, <1>4 DEF Recurs
<1> QED
    BY <1>5

---------------------------------------------------------------------------
(* The numbers of the bit reader *)

\* The powers of two, by their recursion.
LEMMA Pow2 ==
    /\ pow2 \in [Nat -> Nat \ {0}]
    /\ pow2[0] = 1
    /\ \A n \in Nat : pow2[n + 1] = 2 * pow2[n]
<1> DEFINE st == [n \in Nat |-> [x \in Nat \ {0} |-> 2 * x]]
<1>1. PICK f : Recurs(f, 1, st, Nat \ {0})
  <2>1. st \in [Nat -> [Nat \ {0} -> Nat \ {0}]] /\ 1 \in Nat \ {0}
      OBVIOUS
  <2> HIDE DEF st
  <2> QED
      BY RecursExists, <2>1
<1>2. ASSUME NEW n \in Nat PROVE f[n] = IF n = 0 THEN 1 ELSE 2 * f[n - 1]
  <2>1. CASE n = 0
      BY <1>1, <2>1 DEF Recurs
  <2>2. CASE n # 0
    <3>1. f[n] = st[n][f[n - 1]] /\ n - 1 \in Nat
        BY <1>1, <2>2 DEF Recurs
    <3>2. f[n - 1] \in Nat \ {0}
        BY <1>1, <3>1 DEF Recurs
    <3> QED
        BY <2>2, <3>1, <3>2
  <2> QED
      BY <2>1, <2>2
<1>3. f = [n \in Nat |-> IF n = 0 THEN 1 ELSE 2 * f[n - 1]]
    BY <1>1, <1>2 DEF Recurs
<1>4. pow2 = [n \in Nat |-> IF n = 0 THEN 1 ELSE 2 * pow2[n - 1]]
    BY <1>3 DEF pow2
<1>5. pow2[0] = 1 /\ \A n \in Nat : pow2[n + 1] = 2 * pow2[n]
    BY <1>4
<1> DEFINE Bad == {n \in Nat : pow2[n] \notin Nat \ {0}}
<1>6. Bad = {}
  <2> SUFFICES ASSUME Bad # {} PROVE FALSE
      OBVIOUS
  <2>1. PICK n \in Bad : \A y \in Bad : n <= y
      BY NatMin
  <2>2. n # 0
      BY <1>5
  <2>3. n - 1 \in Nat /\ n - 1 \notin Bad
      BY <2>1, <2>2
  <2>4. pow2[n] = 2 * pow2[n - 1]
      BY <2>3, <1>4, <2>2
  <2> QED
      BY <2>3, <2>4
<1> QED
    BY <1>4, <1>5, <1>6

\* A bit is a bit, beyond the end too.
LEMMA BitAt == ASSUME NEW s \in Seq({0, 1}), NEW i \in Nat \ {0} PROVE bitAt(s, i) \in {0, 1}
    BY DEF bitAt

\* peekBits, one bit at a time.
LEMMA PeekBits ==
    ASSUME NEW s \in Seq({0, 1})
    PROVE  /\ peekBits(s, 0) = 0
           /\ \A n \in Nat : peekBits(s, n) \in Nat
           /\ \A n \in Nat : peekBits(s, n + 1) = 2 * peekBits(s, n) + bitAt(s, n + 1)
<1> DEFINE st == [n \in Nat |-> [x \in Nat |-> 2 * x + (IF n = 0 THEN 0 ELSE bitAt(s, n))]]
           v == CHOOSE v : v = [i \in Nat |-> IF i = 0 THEN 0 ELSE 2 * v[i - 1] + bitAt(s, i)]
<1>1. PICK f : Recurs(f, 0, st, Nat)
  <2>1. st \in [Nat -> [Nat -> Nat]] /\ 0 \in Nat
      BY BitAt
  <2> HIDE DEF st
  <2> QED
      BY RecursExists, <2>1
<1>2. ASSUME NEW n \in Nat PROVE f[n] = IF n = 0 THEN 0 ELSE 2 * f[n - 1] + bitAt(s, n)
  <2>1. CASE n = 0
      BY <1>1, <2>1 DEF Recurs
  <2>2. CASE n # 0
    <3>1. f[n] = st[n][f[n - 1]]
      <4> HIDE DEF st
      <4> QED
          BY <1>1, <2>2, Zenon DEF Recurs
    <3>2. f[n - 1] \in Nat
      <4>1. n - 1 \in Nat
          BY <2>2
      <4> HIDE DEF st
      <4> QED
          BY <1>1, <4>1 DEF Recurs
    <3> QED
        BY <2>2, <3>1, <3>2
  <2> QED
      BY <2>1, <2>2
<1>3. f = [n \in Nat |-> IF n = 0 THEN 0 ELSE 2 * f[n - 1] + bitAt(s, n)]
    BY <1>1, <1>2 DEF Recurs
<1>4. v = [n \in Nat |-> IF n = 0 THEN 0 ELSE 2 * v[n - 1] + bitAt(s, n)]
    BY <1>3
<1>5. \A n \in Nat : peekBits(s, n) = v[n]
    BY DEF peekBits
<1> HIDE DEF v
<1>6. v[0] = 0 /\ \A n \in Nat : v[n + 1] = 2 * v[n] + bitAt(s, n + 1)
    BY <1>4
<1> DEFINE Bad == {n \in Nat : v[n] \notin Nat}
<1>7. Bad = {}
  <2> SUFFICES ASSUME Bad # {} PROVE FALSE
      OBVIOUS
  <2>1. PICK n \in Bad : \A y \in Bad : n <= y
      BY NatMin
  <2>2. n # 0
      BY <1>6
  <2>3. n - 1 \in Nat /\ n - 1 \notin Bad
      BY <2>1, <2>2
  <2>4. v[n] = 2 * v[n - 1] + bitAt(s, n) /\ bitAt(s, n) \in {0, 1}
      BY <2>2, <1>4, BitAt
  <2> QED
      BY <2>3, <2>4
<1>8. \A n \in Nat : v[n] \in Nat
    BY <1>7
<1>9. peekBits(s, 0) = 0
    BY <1>5, <1>6
<1>10. \A n \in Nat : peekBits(s, n) \in Nat
    BY <1>5, <1>8
<1>11. ASSUME NEW n \in Nat PROVE peekBits(s, n + 1) = 2 * peekBits(s, n) + bitAt(s, n + 1)
  <2>1. n + 1 \in Nat
      OBVIOUS
  <2>2. peekBits(s, n + 1) = v[n + 1] /\ peekBits(s, n) = v[n]
      BY <1>5, <2>1
  <2> QED
      BY <1>6, <2>2
<1> QED
    BY <1>9, <1>10, <1>11

\* The first n bits are the high bits of the first n + m.
LEMMA PeekMore ==
    ASSUME NEW s \in Seq({0, 1}), NEW n \in Nat, NEW m \in Nat
    PROVE  peekBits(s, n + m) - peekBits(s, n) * pow2[m] \in 0..(pow2[m] - 1)
<1> DEFINE Bad == {i \in Nat : peekBits(s, n + i) - peekBits(s, n) * pow2[i] \notin 0..(pow2[i] - 1)}
<1> SUFFICES ASSUME Bad # {} PROVE FALSE
    OBVIOUS
<1>1. PICK i \in Bad : \A y \in Bad : i <= y
    BY NatMin
<1>2. \A j \in Nat : peekBits(s, j) \in Nat /\ pow2[j] \in Nat \ {0}
    BY PeekBits, Pow2
<1>3. i # 0
  <2>1. n + 0 = n
      OBVIOUS
  <2>2. pow2[0] = 1
      BY Pow2
  <2>3. peekBits(s, n + 0) - peekBits(s, n) * pow2[0] = 0
      BY <1>2, <2>1, <2>2
  <2> QED
      BY <1>1, <2>2, <2>3
<1> DEFINE j == i - 1
<1>4. j \in Nat /\ j \notin Bad /\ i = j + 1
    BY <1>1, <1>3
<1> HIDE DEF j
<1>5. peekBits(s, n + i) = 2 * peekBits(s, n + j) + bitAt(s, n + i) /\ pow2[i] = 2 * pow2[j]
  <2>1. n + i = (n + j) + 1 /\ n + j \in Nat
      BY <1>4
  <2> QED
      BY <2>1, <1>4, PeekBits, Pow2
<1>6. bitAt(s, n + i) \in {0, 1}
    BY <1>3, BitAt
<1> DEFINE a == peekBits(s, n + j)
           c == peekBits(s, n)
           p == pow2[j]
<1>7. a - c * p \in 0..(p - 1) /\ a \in Nat /\ c \in Nat /\ p \in Nat \ {0} /\ c * p \in Nat
  <2>1. n + j \in Nat
      BY <1>4
  <2>2. a \in Nat /\ c \in Nat /\ p \in Nat \ {0}
      BY <1>2, <1>4, <2>1
  <2>3. c * p \in Nat
      BY <2>2, Times
  <2> QED
      BY <1>4, <2>2, <2>3
<1>8. peekBits(s, n) * pow2[i] = 2 * (c * p)
  <2>1. pow2[i] = 2 * p /\ c \in Nat /\ p \in Nat
      BY <1>5, <1>7
  <2> HIDE DEF c, p
  <2>2. c * pow2[i] = 2 * (c * p)
      BY <2>1, Times
  <2> QED
      BY <2>2 DEF c
<1> HIDE DEF a, c, p
<1>9. peekBits(s, n + i) = 2 * a + bitAt(s, n + i) /\ pow2[i] = 2 * p
    BY <1>5 DEF a, p
<1>10. (2 * a + bitAt(s, n + i)) - 2 * (c * p) \in 0..(2 * p - 1)
    BY <1>6, <1>7
<1> QED
    BY <1>8, <1>9, <1>10

---------------------------------------------------------------------------
(* The Huffman tables *)

\* newAvoHuff's vi, one length at a time.
LEMMA SymbolsUpTo ==
    ASSUME NEW bits \in Seq(Nat)
    PROVE  /\ symbolsUpTo(bits) \in [0..Len(bits) -> Nat]
           /\ symbolsUpTo(bits)[0] = 0
           /\ \A l \in 1..Len(bits) : symbolsUpTo(bits)[l] = symbolsUpTo(bits)[l - 1] + bits[l]
<1> DEFINE N == Len(bits)
           st == [n \in Nat |-> [x \in Nat |-> IF n \in 1..N THEN x + bits[n] ELSE 0]]
           vi == CHOOSE vi : vi = [l \in 0..N |-> IF l = 0 THEN 0 ELSE vi[l - 1] + bits[l]]
<1>1. N \in Nat /\ \A l \in 1..N : bits[l] \in Nat
    OBVIOUS
<1> HIDE DEF N
<1>2. PICK g : Upto(g, N, 0, st, Nat)
  <2>1. st \in [Nat -> [Nat -> Nat]] /\ 0 \in Nat
      BY <1>1
  <2> HIDE DEF st
  <2> QED
      BY <1>1, <2>1, UptoExists
<1>3. ASSUME NEW l \in 0..N PROVE g[l] = IF l = 0 THEN 0 ELSE g[l - 1] + bits[l]
  <2>1. CASE l = 0
      BY <1>2, <2>1 DEF Upto
  <2>2. CASE l # 0
    <3>1. l \in 1..N /\ l - 1 \in 0..N
        BY <1>1, <2>2
    <3>2. g[l] = st[l][g[l - 1]] /\ g[l - 1] \in Nat
      <4> HIDE DEF st
      <4> QED
          BY <1>2, <3>1 DEF Upto
    <3>3. ASSUME NEW x \in Nat PROVE st[l][x] = x + bits[l]
      <4>1. l \in Nat
          BY <1>1
      <4> QED
          BY <3>1, <4>1
    <3> HIDE DEF st
    <3> QED
        BY <2>2, <3>2, <3>3
  <2> QED
      BY <2>1, <2>2
<1>4. g = [l \in 0..N |-> IF l = 0 THEN 0 ELSE g[l - 1] + bits[l]]
    BY <1>2, <1>3 DEF Upto
<1>5. vi = [l \in 0..N |-> IF l = 0 THEN 0 ELSE vi[l - 1] + bits[l]]
    BY <1>4
<1>6. symbolsUpTo(bits) = vi
    BY DEF symbolsUpTo, N
<1> HIDE DEF vi
<1>7. vi[0] = 0 /\ \A l \in 1..N : vi[l] = vi[l - 1] + bits[l]
    BY <1>1, <1>5
<1> DEFINE S == {l \in 0..N : vi[l] \in Nat}
<1>8. \A l \in 0..N : l \in S
  <2>1. 0 \in S
      BY <1>1, <1>7
  <2>2. ASSUME NEW n \in 0..(N - 1), n \in S PROVE n + 1 \in S
    <3>1. n + 1 \in 1..N /\ (n + 1) - 1 = n
        BY <1>1
    <3>2. vi[n + 1] = vi[n] + bits[n + 1] /\ bits[n + 1] \in Nat
        BY <1>1, <1>7, <3>1
    <3> QED
        BY <2>2, <3>1, <3>2
  <2> HIDE DEF S
  <2> QED
      BY <1>1, <2>1, <2>2, InductUpto
<1>9. vi \in [0..N -> Nat]
    BY <1>5, <1>8
<1> QED
    BY <1>6, <1>7, <1>9 DEF N

\* newAvoHuff's code, one length at a time.
LEMMA NewAvoHuff ==
    ASSUME NEW bits \in Seq(Nat)
    PROVE  /\ newAvoHuff(bits) \in [1..Len(bits) -> Nat]
           /\ bits # <<>> => newAvoHuff(bits)[1] = 0
           /\ \A l \in 1..(Len(bits) - 1) :
                newAvoHuff(bits)[l + 1] = 2 * (newAvoHuff(bits)[l] + bits[l])
<1> DEFINE N == Len(bits)
           st == [n \in Nat |-> [x \in Nat |-> IF n \in 1..N THEN 2 * (x + bits[n]) ELSE 0]]
           code == CHOOSE code : code = [l \in 1..N |-> IF l = 1 THEN 0 ELSE 2 * (code[l - 1] + bits[l - 1])]
<1>1. N \in Nat /\ \A l \in 1..N : bits[l] \in Nat
    OBVIOUS
<1>2. bits # <<>> => N # 0
    OBVIOUS
<1> HIDE DEF N
<1>3. PICK g : Upto(g, N, 0, st, Nat)
  <2>1. st \in [Nat -> [Nat -> Nat]] /\ 0 \in Nat
      BY <1>1
  <2> HIDE DEF st
  <2> QED
      BY <1>1, <2>1, UptoExists
<1> DEFINE f == [l \in 1..N |-> g[l - 1]]
<1>4. ASSUME NEW l \in 1..N PROVE f[l] = IF l = 1 THEN 0 ELSE 2 * (f[l - 1] + bits[l - 1])
  <2>1. CASE l = 1
      BY <1>3, <2>1 DEF Upto
  <2>2. CASE l # 1
    <3>1. l - 1 \in 1..N /\ (l - 1) - 1 \in 0..N
        BY <1>1, <2>2
    <3>2. g[l - 1] = st[l - 1][g[(l - 1) - 1]] /\ g[(l - 1) - 1] \in Nat
      <4> HIDE DEF st
      <4> QED
          BY <1>3, <3>1 DEF Upto
    <3>3. st[l - 1][g[(l - 1) - 1]] = 2 * (g[(l - 1) - 1] + bits[l - 1])
        BY <3>1, <3>2
    <3> QED
        BY <2>2, <3>1, <3>2, <3>3
  <2> QED
      BY <2>1, <2>2
<1>5. f = [l \in 1..N |-> IF l = 1 THEN 0 ELSE 2 * (f[l - 1] + bits[l - 1])]
    BY <1>4
<1>6. code = [l \in 1..N |-> IF l = 1 THEN 0 ELSE 2 * (code[l - 1] + bits[l - 1])]
  <2> HIDE DEF f
  <2> QED
      BY <1>5
<1>7. newAvoHuff(bits) = code
    BY DEF newAvoHuff, N
<1> HIDE DEF code
<1>8. N # 0 => code[1] = 0
    BY <1>1, <1>6
<1>9. ASSUME NEW l \in 1..(N - 1) PROVE code[l + 1] = 2 * (code[l] + bits[l])
  <2>1. l + 1 \in 1..N /\ l + 1 # 1 /\ (l + 1) - 1 = l
      BY <1>1
  <2> QED
      BY <1>6, <2>1
<1> DEFINE S == {l \in Nat : l \in 1..N => code[l] \in Nat}
<1>10. \A l \in Nat : l \in S
  <2>1. 0 \in S
      OBVIOUS
  <2>2. ASSUME NEW n \in Nat, n \in S PROVE n + 1 \in S
    <3>1. CASE n = 0
        BY <1>1, <1>8, <3>1
    <3>2. CASE n # 0 /\ n + 1 \in 1..N
      <4>1. n \in 1..(N - 1) /\ n \in 1..N
          BY <1>1, <3>2
      <4>2. code[n + 1] = 2 * (code[n] + bits[n]) /\ code[n] \in Nat /\ bits[n] \in Nat
          BY <1>1, <1>9, <2>2, <4>1
      <4> QED
          BY <4>2
    <3> QED
        BY <3>1, <3>2
  <2> HIDE DEF S
  <2> QED
      BY <2>1, <2>2, Induct
<1>11. code \in [1..N -> Nat]
    BY <1>6, <1>10
<1> QED
    BY <1>2, <1>7, <1>8, <1>9, <1>11 DEF N

\* What a table is made of.
LEMMA TableIs ==
    ASSUME NEW S, NEW tab \in Table(S)
    PROVE  /\ tab.bits \in Seq(Nat) /\ Len(tab.bits) \in Nat
           /\ tab.vals \in Seq(S) /\ Len(tab.vals) \in Nat
           /\ symbolsUpTo(tab.bits)[Len(tab.bits)] = Len(tab.vals)
    BY DEF Table

\* Longer codes only add symbols.
LEMMA SymbolsGrow ==
    ASSUME NEW bits \in Seq(Nat), NEW i \in 0..Len(bits), NEW j \in i..Len(bits)
    PROVE  symbolsUpTo(bits)[i] <= symbolsUpTo(bits)[j]
<1> DEFINE u == symbolsUpTo(bits)
           N == Len(bits)
<1>1. N \in Nat /\ u \in [0..N -> Nat] /\ \A l \in 1..N : u[l] = u[l - 1] + bits[l] /\ bits[l] \in Nat
    BY SymbolsUpTo
<1> HIDE DEF u, N
<1>2. ASSUME NEW l \in 1..N PROVE u[l - 1] <= u[l]
  <2>1. l - 1 \in 0..N
      BY <1>1
  <2>2. u[l - 1] \in Nat /\ bits[l] \in Nat /\ u[l] = u[l - 1] + bits[l]
      BY <1>1, <2>1
  <2> QED
      BY <2>2
<1>3. i \in 0..N /\ j \in i..N
    BY DEF N
<1> QED
    BY <1>1, <1>2, <1>3, Grows DEF u

\* A symbol has the length whose range of places it is in.
LEMMA LengthIs ==
    ASSUME NEW S, NEW tab \in Table(S), NEW v \in 1..Len(tab.vals)
    PROVE  /\ LengthOf(tab, v) \in 1..Len(tab.bits)
           /\ symbolsUpTo(tab.bits)[LengthOf(tab, v) - 1] < v
           /\ v <= symbolsUpTo(tab.bits)[LengthOf(tab, v)]
<1> DEFINE u == symbolsUpTo(tab.bits)
           L == Len(tab.bits)
           Ls == {l \in 1..L : u[l] >= v}
           m == Min(Ls)
<1>1. /\ L \in Nat /\ u \in [0..L -> Nat] /\ u[0] = 0 /\ v \in Nat /\ v > 0 /\ u[L] >= v
    BY TableIs, SymbolsUpTo
<1>2. LengthOf(tab, v) = m
    BY DEF LengthOf
<1> HIDE DEF u, L
<1>3. L \in Ls
    BY <1>1
<1>4. m \in Ls /\ \A y \in Ls : m <= y
  <2>1. Ls \subseteq Nat /\ Ls # {}
      BY <1>1, <1>3
  <2> HIDE DEF Ls
  <2> QED
      BY <2>1, MinOf
<1> HIDE DEF m
<1>5. u[m - 1] < v
  <2>1. CASE m = 1
      BY <1>1, <2>1
  <2>2. CASE m # 1
    <3>1. m - 1 \in 1..L /\ m - 1 \notin Ls
        BY <1>1, <1>4, <2>2
    <3>2. u[m - 1] \in Nat
        BY <1>1, <3>1
    <3> QED
        BY <1>1, <3>1, <3>2
  <2> QED
      BY <2>1, <2>2
<1>6. u[m] >= v /\ m \in 1..L /\ u[m] \in Nat
    BY <1>1, <1>4
<1> QED
    BY <1>1, <1>2, <1>5, <1>6 DEF u, L

\* A place in the range of a length is a symbol of that length.
LEMMA LengthOnly ==
    ASSUME NEW S, NEW tab \in Table(S), NEW l \in 1..Len(tab.bits), NEW v \in Nat,
           symbolsUpTo(tab.bits)[l - 1] < v, v <= symbolsUpTo(tab.bits)[l]
    PROVE  v \in 1..Len(tab.vals) /\ LengthOf(tab, v) = l
<1> DEFINE u == symbolsUpTo(tab.bits)
           L == Len(tab.bits)
           m == LengthOf(tab, v)
<1>1. L \in Nat /\ u \in [0..L -> Nat] /\ u[L] = Len(tab.vals) /\ Len(tab.vals) \in Nat
    BY TableIs, SymbolsUpTo
<1>2. \A i \in 0..L : \A j \in i..L : u[i] <= u[j]
    BY TableIs, SymbolsGrow
<1> HIDE DEF u
<1>3. l \in 0..L /\ l - 1 \in 0..L /\ L \in l..L /\ u[l] \in Nat /\ u[l - 1] \in Nat /\ u[L] \in Nat
    BY <1>1
<1>4. v \in 1..Len(tab.vals)
  <2>1. u[l] <= u[L] /\ u[l - 1] < v /\ v <= u[l]
      BY <1>2, <1>3 DEF u
  <2> QED
      BY <1>1, <1>3, <2>1
<1>5. m \in 1..L /\ u[m - 1] < v /\ v <= u[m]
    BY <1>4, LengthIs DEF u
<1> HIDE DEF m, L
<1>6. m - 1 \in 0..L /\ m \in 0..L /\ u[m - 1] \in Nat /\ u[m] \in Nat
    BY <1>1, <1>5
<1>7. ~(m < l)
  <2> SUFFICES ASSUME m < l PROVE FALSE
      OBVIOUS
  <2>1. l - 1 \in m..L
      BY <1>1, <1>5, <1>3
  <2>2. u[m] <= u[l - 1]
      BY <1>2, <1>6, <2>1
  <2> QED
      BY <1>3, <1>5, <1>6, <2>2 DEF u
<1>8. ~(l < m)
  <2> SUFFICES ASSUME l < m PROVE FALSE
      OBVIOUS
  <2>1. m - 1 \in l..L
      BY <1>1, <1>5, <1>3
  <2>2. u[l] <= u[m - 1]
      BY <1>2, <1>3, <2>1
  <2> QED
      BY <1>3, <1>5, <1>6, <2>2 DEF u
<1>9. m = l
    BY <1>1, <1>3, <1>5, <1>7, <1>8
<1> QED
    BY <1>4, <1>9 DEF m

\* What the codes of the first v symbols take, one symbol at a time.
LEMMA TakenIs ==
    ASSUME NEW S, NEW tab \in Table(S)
    PROVE  /\ Taken(tab) \in [0..Len(tab.vals) -> Nat]
           /\ Taken(tab)[0] = 0
           /\ \A v \in 1..Len(tab.vals) :
                /\ pow2[Len(tab.bits) - LengthOf(tab, v)] \in Nat \ {0}
                /\ Taken(tab)[v] = Taken(tab)[v - 1] + pow2[Len(tab.bits) - LengthOf(tab, v)]
<1> DEFINE N == Len(tab.vals)
           w == [v \in 1..N |-> pow2[Len(tab.bits) - LengthOf(tab, v)]]
           st == [n \in Nat |-> [x \in Nat |-> IF n \in 1..N THEN x + w[n] ELSE 0]]
           end == CHOOSE end : end = [v \in 0..N |->
                    IF v = 0 THEN 0 ELSE end[v - 1] + pow2[Len(tab.bits) - LengthOf(tab, v)]]
<1>1. N \in Nat
    BY TableIs
<1>2. \A v \in 1..N : w[v] \in Nat \ {0}
  <2> SUFFICES ASSUME NEW v \in 1..N PROVE pow2[Len(tab.bits) - LengthOf(tab, v)] \in Nat \ {0}
      OBVIOUS
  <2>1. LengthOf(tab, v) \in 1..Len(tab.bits) /\ Len(tab.bits) \in Nat
      BY LengthIs, TableIs
  <2>2. Len(tab.bits) - LengthOf(tab, v) \in Nat
      BY <2>1
  <2> QED
      BY <2>2, Pow2
<1>3. end = CHOOSE e : e = [v \in 0..N |-> IF v = 0 THEN 0 ELSE e[v - 1] + w[v]]
  <2>1. \A e : [v \in 0..N |-> IF v = 0 THEN 0 ELSE e[v - 1] + pow2[Len(tab.bits) - LengthOf(tab, v)]]
                = [v \in 0..N |-> IF v = 0 THEN 0 ELSE e[v - 1] + w[v]]
    <3> SUFFICES ASSUME NEW e, NEW v \in 0..N, v # 0
                 PROVE  e[v - 1] + pow2[Len(tab.bits) - LengthOf(tab, v)] = e[v - 1] + w[v]
        OBVIOUS
    <3>1. v \in 1..N
        BY <1>1
    <3> QED
        BY <3>1
  <2> QED
      BY <2>1
<1>4. Taken(tab) = end
    BY DEF Taken
<1> HIDE DEF N, w
<1>5. PICK g : Upto(g, N, 0, st, Nat)
  <2>1. st \in [Nat -> [Nat -> Nat]] /\ 0 \in Nat
      BY <1>1, <1>2
  <2> HIDE DEF st
  <2> QED
      BY <1>1, <2>1, UptoExists
<1>6. ASSUME NEW v \in 0..N PROVE g[v] = IF v = 0 THEN 0 ELSE g[v - 1] + w[v]
  <2>1. CASE v = 0
      BY <1>5, <2>1 DEF Upto
  <2>2. CASE v # 0
    <3>1. v \in 1..N /\ v - 1 \in 0..N
        BY <1>1, <2>2
    <3>2. g[v] = st[v][g[v - 1]] /\ g[v - 1] \in Nat
      <4> HIDE DEF st
      <4> QED
          BY <1>5, <3>1 DEF Upto
    <3>3. st[v][g[v - 1]] = g[v - 1] + w[v]
        BY <3>1, <3>2
    <3> QED
        BY <2>2, <3>2, <3>3
  <2> QED
      BY <2>1, <2>2
<1>7. g = [v \in 0..N |-> IF v = 0 THEN 0 ELSE g[v - 1] + w[v]]
    BY <1>5, <1>6 DEF Upto
<1> HIDE DEF end
<1>8. end = [v \in 0..N |-> IF v = 0 THEN 0 ELSE end[v - 1] + w[v]]
    BY <1>3, <1>7
<1>9. end[0] = 0 /\ \A v \in 1..N : end[v] = end[v - 1] + w[v]
    BY <1>1, <1>8
<1> DEFINE G == {v \in 0..N : end[v] \in Nat}
<1>10. \A v \in 0..N : v \in G
  <2>1. 0 \in G
      BY <1>1, <1>9
  <2>2. ASSUME NEW n \in 0..(N - 1), n \in G PROVE n + 1 \in G
    <3>1. n + 1 \in 1..N /\ (n + 1) - 1 = n
        BY <1>1
    <3>2. end[n + 1] = end[n] + w[n + 1] /\ w[n + 1] \in Nat
        BY <1>2, <1>9, <3>1
    <3> QED
        BY <2>2, <3>1, <3>2
  <2> HIDE DEF G
  <2> QED
      BY <1>1, <2>1, <2>2, InductUpto
<1>11. end \in [0..N -> Nat]
    BY <1>8, <1>10
<1>12. \A v \in 1..N : w[v] = pow2[Len(tab.bits) - LengthOf(tab, v)]
    BY DEF w
<1> QED
    BY <1>2, <1>4, <1>9, <1>11, <1>12 DEF N

\* Codes take their parts from left to right.
LEMMA TakenGrows ==
    ASSUME NEW S, NEW tab \in Table(S), NEW i \in 0..Len(tab.vals), NEW j \in i..Len(tab.vals)
    PROVE  Taken(tab)[i] <= Taken(tab)[j]
<1> DEFINE u == Taken(tab)
           N == Len(tab.vals)
           w == [v \in 1..N |-> pow2[Len(tab.bits) - LengthOf(tab, v)]]
<1>1. N \in Nat /\ u \in [0..N -> Nat] /\ \A v \in 1..N : u[v] = u[v - 1] + w[v] /\ w[v] \in Nat
    BY TakenIs, TableIs
<1> HIDE DEF u, w, N
<1>2. ASSUME NEW v \in 1..N PROVE u[v - 1] <= u[v]
  <2>1. v - 1 \in 0..N
      BY <1>1
  <2>2. u[v - 1] \in Nat /\ w[v] \in Nat /\ u[v] = u[v - 1] + w[v]
      BY <1>1, <2>1
  <2> QED
      BY <2>2
<1>3. i \in 0..N /\ j \in i..N
    BY DEF N
<1> QED
    BY <1>1, <1>2, <1>3, Grows DEF u

\* The codes of one length, from where those of the shorter ones end.
LEMMA FillLength ==
    ASSUME NEW S, NEW tab \in Table(S), NEW l \in 1..Len(tab.bits),
           Taken(tab)[symbolsUpTo(tab.bits)[l - 1]] = newAvoHuff(tab.bits)[l] * pow2[Len(tab.bits) - l],
           NEW m \in 0..tab.bits[l]
    PROVE  Taken(tab)[symbolsUpTo(tab.bits)[l - 1] + m] =
               (newAvoHuff(tab.bits)[l] + m) * pow2[Len(tab.bits) - l]
<1> DEFINE L == Len(tab.bits)
           N == Len(tab.vals)
           u == symbolsUpTo(tab.bits)
           end == Taken(tab)
           c == newAvoHuff(tab.bits)[l]
           p == pow2[L - l]
           b == tab.bits[l]
           G == {n \in Nat : n <= b => end[u[l - 1] + n] = (c + n) * p}
<1>1. L \in Nat /\ N \in Nat /\ l \in 1..L
    BY TableIs
<1>2. u[l - 1] \in Nat /\ u[l] \in Nat /\ u[l] = u[l - 1] + b /\ b \in Nat /\ c \in Nat /\ u[l] <= N
  <2>1. tab.bits \in Seq(Nat) /\ u[L] = N
      BY TableIs
  <2>2. u \in [0..L -> Nat] /\ u[l] = u[l - 1] + b
      BY <2>1, SymbolsUpTo
  <2>3. b \in Nat
      BY <2>1
  <2>4. c \in Nat
      BY <2>1, NewAvoHuff
  <2>5. l - 1 \in 0..L /\ l \in 0..L /\ L \in l..L
      BY <1>1
  <2>6. u[l] <= u[L]
      BY <2>1, <2>5, SymbolsGrow
  <2> HIDE DEF u, L, N, b, c
  <2> QED
      BY <2>1, <2>2, <2>3, <2>4, <2>5, <2>6
<1>3. p \in Nat
  <2>1. L - l \in Nat
      BY <1>1
  <2> QED
      BY <2>1, Pow2
<1>4. \A v \in 1..N : end[v] = end[v - 1] + pow2[L - LengthOf(tab, v)]
    BY TakenIs
<1>5. end[u[l - 1]] = c * p
    OBVIOUS
<1>6. \A v \in Nat : u[l - 1] < v /\ v <= u[l] => v \in 1..N /\ LengthOf(tab, v) = l
    BY LengthOnly
<1>7. m \in Nat /\ m <= b
    BY <1>2
<1> HIDE DEF L, N, u, end, c, p, b
<1>8. 0 \in G
  <2>1. u[l - 1] + 0 = u[l - 1] /\ c + 0 = c
      BY <1>2
  <2> QED
      BY <1>5, <2>1
<1>9. ASSUME NEW n \in Nat, n \in G, n + 1 <= b PROVE end[u[l - 1] + (n + 1)] = (c + (n + 1)) * p
  <2> DEFINE v == u[l - 1] + (n + 1)
  <2>1. v \in Nat /\ u[l - 1] < v /\ v <= u[l] /\ v - 1 = u[l - 1] + n /\ n <= b
    <3> DEFINE a == u[l - 1]
    <3>1. a \in Nat /\ b \in Nat /\ u[l] = a + b /\ n + 1 <= b
        BY <1>2, <1>9
    <3> HIDE DEF a
    <3>2. a + (n + 1) \in Nat /\ a < a + (n + 1) /\ a + (n + 1) <= a + b /\ (a + (n + 1)) - 1 = a + n /\ n <= b
        BY <3>1
    <3> QED
        BY <3>1, <3>2 DEF a
  <2>2. v \in 1..N /\ LengthOf(tab, v) = l
      BY <1>6, <2>1
  <2>3. end[v] = end[v - 1] + p
      BY <1>4, <2>2 DEF p
  <2>4. end[v - 1] = (c + n) * p
      BY <1>9, <2>1
  <2>5. c + n \in Nat /\ (c + n) + 1 = c + (n + 1)
    <3>1. c \in Nat
        BY <1>2
    <3> HIDE DEF c
    <3> QED
        BY <3>1
  <2>6. ((c + n) + 1) * p = (c + n) * p + p
      BY <1>3, <2>5, Times
  <2> QED
      BY <2>3, <2>4, <2>5, <2>6
<1>10. \A n \in Nat : n \in G => n + 1 \in G
  <2> SUFFICES ASSUME NEW n \in Nat, n \in G PROVE n + 1 \in G
      OBVIOUS
  <2>1. n + 1 \in Nat
      OBVIOUS
  <2>2. n + 1 <= b => end[u[l - 1] + (n + 1)] = (c + (n + 1)) * p
      BY <1>9
  <2> QED
      BY <2>1, <2>2
<1>11. m \in G
  <2> HIDE DEF G
  <2> QED
      BY <1>7, <1>8, <1>10, Induct
<1> QED
    BY <1>7, <1>11 DEF end, u, c, p, L

\* Where the codes of a length start: at its first code.
LEMMA FillStart ==
    ASSUME NEW S, NEW tab \in Table(S), NEW l \in 1..Len(tab.bits)
    PROVE  Taken(tab)[symbolsUpTo(tab.bits)[l - 1]] = newAvoHuff(tab.bits)[l] * pow2[Len(tab.bits) - l]
<1> DEFINE L == Len(tab.bits)
           u == symbolsUpTo(tab.bits)
           end == Taken(tab)
           code == newAvoHuff(tab.bits)
           G == {n \in Nat : n + 1 <= L => end[u[n]] = code[n + 1] * pow2[L - (n + 1)]}
<1>1. tab.bits \in Seq(Nat) /\ L \in Nat /\ \A i \in 1..L : tab.bits[i] \in Nat
    BY TableIs
<1>2. code \in [1..L -> Nat] /\ \A i \in 1..(L - 1) : code[i + 1] = 2 * (code[i] + tab.bits[i])
    BY <1>1, NewAvoHuff
<1>3. code[1] = 0
  <2>1. tab.bits # <<>>
      BY <1>1
  <2> QED
      BY <1>1, <2>1, NewAvoHuff
<1>4. u[0] = 0 /\ \A i \in 1..L : u[i] = u[i - 1] + tab.bits[i]
    BY <1>1, SymbolsUpTo
<1>5. end[0] = 0
    BY TakenIs
<1>6. \A i \in 1..L : end[u[i - 1]] = code[i] * pow2[L - i] =>
        \A m \in 0..tab.bits[i] : end[u[i - 1] + m] = (code[i] + m) * pow2[L - i]
    BY FillLength
<1>7. l \in 1..L
    OBVIOUS
<1> HIDE DEF L, u, end, code
<1>8. 0 \in G
  <2>1. 0 + 1 = 1
      OBVIOUS
  <2>2. pow2[L - 1] \in Nat
    <3>1. L - 1 \in Nat
        BY <1>1, <1>7
    <3> QED
        BY <3>1, Pow2
  <2>3. 0 * pow2[L - 1] = 0
      BY <2>2
  <2> QED
      BY <1>3, <1>4, <1>5, <2>1, <2>3
<1>9. ASSUME NEW n \in Nat, n \in G, (n + 1) + 1 <= L
      PROVE  end[u[n + 1]] = code[(n + 1) + 1] * pow2[L - ((n + 1) + 1)]
  <2> DEFINE i == n + 1
  <2>1. i \in 1..L /\ i \in 1..(L - 1) /\ i - 1 = n /\ L - (i + 1) \in Nat /\ L - i = (L - (i + 1)) + 1
      BY <1>1, <1>9
  <2>2. end[u[i - 1]] = code[i] * pow2[L - i]
      BY <1>1, <1>9, <2>1
  <2>3. tab.bits[i] \in Nat /\ code[i] \in Nat /\ code[i + 1] = 2 * (code[i] + tab.bits[i])
      BY <1>1, <1>2, <2>1
  <2>4. pow2[L - i] = 2 * pow2[L - (i + 1)] /\ pow2[L - (i + 1)] \in Nat
      BY <2>1, Pow2
  <2> HIDE DEF i
  <2>5. tab.bits[i] \in 0..tab.bits[i]
      BY <2>3
  <2>6. end[u[i - 1] + tab.bits[i]] = (code[i] + tab.bits[i]) * pow2[L - i]
      BY <1>6, <2>1, <2>2, <2>5
  <2>7. end[u[i]] = (code[i] + tab.bits[i]) * pow2[L - i]
      BY <1>4, <2>1, <2>6
  <2>8. ASSUME NEW a \in Nat, NEW b \in Nat PROVE a * (2 * b) = (2 * a) * b
      OBVIOUS
  <2>9. code[i] + tab.bits[i] \in Nat
      BY <2>3
  <2>10. end[u[i]] = (2 * (code[i] + tab.bits[i])) * pow2[L - (i + 1)]
      BY <2>4, <2>7, <2>8, <2>9
  <2> QED
      BY <2>3, <2>10 DEF i
<1>10. \A n \in Nat : n \in G => n + 1 \in G
  <2> SUFFICES ASSUME NEW n \in Nat, n \in G PROVE n + 1 \in G
      OBVIOUS
  <2>1. n + 1 \in Nat
      OBVIOUS
  <2> QED
      BY <1>9, <2>1
<1>11. l - 1 \in Nat /\ (l - 1) + 1 = l /\ l <= L
    BY <1>1, <1>7
<1>12. l - 1 \in G
  <2> HIDE DEF G
  <2> QED
      BY <1>8, <1>10, <1>11, Induct
<1> QED
    BY <1>11, <1>12 DEF end, u, code, L

\* What a code of length l at place v of vals takes.
LEMMA Part ==
    ASSUME NEW S, NEW tab \in Table(S), NEW l \in 1..Len(tab.bits), NEW v \in Nat,
           symbolsUpTo(tab.bits)[l - 1] < v, v <= symbolsUpTo(tab.bits)[l]
    PROVE  LET a == newAvoHuff(tab.bits)[l] + (v - 1 - symbolsUpTo(tab.bits)[l - 1])
               p == pow2[Len(tab.bits) - l]
           IN  a \in Nat /\ p \in Nat \ {0} /\ Taken(tab)[v - 1] = a * p /\ Taken(tab)[v] = a * p + p
<1> DEFINE L == Len(tab.bits)
           u == symbolsUpTo(tab.bits)
           end == Taken(tab)
           c == newAvoHuff(tab.bits)[l]
           p == pow2[L - l]
           b == tab.bits[l]
           m == v - 1 - u[l - 1]
<1>1. tab.bits \in Seq(Nat) /\ L \in Nat /\ l \in 1..L
    BY TableIs
<1>2. u[l - 1] \in Nat /\ u[l] = u[l - 1] + b /\ b \in Nat /\ c \in Nat
  <2>1. u \in [0..L -> Nat] /\ u[l] = u[l - 1] + b
      BY <1>1, SymbolsUpTo
  <2>2. c \in Nat
      BY <1>1, NewAvoHuff
  <2>3. b \in Nat /\ l - 1 \in 0..L
      BY <1>1
  <2> QED
      BY <2>1, <2>2, <2>3
<1>3. p \in Nat \ {0}
  <2>1. L - l \in Nat
      BY <1>1
  <2> QED
      BY <2>1, Pow2
<1>4. \A i \in 0..b : end[u[l - 1] + i] = (c + i) * p
    BY FillStart, FillLength
<1>5. u[l - 1] < v /\ v <= u[l]
    OBVIOUS
<1> HIDE DEF L, u, end, c, p, b
<1>6. m \in 0..b /\ m + 1 \in 0..b /\ u[l - 1] + m = v - 1 /\ u[l - 1] + (m + 1) = v
  <2> DEFINE x == u[l - 1]
  <2>1. x \in Nat /\ b \in Nat /\ x < v /\ v <= x + b
      BY <1>2, <1>5
  <2> HIDE DEF x
  <2>2. /\ v - 1 - x \in 0..b /\ (v - 1 - x) + 1 \in 0..b
        /\ x + (v - 1 - x) = v - 1 /\ x + ((v - 1 - x) + 1) = v
      BY <2>1
  <2> QED
      BY <2>2 DEF x
<1>7. end[v - 1] = (c + m) * p /\ end[v] = (c + (m + 1)) * p
    BY <1>4, <1>6
<1> HIDE DEF m
<1>8. c + m \in Nat /\ c + (m + 1) = (c + m) + 1
    BY <1>2, <1>6
<1>9. ((c + m) + 1) * p = (c + m) * p + p
    BY <1>3, <1>8, Times
<1> QED
    BY <1>3, <1>7, <1>8, <1>9 DEF L, u, end, c, p, m

\* The next bits read as a iff what follows points into the part of a.
LEMMA Points ==
    ASSUME NEW s \in Seq({0, 1}), NEW L \in Nat, NEW l \in 1..L, NEW a \in Nat
    PROVE  peekBits(s, l) = a <=> peekBits(s, L) \in (a * pow2[L - l])..((a * pow2[L - l] + pow2[L - l]) - 1)
<1> DEFINE p == pow2[L - l]
           x == peekBits(s, l)
           y == peekBits(s, L)
<1>1. L - l \in Nat /\ l \in Nat /\ l + (L - l) = L
    OBVIOUS
<1>2. y - x * p \in 0..(p - 1)
    BY <1>1, PeekMore
<1>3. x \in Nat /\ y \in Nat /\ p \in Nat \ {0}
    BY <1>1, PeekBits, Pow2
<1> HIDE DEF x, y, p
<1> DEFINE xp == x * p
           ap == a * p
<1>4. xp \in Nat /\ ap \in Nat
    BY <1>3, Times
<1>5. x < a => xp + p <= ap
  <2> SUFFICES ASSUME x < a PROVE xp + p <= ap
      OBVIOUS
  <2>1. x + 1 \in Nat /\ x + 1 <= a
      BY <1>3
  <2>2. (x + 1) * p <= a * p
      BY <1>3, <2>1, TimesLess
  <2>3. (x + 1) * p = x * p + p
      BY <1>3, Times
  <2> QED
      BY <2>2, <2>3
<1>6. a < x => ap + p <= xp
  <2> SUFFICES ASSUME a < x PROVE ap + p <= xp
      OBVIOUS
  <2>1. a + 1 \in Nat /\ a + 1 <= x
      BY <1>3
  <2>2. (a + 1) * p <= x * p
      BY <1>3, <2>1, TimesLess
  <2>3. (a + 1) * p = a * p + p
      BY <1>3, Times
  <2> QED
      BY <2>2, <2>3
<1>7. x = a => xp = ap
    OBVIOUS
<1>8. y - xp \in 0..(p - 1)
    BY <1>2
<1> HIDE DEF xp, ap
<1>9. x = a <=> y \in ap..((ap + p) - 1)
    BY <1>3, <1>4, <1>5, <1>6, <1>7, <1>8
<1> QED
    BY <1>9 DEF x, y, p, ap

\* A length matches the next bits iff they are the code of a symbol of it.
LEMMA MatchIsCandidate ==
    ASSUME NEW S, NEW tab \in Table(S), NEW s \in Seq({0, 1}), NEW l \in matching(tab, s)
    PROVE  LET v == 1 + symbolsUpTo(tab.bits)[l - 1] + peekBits(s, l) - newAvoHuff(tab.bits)[l]
           IN  v \in Candidates(tab, s) /\ LengthOf(tab, v) = l
<1> DEFINE L == Len(tab.bits)
           u == symbolsUpTo(tab.bits)
           c == newAvoHuff(tab.bits)[l]
           x == peekBits(s, l)
           v == 1 + u[l - 1] + x - c
<1>1. tab.bits \in Seq(Nat) /\ L \in Nat
    BY TableIs
<1>2. l \in 1..L /\ x \in c..(c + tab.bits[l] - 1)
    BY DEF matching
<1>3. l \in Nat /\ l - 1 \in 0..L /\ l \in 0..L /\ tab.bits[l] \in Nat
    BY <1>1, <1>2
<1>4. u[l - 1] \in Nat /\ u[l] = u[l - 1] + tab.bits[l]
    BY <1>1, <1>2, <1>3, SymbolsUpTo
<1>5. c \in Nat
    BY <1>1, <1>2, NewAvoHuff
<1>6. x \in Nat
    BY <1>3, PeekBits
<1>7. v \in Nat /\ u[l - 1] < v /\ v <= u[l] /\ c + (v - 1 - u[l - 1]) = x
  <2> DEFINE y == u[l - 1]
             b == tab.bits[l]
  <2>1. y \in Nat /\ b \in Nat /\ u[l] = y + b /\ x \in c..(c + b - 1)
      BY <1>2, <1>3, <1>4
  <2> HIDE DEF y, b, x, c
  <2>2. /\ 1 + y + x - c \in Nat /\ y < 1 + y + x - c /\ 1 + y + x - c <= y + b
        /\ c + ((1 + y + x - c) - 1 - y) = x
      BY <1>5, <1>6, <2>1
  <2> QED
      BY <2>1, <2>2 DEF y
<1>8. v \in 1..Len(tab.vals) /\ LengthOf(tab, v) = l
    BY <1>2, <1>7, LengthOnly
<1> HIDE DEF v
<1>9. /\ Taken(tab)[v - 1] = x * pow2[L - l]
      /\ Taken(tab)[v] = x * pow2[L - l] + pow2[L - l]
  <2>1. LET a == c + (v - 1 - u[l - 1])
            p == pow2[L - l]
        IN  Taken(tab)[v - 1] = a * p /\ Taken(tab)[v] = a * p + p
      BY <1>2, <1>7, Part
  <2> QED
      BY <1>7, <2>1
<1>10. peekBits(s, L) \in (x * pow2[L - l])..((x * pow2[L - l] + pow2[L - l]) - 1)
    BY <1>1, <1>2, <1>6, Points
<1>11. peekBits(s, L) \in Taken(tab)[v - 1]..(Taken(tab)[v] - 1)
    BY <1>9, <1>10
<1> QED
    BY <1>8, <1>11 DEF v, Candidates

\* The length of a code the bits start with matches.
LEMMA CandidateMatches ==
    ASSUME NEW S, NEW tab \in Table(S), NEW s \in Seq({0, 1}), NEW v \in Candidates(tab, s)
    PROVE  LengthOf(tab, v) \in matching(tab, s)
<1> DEFINE L == Len(tab.bits)
           u == symbolsUpTo(tab.bits)
           l == LengthOf(tab, v)
           c == newAvoHuff(tab.bits)[l]
           a == c + (v - 1 - u[l - 1])
           p == pow2[L - l]
<1>1. tab.bits \in Seq(Nat) /\ L \in Nat
    BY TableIs
<1>2. v \in 1..Len(tab.vals) /\ peekBits(s, L) \in Taken(tab)[v - 1]..(Taken(tab)[v] - 1)
    BY DEF Candidates
<1>3. l \in 1..L /\ u[l - 1] < v /\ v <= u[l]
    BY <1>2, LengthIs
<1> HIDE DEF l
<1>4. l - 1 \in 0..L /\ l \in 0..L /\ tab.bits[l] \in Nat /\ v \in Nat
  <2>1. Len(tab.vals) \in Nat /\ tab.bits[l] \in Nat
      BY <1>1, <1>3, TableIs
  <2> HIDE DEF L, u
  <2> QED
      BY <1>1, <1>2, <1>3, <2>1
<1>5. u[l - 1] \in Nat /\ u[l] = u[l - 1] + tab.bits[l]
    BY <1>1, <1>3, <1>4, SymbolsUpTo
<1>6. c \in Nat
    BY <1>1, <1>3, NewAvoHuff
<1>7. a \in Nat /\ Taken(tab)[v - 1] = a * p /\ Taken(tab)[v] = a * p + p
    BY <1>3, <1>4, Part
<1> HIDE DEF a
<1>8. peekBits(s, l) = a
    BY <1>1, <1>2, <1>3, <1>7, Points
<1>9. a \in c..(c + tab.bits[l] - 1)
  <2> DEFINE y == u[l - 1]
             b == tab.bits[l]
  <2>1. y \in Nat /\ b \in Nat /\ v \in Nat /\ y < v /\ v <= y + b
      BY <1>3, <1>4, <1>5
  <2>2. a = c + (v - 1 - y)
      BY DEF a
  <2> HIDE DEF y, b, c
  <2>3. a \in c..(c + b - 1)
      BY <1>6, <2>1, <2>2
  <2> QED
      BY <2>3 DEF b
<1>10. l \in matching(tab, s)
    BY <1>3, <1>8, <1>9 DEF matching
<1> QED
    BY <1>10 DEF l

\* At most one code is a prefix of the bits.
LEMMA OneCandidate ==
    ASSUME NEW S, NEW tab \in Table(S), NEW s \in Seq({0, 1}),
           NEW v \in Candidates(tab, s), NEW w \in Candidates(tab, s)
    PROVE  v = w
<1> DEFINE N == Len(tab.vals)
           end == Taken(tab)
           x == peekBits(s, Len(tab.bits))
<1>1. N \in Nat /\ Len(tab.bits) \in Nat
    BY TableIs
<1>2. end \in [0..N -> Nat] /\ x \in Nat
    BY <1>1, TakenIs, PeekBits
<1>3. \A i \in 0..N : \A j \in i..N : end[i] <= end[j]
    BY TakenGrows
<1>4. v \in 1..N /\ w \in 1..N /\ x \in end[v - 1]..(end[v] - 1) /\ x \in end[w - 1]..(end[w] - 1)
    BY DEF Candidates
<1> HIDE DEF N, end, x
<1>5. ASSUME NEW i \in 1..N, NEW j \in 1..N, i < j,
             x \in end[i - 1]..(end[i] - 1), x \in end[j - 1]..(end[j] - 1)
      PROVE  FALSE
  <2>1. i \in 0..N /\ j - 1 \in i..N /\ j - 1 \in 0..N
      BY <1>1, <1>5
  <2>2. end[i] <= end[j - 1] /\ end[i] \in Nat /\ end[j - 1] \in Nat
      BY <1>2, <1>3, <2>1
  <2> QED
      BY <1>2, <1>5, <2>2
<1>6. ~(v < w) /\ ~(w < v)
    BY <1>4, <1>5
<1> QED
    BY <1>1, <1>4, <1>6

\* What the search of a table finds: the one symbol whose code the bits start
\* with, and nothing when there is none.
LEMMA TableSearch ==
    ASSUME NEW S, NEW tab \in Table(S), NEW s \in Seq({0, 1})
    PROVE  /\ matches(tab, s) =>
                /\ Candidates(tab, s) = {codeIndex(tab, s)}
                /\ codeLength(tab, s) = LengthOf(tab, codeIndex(tab, s))
                /\ codeLength(tab, s) \in Nat
                /\ decodeHuffSymbol(tab, s) \in S
           /\ ~matches(tab, s) => Candidates(tab, s) = {}
<1>1. ASSUME matches(tab, s)
      PROVE  /\ Candidates(tab, s) = {codeIndex(tab, s)}
             /\ codeLength(tab, s) = LengthOf(tab, codeIndex(tab, s))
             /\ codeLength(tab, s) \in Nat
             /\ decodeHuffSymbol(tab, s) \in S
  <2> DEFINE l == codeLength(tab, s)
             v == codeIndex(tab, s)
  <2>1. matching(tab, s) \subseteq Nat /\ matching(tab, s) # {}
      BY <1>1, TableIs DEF matching, matches
  <2>2. l \in matching(tab, s)
      BY <2>1, MinOf DEF codeLength
  <2>3. v = 1 + symbolsUpTo(tab.bits)[l - 1] + peekBits(s, l) - newAvoHuff(tab.bits)[l]
      BY DEF codeIndex
  <2> HIDE DEF l, v
  <2>4. v \in Candidates(tab, s) /\ LengthOf(tab, v) = l
      BY <2>2, <2>3, MatchIsCandidate
  <2>5. Candidates(tab, s) = {v}
      BY <2>4, OneCandidate
  <2>6. v \in 1..Len(tab.vals)
      BY <2>4 DEF Candidates
  <2>7. tab.vals[v] \in S
      BY <2>6, TableIs
  <2> QED
      BY <2>1, <2>2, <2>4, <2>5, <2>7 DEF l, v, decodeHuffSymbol
<1>2. ASSUME ~matches(tab, s) PROVE Candidates(tab, s) = {}
    BY <1>2, CandidateMatches DEF matches
<1> QED
    BY <1>1, <1>2

---------------------------------------------------------------------------
(* What the decoders read *)

\* What is left of a sequence.
LEMMA DropType == ASSUME NEW S, NEW s \in Seq(S), NEW n \in Nat PROVE Drop(s, n) \in Seq(S)
    BY DEF Drop

\* What consuming bits leaves.
LEMMA DropLen ==
    ASSUME NEW S, NEW s \in Seq(S), NEW n \in Nat
    PROVE  /\ Len(Drop(s, n)) \in Nat /\ Len(Drop(s, n)) <= Len(s)
           /\ n > 0 /\ s # <<>> => Len(Drop(s, n)) < Len(s)
<1>1. Len(s) \in Nat /\ (s # <<>> => Len(s) > 0)
    OBVIOUS
<1>2. Len(Drop(s, n)) = IF n + 1 <= Len(s) THEN Len(s) - n ELSE 0
    BY DEF Drop
<1> QED
    BY <1>1, <1>2

\* What is left behind the slots of a palette refresh.
LEMMA LoadSlots ==
    ASSUME NEW s \in Seq({0, 1}), NEW n \in Nat
    PROVE  loadSlots(s, n) \in Seq({0, 1}) /\ Len(loadSlots(s, n)) <= Len(s)
<1> DEFINE T == {t \in Seq({0, 1}) : Len(t) <= Len(s)}
           st == [i \in Nat |-> [x \in T |-> loadSlot(x)]]
           after == CHOOSE after : after = [i \in 0..n |-> IF i = 0 THEN s ELSE loadSlot(after[i - 1])]
<1>1. \A x \in T : loadSlot(x) \in T
  <2> SUFFICES ASSUME NEW x \in T PROVE loadSlot(x) \in T
      OBVIOUS
  <2>1. ColorBits \in Nat
      BY BitsAssumption
  <2>2. 3 \in Nat /\ 3 + ColorBits \in Nat
      BY <2>1
  <2>3. x \in Seq({0, 1}) /\ Len(x) \in Nat /\ Len(x) <= Len(s) /\ Len(s) \in Nat
      OBVIOUS
  <2>4. PICK m \in Nat : loadSlot(x) = Drop(x, m)
      BY <2>2 DEF loadSlot
  <2>5. Drop(x, m) \in Seq({0, 1}) /\ Len(Drop(x, m)) \in Nat /\ Len(Drop(x, m)) <= Len(x)
      BY <2>3, DropType, DropLen
  <2> QED
      BY <2>3, <2>4, <2>5
<1> HIDE DEF T
<1>2. st \in [Nat -> [T -> T]] /\ s \in T
  <2>1. s \in T
      BY DEF T
  <2> QED
      BY <1>1, <2>1
<1>3. PICK g : Upto(g, n, s, st, T)
  <2> HIDE DEF st
  <2> QED
      BY <1>2, UptoExists
<1>4. ASSUME NEW i \in 0..n PROVE g[i] = IF i = 0 THEN s ELSE loadSlot(g[i - 1])
  <2>1. CASE i = 0
      BY <1>3, <2>1 DEF Upto
  <2>2. CASE i # 0
    <3>1. i \in 1..n /\ i - 1 \in 0..n
        BY <2>2
    <3>2. g[i] = st[i][g[i - 1]] /\ g[i - 1] \in T
      <4> HIDE DEF st
      <4> QED
          BY <1>3, <3>1 DEF Upto
    <3> QED
        BY <2>2, <3>1, <3>2
  <2> QED
      BY <2>1, <2>2
<1>5. g = [i \in 0..n |-> IF i = 0 THEN s ELSE loadSlot(g[i - 1])]
    BY <1>3, <1>4 DEF Upto
<1>6. after = [i \in 0..n |-> IF i = 0 THEN s ELSE loadSlot(after[i - 1])]
    BY <1>5
<1>7. loadSlots(s, n) = after[n]
    BY DEF loadSlots
<1> HIDE DEF after
<1> DEFINE G == {i \in 0..n : after[i] \in T}
<1>8. 0 \in G
    BY <1>2, <1>6
<1>9. ASSUME NEW i \in 0..(n - 1), i \in G PROVE i + 1 \in G
  <2>1. i + 1 \in 0..n /\ i + 1 # 0 /\ (i + 1) - 1 = i
      OBVIOUS
  <2>2. after[i + 1] = loadSlot(after[i])
      BY <1>6, <2>1
  <2> QED
      BY <1>1, <1>9, <2>1, <2>2
<1>10. n \in G
  <2> HIDE DEF G
  <2>1. n \in 0..n
      OBVIOUS
  <2> QED
      BY <1>8, <1>9, <2>1, InductUpto
<1> QED
    BY <1>7, <1>10 DEF T

\* readRunLength reads no byte that is not there.
LEMMA Continued == ASSUME NEW s \in Seq(Byte), s # <<>> PROVE continued(s) \in 0..(Len(s) - 1)
<1> DEFINE T == {n \in 0..LessOf(4, Len(s) - 1) : \A i \in 1..n : Family(s[i + 1]) = Family(s[1])}
<1>1. Len(s) - 1 \in Nat
    OBVIOUS
<1>2. 0..LessOf(4, Len(s) - 1) \subseteq 0..(Len(s) - 1) /\ 0 \in 0..LessOf(4, Len(s) - 1)
    BY <1>1 DEF LessOf
<1>3. T \subseteq 0..(Len(s) - 1) /\ 0 \in T
    BY <1>2
<1>4. continued(s) = Max(T)
    BY DEF continued
<1> HIDE DEF T
<1>5. Max(T) \in T
    BY <1>1, <1>3, MaxOf
<1> QED
    BY <1>3, <1>4, <1>5

\* The loop of PATTERN reads no byte that is not there.
LEMMA PatternTail == ASSUME NEW s \in Seq(Byte), s # <<>> PROVE patternTail(s) \in 0..(Len(s) - 1)
<1> DEFINE T == {n \in 0..(Len(s) - 1) : \A i \in 1..n : Bit(s[i], 16)}
<1>1. Len(s) - 1 \in Nat
    OBVIOUS
<1>2. T \subseteq 0..(Len(s) - 1) /\ 0 \in T
    BY <1>1
<1>3. patternTail(s) = Max(T)
    BY DEF patternTail
<1> HIDE DEF T
<1>4. Max(T) \in T
    BY <1>1, <1>2, MaxOf
<1> QED
    BY <1>2, <1>3, <1>4

\* A run is a number.
LEMMA ReadRunLength == ASSUME NEW s \in Seq(Byte), s # <<>> PROVE readRunLength(s) \in Nat
<1> DEFINE n == continued(s)
           low == [i \in 0..n |-> s[n + 1 - i] % 32]
           st == [i \in Nat |-> [x \in Nat |-> IF i \in 0..n THEN low[i] + 32 * x ELSE 0]]
           run == CHOOSE run : run = [i \in 0..n |-> (s[n + 1 - i] % 32) + (IF i = 0 THEN 0 ELSE 32 * run[i - 1])]
<1>1. n \in Nat /\ n + 1 <= Len(s)
    BY Continued
<1>2. \A i \in 0..n : low[i] \in Nat
  <2> SUFFICES ASSUME NEW i \in 0..n PROVE s[n + 1 - i] % 32 \in Nat
      OBVIOUS
  <2>1. n + 1 - i \in 1..Len(s)
      BY <1>1
  <2>2. s[n + 1 - i] \in Byte
      BY <2>1
  <2>3. \A b \in Byte : b % 32 \in Nat
      BY DEF Byte
  <2> QED
      BY <2>2, <2>3
<1>3. readRunLength(s) = run[n]
    BY DEF readRunLength
<1> HIDE DEF n
<1>4. \A f : [i \in 0..n |-> (s[n + 1 - i] % 32) + (IF i = 0 THEN 0 ELSE 32 * f[i - 1])]
                = [i \in 0..n |-> low[i] + (IF i = 0 THEN 0 ELSE 32 * f[i - 1])]
    OBVIOUS
<1>5. run = CHOOSE f : f = [i \in 0..n |-> low[i] + (IF i = 0 THEN 0 ELSE 32 * f[i - 1])]
    BY <1>4
<1> HIDE DEF low, run
<1>6. PICK g : Upto(g, n, low[0], st, Nat)
  <2>1. st \in [Nat -> [Nat -> Nat]] /\ low[0] \in Nat
      BY <1>1, <1>2
  <2> HIDE DEF st
  <2> QED
      BY <1>1, <2>1, UptoExists
<1>7. ASSUME NEW i \in 0..n PROVE g[i] = low[i] + (IF i = 0 THEN 0 ELSE 32 * g[i - 1])
  <2>1. CASE i = 0
      BY <1>2, <1>6, <2>1 DEF Upto
  <2>2. CASE i # 0
    <3>1. i \in 1..n /\ i - 1 \in 0..n
        BY <1>1, <2>2
    <3>2. g[i] = st[i][g[i - 1]] /\ g[i - 1] \in Nat
      <4> HIDE DEF st
      <4> QED
          BY <1>6, <3>1 DEF Upto
    <3>3. st[i][g[i - 1]] = low[i] + 32 * g[i - 1]
        BY <3>1, <3>2
    <3> QED
        BY <2>2, <3>2, <3>3
  <2> QED
      BY <2>1, <2>2
<1>8. g = [i \in 0..n |-> low[i] + (IF i = 0 THEN 0 ELSE 32 * g[i - 1])]
    BY <1>6, <1>7 DEF Upto
<1>9. run = [i \in 0..n |-> low[i] + (IF i = 0 THEN 0 ELSE 32 * run[i - 1])]
    BY <1>5, <1>8
<1> DEFINE G == {i \in 0..n : run[i] \in Nat}
<1>10. 0 \in G
    BY <1>1, <1>2, <1>9
<1>11. ASSUME NEW i \in 0..(n - 1), i \in G PROVE i + 1 \in G
  <2>1. i + 1 \in 0..n /\ i + 1 # 0 /\ (i + 1) - 1 = i
      BY <1>1
  <2>2. run[i + 1] = low[i + 1] + 32 * run[i] /\ low[i + 1] \in Nat /\ run[i] \in Nat
      BY <1>2, <1>9, <1>11, <2>1
  <2> QED
      BY <2>1, <2>2
<1>12. n \in G
  <2> HIDE DEF G
  <2>1. n \in 0..n
      BY <1>1
  <2> QED
      BY <1>1, <1>10, <1>11, <2>1, InductUpto
<1> QED
    BY <1>3, <1>12

---------------------------------------------------------------------------
(* Types *)

\* There are pixels.
LEMMA SizeNat == size \in Nat \ {0}
    BY SizeAssumption DEF size

\* A run ends in the framebuffer or right behind it.
LEMMA RunEnd == ASSUME TypeOK, NEW n \in Nat PROVE runEnd(n) \in 0..size /\ span(n) \subseteq cur..(size - 1)
    BY SizeNat DEF TypeOK, runEnd, span, LessOf

\* getPixel finds a colour anywhere.
LEMMA GetPixel == ASSUME TypeOK, NEW i \in Int PROVE getPixel(i) \in Colours
<1>1. Black \in Colours
    BY DEF Black, Colours
<1> QED
    BY <1>1 DEF TypeOK, getPixel

\* What is left of the data of a tile.
LEMMA TailType == ASSUME TypeOK, NEW n \in Nat, n < Len(in) PROVE SubSeq(in, 2 + n, Len(in)) \in Seq(Byte)
    BY DEF TypeOK

\* The search for a distinct pixel ends at one, or at the last pixel.
LEMMA PrevDistinct == ASSUME TypeOK PROVE prevDistinct \in Colours
<1> DEFINE last == getPixel(cur - 1)
           K == {j \in (cur - 1 - LessOf(cur - 1, FbW))..(cur - 1) : j >= 0 /\ px[j] # last}
<1>1. cur \in 0..size /\ cur - 1 \in Int /\ px \in [0..(size - 1) -> Colours]
    BY SizeNat DEF TypeOK
<1>2. last \in Colours
    BY <1>1, GetPixel
<1>3. prevDistinct = IF K = {} THEN last ELSE px[Max(K)]
    BY DEF prevDistinct
<1>4. K \subseteq 0..(size - 1)
    BY <1>1, SizeNat, SizeAssumption DEF LessOf
<1> HIDE DEF K, last
<1>5. size - 1 \in Nat
    BY SizeNat
<1>6. ASSUME K # {} PROVE Max(K) \in K
    BY <1>4, <1>5, <1>6, MaxOf
<1> QED
    BY <1>1, <1>2, <1>3, <1>4, <1>6

\* Bytes are numbers.
LEMMA ByteNat == \A b \in Byte : b \in Nat
    BY DEF Byte

\* readColor finds a colour when its bytes are there.
LEMMA ReadColor == ASSUME TypeOK, dec # "none", in # <<>>, Len(in) > colorTail PROVE readColor(in) \in Colours
<1>1. in \in Seq(Byte) /\ pal \in [0..(Slots - 1) -> Nat] /\ dec \in Depths
    BY DEF TypeOK
<1>2. in[1] \in Nat
  <2>1. 1 \in 1..Len(in)
      BY <1>1
  <2>2. in[1] \in Byte
      BY <1>1, <2>1
  <2> QED
      BY <2>2, ByteNat
<1>3. Nat \subseteq Colours
    BY DEF Colours
<1>4. CASE dec = "gray7"
  <2>1. in[1] % 128 \in Nat
      BY <1>2
  <2> QED
      BY <1>3, <1>4, <2>1 DEF readColor, Black
<1>5. CASE dec = "palette7"
  <2>1. in[1] % Slots \in 0..(Slots - 1)
      BY <1>2, SlotsAssumption, DivMod
  <2>2. readColor(in) = pal[in[1] % Slots]
      BY <1>5 DEF readColor
  <2> QED
      BY <1>1, <1>3, <2>1, <2>2
<1>6. CASE dec = "rgb15"
  <2>1. in[2] \in Nat
    <3>1. Len(in) > 1
        BY <1>6 DEF colorTail
    <3>2. 2 \in 1..Len(in)
        BY <1>1, <3>1
    <3>3. in[2] \in Byte
        BY <1>1, <3>2
    <3> QED
        BY <3>3, ByteNat
  <2>2. in[1] % 128 \in Nat
      BY <1>2
  <2>3. readColor(in) = 1 + (in[1] % 128) * 256 + in[2]
      BY <1>6 DEF readColor, Black
  <2> HIDE DEF readColor
  <2>4. readColor(in) \in Nat
      BY <2>1, <2>2, <2>3
  <2> QED
      BY <1>3, <2>4
<1> QED
    BY <1>1, <1>4, <1>5, <1>6 DEF Depths

\* The pixels a run-length tile copies are there.
LEMMA CopySource ==
    ASSUME TypeOK, NEW i \in Nat, cur - FbW >= 0, i >= cur
    PROVE  px[(cur - FbW) + ((i - cur) % (cur - (cur - FbW)))] \in Colours
<1>1. cur \in 0..size /\ px \in [0..(size - 1) -> Colours]
    BY DEF TypeOK
<1>2. cur - (cur - FbW) = FbW /\ i - cur \in Nat /\ FbW \in Nat \ {0}
    BY <1>1, SizeAssumption, SizeNat
<1>3. (i - cur) % FbW \in 0..(FbW - 1)
    BY <1>2, DivMod
<1>4. (cur - FbW) + ((i - cur) % FbW) \in 0..(size - 1)
    BY <1>1, <1>2, <1>3, SizeNat
<1> QED
    BY <1>1, <1>2, <1>4

\* What a turn of the loop of Decode keeps.
LEMMA RawType ==
    ASSUME TypeOK, RawNext
    PROVE  /\ px' \in [0..(size - 1) -> Colours] /\ cur' \in 0..size /\ dirty' \in BOOLEAN
           /\ dec' \in Depths \cup {"none"} /\ in' \in Seq(Byte) /\ pal' = pal
<1> DEFINE Fb == px' \in [0..(size - 1) -> Colours] /\ cur' \in 0..size /\ dirty' \in BOOLEAN
           In == dec' \in Depths \cup {"none"} /\ in' \in Seq(Byte) /\ pal' = pal
<1>1. /\ px \in [0..(size - 1) -> Colours] /\ cur \in 0..size /\ dirty \in BOOLEAN
      /\ dec \in Depths \cup {"none"} /\ in \in Seq(Byte)
    BY DEF TypeOK
<1>2. ASSUME in # <<>> PROVE continued(in) \in Nat /\ continued(in) < Len(in) /\ readRunLength(in) \in Nat
    BY <1>1, <1>2, Continued, ReadRunLength
<1>3. ASSUME RunRead, in # <<>> PROVE In
    BY <1>1, <1>2, <1>3, TailType DEF RunRead
<1>4. ASSUME UNCHANGED fb PROVE Fb
    BY <1>1, <1>4 DEF fb
<1>5. CASE Noop
  <2>1. in # <<>> /\ RunRead
      BY <1>5 DEF Noop, Opcode
  <2>2. cur' = runEnd(readRunLength(in)) /\ px' = px /\ dirty' = TRUE
      BY <1>5 DEF Noop
  <2> QED
      BY <1>1, <1>2, <1>3, <2>1, <2>2, RunEnd
<1>6. CASE Repeat
  <2> DEFINE n == readRunLength(in)
             c == getPixel(cur - 1)
  <2>1. in # <<>> /\ RunRead /\ (UNCHANGED fb \/ writePixels(n, LAMBDA i : c))
      BY <1>6 DEF Repeat, Opcode, repeatColor
  <2>2. n \in Nat
      BY <1>2, <2>1
  <2>3. c \in Colours
    <3>1. cur - 1 \in Int
        BY <1>1, SizeNat
    <3> QED
        BY <3>1, GetPixel
  <2>4. ASSUME writePixels(n, LAMBDA i : c) PROVE Fb
    <3>1. /\ px' = [i \in DOMAIN px |-> IF i \in span(n) THEN c ELSE px[i]]
          /\ cur' = runEnd(n) /\ dirty' = TRUE
        BY <2>4 DEF writePixels
    <3> HIDE DEF n, c
    <3> QED
        BY <1>1, <2>2, <2>3, <3>1, RunEnd
  <2> QED
      BY <1>3, <1>4, <2>1, <2>4
<1>7. CASE Copy
  <2> DEFINE n == readRunLength(in)
             c(i) == px[(cur - FbW) + ((i - cur) % (cur - (cur - FbW)))]
  <2>1. in # <<>> /\ RunRead /\ (UNCHANGED fb \/ (cur - FbW >= 0 /\ writePixels(n, c)))
    <3>1. in # <<>> /\ RunRead /\ copyFromPrev(cur - FbW, n)
        BY <1>7 DEF Copy, Opcode
    <3>2. ~(cur - FbW < 0) => cur - FbW >= 0
        BY <1>1, SizeAssumption, SizeNat
    <3> QED
        BY <3>1, <3>2 DEF copyFromPrev
  <2>2. n \in Nat
      BY <1>2, <2>1
  <2>3. ASSUME cur - FbW >= 0, writePixels(n, c) PROVE Fb
    <3>1. /\ px' = [i \in DOMAIN px |-> IF i \in span(n) THEN c(i) ELSE px[i]]
          /\ cur' = runEnd(n) /\ dirty' = TRUE
        BY <2>3 DEF writePixels
    <3>2. ASSUME NEW i \in span(n) PROVE c(i) \in Colours
      <4>1. i \in cur..(size - 1)
          BY <2>2, RunEnd
      <4>2. i \in Nat /\ i >= cur
          BY <1>1, <4>1, SizeNat
      <4> QED
          BY <2>3, <4>2, CopySource
    <3> HIDE DEF c, n
    <3>3. px' \in [0..(size - 1) -> Colours]
        BY <1>1, <3>1, <3>2
    <3> QED
        BY <2>2, <3>1, <3>3, RunEnd
  <2> QED
      BY <1>3, <1>4, <2>1, <2>3
<1>8. CASE Pattern
  <2> DEFINE n == 4 + 7 * patternTail(in)
             c(i) == IF pickBit(in, i - cur + 1) THEN prevDistinct ELSE getPixel(cur - 1)
  <2>1. in # <<>> /\ writePixels(n, c)
      BY <1>8 DEF Pattern, Opcode
  <2>2. patternTail(in) \in Nat /\ patternTail(in) < Len(in)
      BY <1>1, <2>1, PatternTail
  <2>3. n \in Nat
      BY <2>2
  <2>4. In
    <3>1. in' = SubSeq(in, 2 + patternTail(in), Len(in)) /\ dec' = dec /\ pal' = pal
        BY <1>8 DEF Pattern
    <3> QED
        BY <1>1, <2>2, <3>1, TailType
  <2>5. \A i \in span(n) : c(i) \in Colours
    <3>1. cur - 1 \in Int
        BY <1>1, SizeNat
    <3> QED
        BY <3>1, GetPixel, PrevDistinct
  <2>6. /\ px' = [i \in DOMAIN px |-> IF i \in span(n) THEN c(i) ELSE px[i]]
        /\ cur' = runEnd(n) /\ dirty' = TRUE
      BY <2>1 DEF writePixels
  <2> HIDE DEF c, n
  <2>7. Fb
      BY <1>1, <2>3, <2>5, <2>6, RunEnd
  <2> QED
      BY <2>4, <2>7
<1>9. CASE Color
  <2> DEFINE x == IF cur \in DOMAIN px THEN cur ELSE 0
             c == readColor(in)
  <2>1. in # <<>> /\ dec # "none" /\ Len(in) > colorTail
      BY <1>9 DEF Color, Opcode
  <2>2. c \in Colours
      BY <2>1, ReadColor
  <2>3. px' = [px EXCEPT ![x] = c] /\ cur' = x + 1 /\ dirty' = TRUE
      BY <1>9 DEF Color, putPixel
  <2>4. x \in 0..(size - 1)
      BY <1>1, SizeNat
  <2>5. In
    <3>1. in' = SubSeq(in, 2 + colorTail, Len(in)) /\ dec' = dec /\ pal' = pal
        BY <1>9 DEF Color
    <3>2. colorTail \in Nat
        BY DEF colorTail
    <3>3. colorTail < Len(in)
        BY <1>1, <2>1, <3>2
    <3> QED
        BY <1>1, <3>1, <3>2, <3>3, TailType
  <2> HIDE DEF x, c
  <2>6. Fb
      BY <1>1, <2>2, <2>3, <2>4, SizeNat
  <2> QED
      BY <2>5, <2>6
<1>10. CASE TruncatedColor
    BY <1>4, <1>10 DEF TruncatedColor
<1>11. CASE DecodeReturn
    BY <1>1, <1>4, <1>11 DEF DecodeReturn
<1> QED
    BY <1>5, <1>6, <1>7, <1>8, <1>9, <1>10, <1>11 DEF RawNext

\* What the next frame is made of, by its kind.
LEMMA HeadIs ==
    ASSUME TypeOK, stream # <<>>
    PROVE  /\ Head(stream) \in Frame /\ Tail(stream) \in Seq(Frame)
           /\ Head(stream).kind = "palette" =>
                Head(stream) \in [kind : {"palette"}, start : Nat, count : Nat, body : Seq(Byte)]
           /\ Head(stream).kind \in Depths =>
                Head(stream) \in [kind : Depths, origin : Nat, data : Seq(Byte)]
           /\ Head(stream).kind = "tile" =>
                Head(stream) \in [kind : {"tile"}, mode : {0, 1}, lumaQ : 0..15, chromaQ : 0..15,
                                  x : Nat, y : Nat, w : Nat, h : Nat, body : Seq({0, 1})]
<1> DEFINE f == Head(stream)
<1>1. stream \in Seq(Frame)
    BY DEF TypeOK
<1>2. f \in Frame /\ Tail(stream) \in Seq(Frame)
    BY <1>1
<1> HIDE DEF f
<1>3. "palette" \notin Depths /\ "tile" \notin Depths
    BY DEF Depths
<1> QED
    BY <1>2, <1>3 DEF Frame, f

\* handlePaletteUpdate, for every start, count and body.
LEMMA PaletteType ==
    ASSUME TypeOK, NEW start \in Nat, NEW count \in Nat, NEW body \in Seq(Byte)
    PROVE  handlePaletteUpdate(start, count, body) \in [0..(Slots - 1) -> Nat]
<1> DEFINE n == IF start + count > Slots THEN Slots - start ELSE count
           entrySize == IF Len(body) >= n * 4 THEN 4 ELSE 3
           entry(i) == IF i < start THEN 0 ELSE Black + body[(i - start) * entrySize + 1]
<1>1. pal \in [0..(Slots - 1) -> Nat]
    BY DEF TypeOK
<1>2. n \in Int /\ Len(body) \in Nat
    BY SlotsAssumption
<1>3. handlePaletteUpdate(start, count, body) =
        IF n <= 0 \/ Len(body) < n * 3 THEN pal
        ELSE [i \in DOMAIN pal |-> IF i < start + n THEN entry(i) ELSE pal[i]]
    BY DEF handlePaletteUpdate
<1> HIDE DEF n
<1>4. ASSUME n > 0, Len(body) >= n * 3, NEW i \in 0..(Slots - 1), i < start + n PROVE entry(i) \in Nat
  <2>1. CASE i < start
      BY <2>1
  <2>2. CASE i >= start
    <3>1. (i - start) * entrySize + 1 \in 1..Len(body)
      <4>1. CASE Len(body) >= n * 4
          BY <1>2, <1>4, <2>2, <4>1, SlotsAssumption
      <4>2. CASE ~(Len(body) >= n * 4)
          BY <1>2, <1>4, <2>2, <4>2, SlotsAssumption
      <4> QED
          BY <4>1, <4>2
    <3>2. body[(i - start) * entrySize + 1] \in Byte
        BY <3>1
    <3>3. body[(i - start) * entrySize + 1] \in Nat
        BY <3>2, ByteNat
    <3>4. ~(i < start)
        BY <2>2, SlotsAssumption
    <3> QED
        BY <3>3, <3>4 DEF Black
  <2> QED
      BY <2>1, <2>2, SlotsAssumption
<1> HIDE DEF entry
<1>5. ~(n <= 0) /\ ~(Len(body) < n * 3) => n > 0 /\ Len(body) >= n * 3
    BY <1>2
<1> QED
    BY <1>1, <1>3, <1>4, <1>5

---------------------------------------------------------------------------
(* The tile decoder *)

\* The grid of MCUs.
LEMMA Grid ==
    ASSUME TypeOK
    PROVE  /\ q \in Nat \ {0} /\ cols \in Nat /\ rows \in Nat
           /\ tile.w >= q => cols > 0 /\ cols * q <= tile.w
           /\ tile.h >= q => rows > 0 /\ rows * q <= tile.h
<1>1. tile.w \in Nat /\ tile.h \in Nat
    BY DEF TypeOK
<1>2. q \in Nat \ {0}
    BY BlockAssumption DEF q
<1>3. ASSUME NEW a \in Nat, NEW n \in Nat \ {0}
      PROVE  a \div n \in Nat /\ (a >= n => a \div n > 0 /\ (a \div n) * n <= a)
  <2> DEFINE d == a \div n
             r == a % n
  <2>1. d \in Nat /\ r \in 0..(n - 1) /\ a = n * d + r
      BY DivMod
  <2> HIDE DEF d, r
  <2>2. n * d = d * n /\ n * d \in Nat
      BY <2>1, Times
  <2>3. d = 0 => n * d = 0
      BY <2>1
  <2>4. d * n <= a /\ (a >= n => d # 0)
      BY <2>1, <2>2, <2>3
  <2> QED
      BY <2>1, <2>4 DEF d
<1>4. FbW \div q \in Nat /\ FbH \div q \in Nat
    BY <1>2, <1>3, SizeAssumption
<1>5. tile.w \div q \in Nat /\ (tile.w >= q => tile.w \div q > 0 /\ (tile.w \div q) * q <= tile.w)
    BY <1>1, <1>2, <1>3
<1>6. tile.h \div q \in Nat /\ (tile.h >= q => tile.h \div q > 0 /\ (tile.h \div q) * q <= tile.h)
    BY <1>1, <1>2, <1>3
<1>7. cols \in Nat /\ (tile.w >= q => cols > 0 /\ cols * q <= tile.w)
    BY <1>4, <1>5 DEF cols
<1>8. rows \in Nat /\ (tile.h >= q => rows > 0 /\ rows * q <= tile.h)
    BY <1>4, <1>6 DEF rows
<1> QED
    BY <1>2, <1>7, <1>8

\* Where an opcode puts its MCU, and what is left behind the opcode.
LEMMA OpcodeType ==
    ASSUME TypeOK
    PROVE  /\ opcode \in Nat /\ column \in Nat /\ row \in Nat
           /\ afterOpcode \in Seq({0, 1})
           /\ positioned \in BOOLEAN
           /\ ~positioned => column = jb /\ row = kb
<1>1. rest \in Seq({0, 1}) /\ jb \in Nat /\ kb \in Nat
    BY DEF TypeOK
<1>2. PosBits \in Nat
    BY BitsAssumption
<1>3. opcode \in Nat
    BY <1>1, PeekBits DEF opcode
<1>4. 4 \in Nat /\ 4 + PosBits \in Nat /\ 4 + 2 * PosBits \in Nat
    BY <1>2
<1>5. Drop(rest, 4) \in Seq({0, 1}) /\ Drop(rest, 4 + PosBits) \in Seq({0, 1}) /\ Drop(rest, 4 + 2 * PosBits) \in Seq({0, 1})
    BY <1>1, <1>4, DropType
<1>6. column \in Nat /\ row \in Nat
    BY <1>1, <1>2, <1>5, PeekBits DEF column, row
<1>7. afterOpcode \in Seq({0, 1})
    BY <1>5 DEF afterOpcode
<1> QED
    BY <1>3, <1>6, <1>7 DEF positioned, column, row

\* <<j, r>> is a place in the grid of the tile.
GridPos(j, r) == (tile.w >= q => j < cols) /\ (tile.h >= q => r < rows)

\* advancePos stays in the grid, unless a positioned opcode has left it.
LEMMA Advance ==
    ASSUME TypeOK, NEW j \in Nat, NEW r \in Nat, NEW m \in BOOLEAN, advancePos(j, r, m), m \/ GridPos(j, r)
    PROVE  /\ jb' \in Nat /\ kb' \in Nat /\ moved' \in BOOLEAN
           /\ moved' \/ ((tile.w >= q => jb' < cols) /\ (tile.h >= q => kb' < rows))
<1>1. /\ cols \in Nat /\ rows \in Nat
      /\ tile.w >= q => cols > 0
      /\ tile.h >= q => rows > 0
    BY Grid
<1>2. /\ moved' = (m /\ (j + 1 < cols \/ r + 1 < rows))
      /\ jb' = IF j + 1 >= cols THEN 0 ELSE j + 1
      /\ kb' = IF j + 1 < cols THEN r ELSE IF r + 1 >= rows THEN 0 ELSE r + 1
    BY DEF advancePos
<1>3. m \/ ((tile.w >= q => j < cols) /\ (tile.h >= q => r < rows))
    BY DEF GridPos
<1>4. jb' \in Nat /\ kb' \in Nat /\ moved' \in BOOLEAN
    BY <1>1, <1>2
<1>5. ~moved' /\ tile.w >= q => jb' < cols
    BY <1>1, <1>2, <1>3
<1>6. ~moved' /\ tile.h >= q => kb' < rows
    BY <1>1, <1>2, <1>3
<1> QED
    BY <1>4, <1>5, <1>6

\* The edge of an MCU is one block's or two blocks'.
LEMMA Edge == q \div B \in {1, 2} /\ q = (q \div B) * B /\ B \in Nat \ {0}
<1>1. B \in Nat \ {0}
    BY BlockAssumption
<1>2. (1 * B + 0) \div B = 1 /\ (2 * B + 0) \div B = 2
    BY <1>1, DivModIs
<1>3. 1 * B + 0 = B /\ 2 * B + 0 = 2 * B
    BY <1>1
<1>4. CASE mode = 1
    BY <1>1, <1>2, <1>3, <1>4 DEF q
<1>5. CASE mode # 1
    BY <1>1, <1>2, <1>3, <1>5 DEF q
<1> QED
    BY <1>4, <1>5

\* The cell of the B x B grid that a pixel of the MCU is in.
LEMMA Cell ==
    ASSUME NEW e \in {1, 2}, NEW dx \in 0..(e * B - 1), NEW dy \in 0..(e * B - 1)
    PROVE  LET i == (dy \div e) * B + dx \div e
           IN  /\ i \in 0..(B * B - 1)
               /\ dx - e * (i % B) \in 0..(e - 1)
               /\ dy - e * (i \div B) \in 0..(e - 1)
<1> DEFINE c == dy \div e
           d == dx \div e
<1>1. B \in Nat \ {0}
    BY BlockAssumption
<1>2. /\ c \in 0..(B - 1) /\ d \in 0..(B - 1)
      /\ dx - e * d \in 0..(e - 1) /\ dy - e * c \in 0..(e - 1)
  <2>1. CASE e = 1
      BY <1>1, <2>1
  <2>2. CASE e = 2
      BY <1>1, <2>2
  <2> QED
      BY <2>1, <2>2
<1> HIDE DEF c, d
<1>3. (c * B + d) % B = d /\ (c * B + d) \div B = c
    BY <1>1, <1>2, DivModIs
<1>4. c * B + d \in 0..(B * B - 1)
  <2> DEFINE bb == B * B
             cb == c * B
             lb == (B - 1) * B
  <2>1. cb \in Nat /\ lb = bb - B /\ bb \in Nat
      BY <1>1, <1>2, Times
  <2>2. cb <= lb
    <3>1. B - 1 \in Nat /\ c <= B - 1 /\ c \in Nat
        BY <1>1, <1>2
    <3> QED
        BY <1>1, <3>1, TimesLess
  <2> HIDE DEF bb, cb, lb
  <2>3. cb + d \in 0..(bb - 1)
      BY <1>1, <1>2, <2>1, <2>2
  <2> QED
      BY <2>3 DEF cb, bb
<1> QED
    BY <1>2, <1>3, <1>4 DEF c, d

\* The block of the grid of Y blocks, and the sample in it.
LEMMA BlockSample ==
    ASSUME NEW e \in {1, 2}, NEW dx \in 0..(e * B - 1), NEW dy \in 0..(e * B - 1)
    PROVE  LET a == (dy \div B) * 2 + dx \div B
               b == (dy % B) * B + (dx % B)
           IN  dx = B * (a % 2) + (b % B) /\ dy = B * (a \div 2) + b \div B
<1> DEFINE X == dx \div B
           Y == dy \div B
           x == dx % B
           y == dy % B
<1>1. B \in Nat \ {0} /\ dx \in Nat /\ dy \in Nat /\ dx < e * B
    BY BlockAssumption
<1>2. /\ X \in Nat /\ x \in 0..(B - 1) /\ dx = B * X + x
      /\ Y \in Nat /\ y \in 0..(B - 1) /\ dy = B * Y + y
    BY <1>1, DivMod
<1> HIDE DEF X, Y, x, y
<1>3. X \in 0..1
  <2> SUFFICES ASSUME X >= 2 PROVE FALSE
      BY <1>2
  <2>1. 2 * B <= X * B
      BY <1>1, <1>2, TimesLess
  <2>2. X * B = B * X
      BY <1>1, <1>2
  <2> DEFINE XB == X * B
  <2>3. XB \in Nat /\ dx = XB + x /\ 2 * B <= XB
      BY <1>1, <1>2, <2>1, <2>2, Times
  <2> HIDE DEF XB
  <2>4. dx < 2 * B
    <3>1. CASE e = 1
        BY <1>1, <3>1
    <3>2. CASE e = 2
        BY <1>1, <3>2
    <3> QED
        BY <3>1, <3>2
  <2> QED
      BY <1>1, <1>2, <2>3, <2>4
<1>4. (Y * 2 + X) % 2 = X /\ (Y * 2 + X) \div 2 = Y
    BY <1>2, <1>3
<1>5. (y * B + x) % B = x /\ (y * B + x) \div B = y
    BY <1>1, <1>2, DivModIs
<1> QED
    BY <1>2, <1>4, <1>5 DEF X, Y, x, y

\* The pixels of the screen that an MCU covers.
LEMMA Covers ==
    ASSUME NEW x \in Nat, NEW y \in Nat, NEW n \in Nat
    PROVE  LET P == {p \in (0..(n - 1)) \X (0..(n - 1)) : x + p[1] \in 0..(FbW - 1) /\ y + p[2] \in 0..(FbH - 1)}
           IN  {<<x + p[1], y + p[2]>> : p \in P} =
                   ((x..(x + n - 1)) \cap (0..(FbW - 1))) \X ((y..(y + n - 1)) \cap (0..(FbH - 1)))
<1> DEFINE P == {p \in (0..(n - 1)) \X (0..(n - 1)) : x + p[1] \in 0..(FbW - 1) /\ y + p[2] \in 0..(FbH - 1)}
           Q == {<<x + p[1], y + p[2]>> : p \in P}
           R == ((x..(x + n - 1)) \cap (0..(FbW - 1))) \X ((y..(y + n - 1)) \cap (0..(FbH - 1)))
<1>1. ASSUME NEW z \in Q PROVE z \in R
  <2>1. PICK p \in P : z = <<x + p[1], y + p[2]>>
      OBVIOUS
  <2>2. x + p[1] \in (x..(x + n - 1)) \cap (0..(FbW - 1)) /\ y + p[2] \in (y..(y + n - 1)) \cap (0..(FbH - 1))
    <3>1. p[1] \in 0..(n - 1) /\ p[2] \in 0..(n - 1) /\ x + p[1] \in 0..(FbW - 1) /\ y + p[2] \in 0..(FbH - 1)
        OBVIOUS
    <3> QED
        BY <3>1
  <2> QED
      BY <2>1, <2>2
<1>2. ASSUME NEW z \in R PROVE z \in Q
  <2> DEFINE a == z[1] - x
             b == z[2] - y
             p == <<a, b>>
  <2>1. z = <<z[1], z[2]>> /\ z[1] \in (x..(x + n - 1)) \cap (0..(FbW - 1)) /\ z[2] \in (y..(y + n - 1)) \cap (0..(FbH - 1))
      OBVIOUS
  <2>2. a \in 0..(n - 1) /\ b \in 0..(n - 1) /\ x + a = z[1] /\ y + b = z[2]
      BY <2>1
  <2> HIDE DEF a, b
  <2>3. p \in P
      BY <2>1, <2>2
  <2>4. z = <<x + p[1], y + p[2]>>
      BY <2>1, <2>2
  <2> QED
      BY <2>3, <2>4
<1> QED
    BY <1>1, <1>2

\* What holds of an MCU whose dots show, by kind, what dctSample and selector say.
LEMMA McuExact ==
    ASSUME TypeOK, mode' = mode, tile' = tile,
           NEW j \in Nat, NEW r \in Nat, NEW m \in BOOLEAN, m \/ GridPos(j, r),
           NEW kind \in {"dct", "palette"}, NEW f,
           mcu' = [kind |-> kind, x |-> tile.x + j * q, y |-> tile.y + r * q, moved |-> m, dots |-> f],
           DOMAIN f = inside(tile.x + j * q, tile.y + r * q),
           \A p \in DOMAIN f :
                /\ p[1] - (q \div B) * (f[p][3] % B) \in 0..((q \div B) - 1)
                /\ p[2] - (q \div B) * (f[p][3] \div B) \in 0..((q \div B) - 1)
                /\ kind = "dct" =>
                    p = <<B * (f[p][1] % 2) + (f[p][2] % B), B * (f[p][1] \div 2) + f[p][2] \div B>>
    PROVE  PaintExact' /\ RasterInTile'
<1> DEFINE x0 == tile.x + j * q
           y0 == tile.y + r * q
<1>1. q \in Nat \ {0} /\ tile.x \in Nat /\ tile.y \in Nat /\ tile.w \in Nat /\ tile.h \in Nat
    BY Grid DEF TypeOK
<1>2. x0 \in Nat /\ y0 \in Nat
  <2>1. j * q \in Nat /\ r * q \in Nat
      BY <1>1, Times
  <2> QED
      BY <1>1, <2>1
<1>3. q' = q
    BY DEF q
<1>4. mcu'.kind = kind /\ mcu'.x = x0 /\ mcu'.y = y0 /\ mcu'.moved = m /\ mcu'.dots = f
    OBVIOUS
<1>5. PaintExact'
  <2>1. {<<x0 + p[1], y0 + p[2]>> : p \in DOMAIN f} =
            (x0..(x0 + q - 1) \cap 0..(FbW - 1)) \X (y0..(y0 + q - 1) \cap 0..(FbH - 1))
    <3> HIDE DEF x0, y0
    <3>1. DOMAIN f = {p \in (0..(q - 1)) \X (0..(q - 1)) : x0 + p[1] \in 0..(FbW - 1) /\ y0 + p[2] \in 0..(FbH - 1)}
        BY DEF inside, x0, y0
    <3> QED
        BY <1>1, <1>2, <3>1, Covers
  <2> HIDE DEF x0, y0
  <2> QED
      BY <1>3, <1>4, <2>1 DEF PaintExact
<1>6. RasterInTile'
  <2> SUFFICES ASSUME tile.w >= q, tile.h >= q, ~m
               PROVE  x0 + q <= tile.x + tile.w /\ y0 + q <= tile.y + tile.h
      BY <1>3, <1>4 DEF RasterInTile
  <2>1. j + 1 <= cols /\ r + 1 <= rows /\ cols * q <= tile.w /\ rows * q <= tile.h /\ cols \in Nat /\ rows \in Nat
      BY Grid DEF GridPos
  <2>2. (j + 1) * q <= cols * q /\ (r + 1) * q <= rows * q
      BY <1>1, <2>1, TimesLess
  <2>3. (j + 1) * q = j * q + q /\ (r + 1) * q = r * q + q
      BY <1>1, Times
  <2>4. j * q \in Nat /\ r * q \in Nat /\ cols * q \in Nat /\ rows * q \in Nat
      BY <1>1, <2>1, Times
  <2> DEFINE jq == j * q
             rq == r * q
             cq == cols * q
             wq == rows * q
  <2>5. jq + q <= cq /\ rq + q <= wq /\ cq <= tile.w /\ wq <= tile.h
      BY <2>1, <2>2, <2>3
  <2>6. jq \in Nat /\ rq \in Nat /\ cq \in Nat /\ wq \in Nat
      BY <2>4
  <2>7. x0 = tile.x + jq /\ y0 = tile.y + rq
      OBVIOUS
  <2> HIDE DEF jq, rq, cq, wq, x0, y0
  <2> QED
      BY <1>1, <2>5, <2>6, <2>7
<1> QED
    BY <1>5, <1>6

\* The places of an MCU.
LEMMA InsideMcu ==
    ASSUME NEW x, NEW y, NEW p \in inside(x, y)
    PROVE  p[1] \in 0..((q \div B) * B - 1) /\ p[2] \in 0..((q \div B) * B - 1)
<1>1. p[1] \in 0..(q - 1) /\ p[2] \in 0..(q - 1)
    BY DEF inside
<1> QED
    BY <1>1, Edge

\* The MCU dispatchDCT paints.
LEMMA DctExact ==
    ASSUME TypeOK, mode' = mode, tile' = tile,
           NEW j \in Nat, NEW r \in Nat, NEW m \in BOOLEAN, m \/ GridPos(j, r),
           paint("dct", j, r, m, dctSample)
    PROVE  PaintExact' /\ RasterInTile'
<1> DEFINE P == inside(tile.x + j * q, tile.y + r * q)
           e == q \div B
           f == [p \in P |-> dctSample(p[1], p[2])]
<1>1. mcu' = [kind |-> "dct", x |-> tile.x + j * q, y |-> tile.y + r * q, moved |-> m, dots |-> f]
    BY DEF paint
<1>2. e \in {1, 2}
    BY Edge
<1>3. ASSUME NEW p \in P
      PROVE  /\ p[1] - e * (f[p][3] % B) \in 0..(e - 1)
             /\ p[2] - e * (f[p][3] \div B) \in 0..(e - 1)
             /\ p = <<B * (f[p][1] % 2) + (f[p][2] % B), B * (f[p][1] \div 2) + f[p][2] \div B>>
  <2> DEFINE dx == p[1]
             dy == p[2]
             a == (dy \div B) * 2 + dx \div B
             b == (dy % B) * B + (dx % B)
             i == (dy \div e) * B + dx \div e
  <2>1. dx \in 0..(e * B - 1) /\ dy \in 0..(e * B - 1)
      BY InsideMcu
  <2>2. p = <<dx, dy>>
      BY DEF inside
  <2>3. f[p][1] = a /\ f[p][2] = b /\ f[p][3] = i
      BY DEF dctSample
  <2> HIDE DEF f, dx, dy, e
  <2>4. dx - e * (i % B) \in 0..(e - 1) /\ dy - e * (i \div B) \in 0..(e - 1)
      BY <1>2, <2>1, Cell
  <2>5. dx = B * (a % 2) + (b % B) /\ dy = B * (a \div 2) + b \div B
      BY <1>2, <2>1, BlockSample
  <2> HIDE DEF a, b, i
  <2> QED
      BY <2>2, <2>3, <2>4, <2>5 DEF dx, dy
<1>4. DOMAIN f = P
    OBVIOUS
<1> HIDE DEF f
<1>5. \A p \in DOMAIN f :
        /\ p[1] - (q \div B) * (f[p][3] % B) \in 0..((q \div B) - 1)
        /\ p[2] - (q \div B) * (f[p][3] \div B) \in 0..((q \div B) - 1)
        /\ "dct" = "dct" =>
            p = <<B * (f[p][1] % 2) + (f[p][2] % B), B * (f[p][1] \div 2) + f[p][2] \div B>>
    BY <1>3, <1>4
<1> QED
    BY <1>1, <1>4, <1>5, McuExact

\* The MCU paintPaletteBlock paints.
LEMMA PaletteExact ==
    ASSUME TypeOK, mode' = mode, tile' = tile,
           NEW j \in Nat, NEW r \in Nat, NEW m \in BOOLEAN, m \/ GridPos(j, r),
           paint("palette", j, r, m, LAMBDA dx, dy : <<0, selector(dx, dy), selector(dx, dy)>>)
    PROVE  PaintExact' /\ RasterInTile'
<1> DEFINE P == inside(tile.x + j * q, tile.y + r * q)
           e == q \div B
           f == [p \in P |-> <<0, selector(p[1], p[2]), selector(p[1], p[2])>>]
<1>1. mcu' = [kind |-> "palette", x |-> tile.x + j * q, y |-> tile.y + r * q, moved |-> m, dots |-> f]
    BY DEF paint
<1>2. e \in {1, 2}
    BY Edge
<1>3. ASSUME NEW p \in P
      PROVE  /\ p[1] - e * (f[p][3] % B) \in 0..(e - 1)
             /\ p[2] - e * (f[p][3] \div B) \in 0..(e - 1)
  <2> DEFINE dx == p[1]
             dy == p[2]
             I(i) == dx - e * (i % B) \in 0..(e - 1) /\ dy - e * (i \div B) \in 0..(e - 1)
             c == selector(dx, dy)
  <2>1. dx \in 0..(e * B - 1) /\ dy \in 0..(e * B - 1)
      BY InsideMcu
  <2>2. f[p][3] = c
      OBVIOUS
  <2>3. \E i \in 0..(B * B - 1) : I(i)
      BY <1>2, <2>1, Cell
  <2>4. c = CHOOSE i \in 0..(B * B - 1) : I(i)
      BY DEF selector
  <2> HIDE DEF I
  <2>5. I(c)
      BY <2>3, <2>4
  <2> QED
      BY <2>2, <2>5 DEF I
<1>4. DOMAIN f = P
    OBVIOUS
<1> HIDE DEF f
<1>5. \A p \in DOMAIN f :
        /\ p[1] - (q \div B) * (f[p][3] % B) \in 0..((q \div B) - 1)
        /\ p[2] - (q \div B) * (f[p][3] \div B) \in 0..((q \div B) - 1)
        /\ "palette" = "dct" =>
            p = <<B * (f[p][1] % 2) + (f[p][2] % B), B * (f[p][1] \div 2) + f[p][2] \div B>>
    BY <1>3, <1>4
<1> QED
    BY <1>1, <1>4, <1>5, McuExact

\* An MCU that no positioned opcode has moved is in the grid of its tile.
InRaster == at # "idle" /\ ~moved => GridPos(jb, kb)

\* Steps that leave the last MCU and the tile alone.
LEMMA SameMcu ==
    ASSUME PaintExact, RasterInTile, UNCHANGED <<mode, tile, mcu>>
    PROVE  PaintExact' /\ RasterInTile'
<1>1. q' = q
    BY DEF q
<1> QED
    BY <1>1 DEF PaintExact, RasterInTile

\* Steps that leave the tile alone.
LEMMA SameGrid ==
    ASSUME UNCHANGED <<mode, tile>>
    PROVE  q' = q /\ cols' = cols /\ rows' = rows
<1>1. q' = q
    BY DEF q
<1> QED
    BY <1>1 DEF cols, rows

\* The palette tile of one opcode.
LEMMA PaletteBlock ==
    ASSUME TypeOK, InRaster, at = "op", UNCHANGED <<mode, tile>>,
           NEW s \in Seq({0, 1}), NEW bpp \in Nat, paintPaletteBlock(s, bpp)
    PROVE  /\ rest' \in Seq({0, 1}) /\ jb' \in Nat /\ kb' \in Nat /\ moved' \in BOOLEAN
           /\ px' \in [0..(size - 1) -> Colours] /\ dirty' \in BOOLEAN /\ cur' = cur
           /\ ~moved' => GridPos(jb, kb)'
           /\ PaintExact' /\ RasterInTile'
<1> DEFINE m == moved \/ positioned
<1>1. column \in Nat /\ row \in Nat /\ m \in BOOLEAN
    BY OpcodeType DEF TypeOK
<1>2. m \/ GridPos(column, row)
    BY OpcodeType DEF InRaster
<1>3. /\ rest' = Drop(s, B * B * bpp)
      /\ paint("palette", column, row, m, LAMBDA dx, dy : <<0, selector(dx, dy), selector(dx, dy)>>)
      /\ advancePos(column, row, m)
    BY DEF paintPaletteBlock
<1>4. rest' \in Seq({0, 1})
  <2>1. B * B * bpp \in Nat
      BY BlockAssumption, Times
  <2> QED
      BY <1>3, <2>1, DropType
<1> HIDE DEF m
<1>5. PaintExact' /\ RasterInTile'
    BY <1>1, <1>2, <1>3, PaletteExact
<1>6. /\ jb' \in Nat /\ kb' \in Nat /\ moved' \in BOOLEAN
      /\ moved' \/ ((tile.w >= q => jb' < cols) /\ (tile.h >= q => kb' < rows))
    BY <1>1, <1>2, <1>3, Advance
<1>7. ~moved' => GridPos(jb, kb)'
    BY <1>6, SameGrid DEF GridPos
<1>8. px' \in [0..(size - 1) -> Colours] /\ dirty' \in BOOLEAN /\ cur' = cur
  <2>1. Painted \in Colours
      BY DEF Colours
  <2>2. px \in [0..(size - 1) -> Colours]
      BY DEF TypeOK
  <2> QED
      BY <1>3, <2>1, <2>2 DEF paint
<1> QED
    BY <1>4, <1>5, <1>6, <1>7, <1>8

\* What a step of the tile decoder keeps.
TileTypes ==
    /\ px \in [0..(size - 1) -> Colours] /\ dirty \in BOOLEAN
    /\ at \in {"idle", "op", "dc", "ac"} /\ rest \in Seq({0, 1})
    /\ jb \in Nat /\ kb \in Nat /\ moved \in BOOLEAN
    /\ blk \in 1..6 /\ k \in 1..(B * B + MaxRun)
    /\ entropy \in 0..2

\* The tables a block is decoded with.
LEMMA BlockTables ==
    ASSUME TypeOK
    PROVE  /\ DcTab[channel] \in Table(Nat)
           /\ AcTab[channel] \in Table([r : 0..MaxRun, s : Nat])
           /\ rest \in Seq({0, 1})
<1>1. channel \in Channels
    BY DEF channel, Channels
<1> QED
    BY <1>1, TableAssumption DEF TypeOK

\* What a step of decodeDCTBlock keeps.
LEMMA DecodeBlockType ==
    ASSUME TypeOK, DecodeDC \/ Skip \/ DecodeAC \/ NextBlock
    PROVE  TileTypes' /\ at # "idle" /\ at' # "idle" /\ UNCHANGED <<px, cur, dirty, mode, quant, tile, jb, kb, moved, mcu>>
<1> USE DEF fb, params, pos
<1> DEFINE bb == B * B
<1>1. bb \in Nat \ {0} /\ MaxRun \in Nat
    BY BlockAssumption
<1>2. TileTypes /\ blk \in 1..6 /\ k \in 1..(bb + MaxRun) /\ rest \in Seq({0, 1})
    BY DEF TypeOK, TileTypes
<1>3. CASE DecodeDC
  <2> DEFINE tab == DcTab[channel]
  <2>1. /\ at = "dc" /\ at' = "ac" /\ k' = 1
        /\ rest' = IF matches(tab, rest) THEN Drop(rest, codeLength(tab, rest) + decodeHuffSymbol(tab, rest)) ELSE rest
        /\ UNCHANGED <<px, cur, dirty, mode, quant, tile, jb, kb, moved, mcu, blk, entropy>>
      BY <1>3 DEF DecodeDC
  <2>2. matches(tab, rest) => codeLength(tab, rest) \in Nat /\ decodeHuffSymbol(tab, rest) \in Nat
      BY BlockTables, TableSearch
  <2> HIDE DEF tab
  <2>3. rest' \in Seq({0, 1})
      BY <1>2, <2>1, <2>2, DropType
  <2>4. 1 \in 1..(bb + MaxRun)
      BY <1>1
  <2> QED
      BY <1>2, <2>1, <2>3, <2>4 DEF TileTypes
<1>4. CASE Skip
  <2>1. /\ at = "ac" /\ at' = at /\ k < bb /\ k' = k + 1 /\ rest' = rest
        /\ UNCHANGED <<px, cur, dirty, mode, quant, tile, jb, kb, moved, mcu, blk, entropy>>
      BY <1>4 DEF Skip
  <2> HIDE DEF bb
  <2>2. k' \in 1..(bb + MaxRun)
      BY <1>1, <1>2, <2>1
  <2> QED
      BY <1>2, <2>1, <2>2 DEF TileTypes, bb
<1>5. CASE DecodeAC
  <2> DEFINE tab == AcTab[channel]
             sym == decodeHuffSymbol(tab, rest)
             n == codeLength(tab, rest)
             s == Drop(rest, n)
  <2>1. /\ at = "ac" /\ at' = at /\ k < bb /\ matches(tab, rest)
        /\ UNCHANGED <<px, cur, dirty, mode, quant, tile, jb, kb, moved, mcu, blk, entropy>>
      BY <1>5 DEF DecodeAC
  <2>2. \/ k' = bb /\ rest' = s
        \/ k' = k + MaxRun + 1 /\ rest' = s
        \/ k' = k /\ rest' = s
        \/ k' = k + sym.r /\ rest' = s
        \/ k' = k + sym.r + 1 /\ rest' = Drop(s, sym.s)
      BY <1>5 DEF DecodeAC
  <2>3. n \in Nat /\ sym \in [r : 0..MaxRun, s : Nat]
    <3> DEFINE S == [r : 0..MaxRun, s : Nat]
    <3>1. tab \in Table(S) /\ rest \in Seq({0, 1})
        BY BlockTables
    <3> HIDE DEF tab, S
    <3>2. codeLength(tab, rest) \in Nat /\ decodeHuffSymbol(tab, rest) \in S
        BY <2>1, <3>1, TableSearch
    <3> QED
        BY <3>2 DEF S
  <2>4. sym.r \in 0..MaxRun /\ sym.s \in Nat
      BY <2>3
  <2> HIDE DEF tab, sym, n
  <2>5. s \in Seq({0, 1})
      BY <1>2, <2>3, DropType
  <2>6. Drop(s, sym.s) \in Seq({0, 1})
      BY <2>4, <2>5, DropType
  <2> HIDE DEF s, bb
  <2>7. rest' \in Seq({0, 1})
      BY <2>2, <2>5, <2>6
  <2>8. k' \in 1..(bb + MaxRun)
      BY <1>1, <1>2, <2>1, <2>2, <2>4
  <2> QED
      BY <1>2, <2>1, <2>7, <2>8 DEF TileTypes, bb
<1>6. CASE NextBlock
  <2>1. /\ at = "ac" /\ at' = "dc" /\ blk < blocks /\ blk' = blk + 1 /\ rest' = rest /\ k' = k
        /\ UNCHANGED <<px, cur, dirty, mode, quant, tile, jb, kb, moved, mcu, entropy>>
      BY <1>6 DEF NextBlock
  <2>2. blk' \in 1..6
      BY <1>2, <2>1 DEF blocks
  <2> QED
      BY <1>2, <2>1, <2>2 DEF TileTypes
<1> QED
    BY <1>3, <1>4, <1>5, <1>6

\* What a step of decodeBody keeps.
LEMMA TileStep ==
    ASSUME TypeOK, InRaster, PaintExact, RasterInTile, TileNext
    PROVE  /\ TileTypes' /\ InRaster' /\ PaintExact' /\ RasterInTile'
           /\ UNCHANGED <<cur, mode, quant, tile>>
<1> USE DEF fb, params, pos, dct
<1>1. TileTypes
    BY DEF TypeOK, TileTypes
<1>2. CASE DecodeEnd
  <2>1. /\ at' = "idle" /\ rest' = <<>>
        /\ UNCHANGED <<px, cur, dirty, mode, quant, tile, jb, kb, moved, mcu, blk, k, entropy>>
      BY <1>2 DEF DecodeEnd
  <2> QED
      BY <1>1, <2>1, SameMcu DEF TileTypes, InRaster
<1>3. CASE StartDCT
  <2>1. /\ at = "op" /\ at' = "dc" /\ blk' = 1
        /\ jb' = column /\ kb' = row /\ moved' = (moved \/ positioned) /\ rest' = afterOpcode
        /\ UNCHANGED <<px, cur, dirty, mode, quant, tile, mcu, k, entropy>>
      BY <1>3 DEF StartDCT, Reading
  <2>2. TileTypes'
      BY <1>1, <2>1, OpcodeType DEF TileTypes
  <2>3. InRaster'
    <3>1. ~moved' => ~moved /\ jb' = jb /\ kb' = kb
        BY <2>1, OpcodeType
    <3> QED
        BY <2>1, <3>1, SameGrid DEF InRaster, GridPos
  <2> QED
      BY <2>1, <2>2, <2>3, SameMcu
<1>4. CASE PaintCached
  <2>1. /\ at = "op" /\ at' = at /\ paintPaletteBlock(afterOpcode, entropy)
        /\ UNCHANGED <<mode, quant, tile, blk, k, entropy>>
      BY <1>4 DEF PaintCached, Reading
  <2>2. afterOpcode \in Seq({0, 1}) /\ entropy \in Nat
      BY <1>1, OpcodeType DEF TileTypes
  <2>3. /\ rest' \in Seq({0, 1}) /\ jb' \in Nat /\ kb' \in Nat /\ moved' \in BOOLEAN
        /\ px' \in [0..(size - 1) -> Colours] /\ dirty' \in BOOLEAN /\ cur' = cur
        /\ ~moved' => GridPos(jb, kb)'
        /\ PaintExact' /\ RasterInTile'
      BY <2>1, <2>2, PaletteBlock
  <2> QED
      BY <1>1, <2>1, <2>3 DEF TileTypes, InRaster
<1>5. CASE PaletteRefresh
  <2> DEFINE e == (opcode % 8) - 5
             s == loadSlots(afterOpcode, pow2[e])
  <2>1. /\ at = "op" /\ at' = at /\ opcode \in {5, 6, 7, 13, 14, 15} /\ entropy' = e /\ paintPaletteBlock(s, e)
        /\ UNCHANGED <<mode, quant, tile, blk, k>>
      BY <1>5 DEF PaletteRefresh, Reading
  <2>2. e \in 0..2
      BY <2>1
  <2> HIDE DEF e
  <2>3. pow2[e] \in Nat /\ e \in Nat
      BY <2>2, Pow2
  <2>4. s \in Seq({0, 1})
      BY <2>3, OpcodeType, LoadSlots
  <2> HIDE DEF s
  <2>5. /\ rest' \in Seq({0, 1}) /\ jb' \in Nat /\ kb' \in Nat /\ moved' \in BOOLEAN
        /\ px' \in [0..(size - 1) -> Colours] /\ dirty' \in BOOLEAN /\ cur' = cur
        /\ ~moved' => GridPos(jb, kb)'
        /\ PaintExact' /\ RasterInTile'
      BY <2>1, <2>3, <2>4, PaletteBlock
  <2> QED
      BY <1>1, <2>1, <2>2, <2>5 DEF TileTypes, InRaster
<1>6. CASE DecodeDC \/ Skip \/ DecodeAC \/ NextBlock
  <2>1. /\ TileTypes' /\ at # "idle"
        /\ UNCHANGED <<px, cur, dirty, mode, quant, tile, jb, kb, moved, mcu>>
      BY <1>6, DecodeBlockType
  <2>2. InRaster'
      BY <2>1, SameGrid DEF InRaster, GridPos
  <2> QED
      BY <2>1, <2>2, SameMcu
<1>7. CASE PaintDCT
  <2>1. /\ at = "ac" /\ at' = "op" /\ paint("dct", jb, kb, moved, dctSample) /\ advancePos(jb, kb, moved)
        /\ UNCHANGED <<rest, mode, quant, tile, blk, k, entropy>>
      BY <1>7 DEF PaintDCT
  <2>2. jb \in Nat /\ kb \in Nat /\ moved \in BOOLEAN /\ (moved \/ GridPos(jb, kb))
      BY <1>1, <2>1 DEF TileTypes, InRaster
  <2>3. PaintExact' /\ RasterInTile'
      BY <2>1, <2>2, DctExact
  <2>4. /\ jb' \in Nat /\ kb' \in Nat /\ moved' \in BOOLEAN
        /\ moved' \/ ((tile.w >= q => jb' < cols) /\ (tile.h >= q => kb' < rows))
      BY <2>1, <2>2, Advance
  <2>5. InRaster'
      BY <2>1, <2>4, SameGrid DEF InRaster, GridPos
  <2>6. px' \in [0..(size - 1) -> Colours] /\ dirty' \in BOOLEAN /\ cur' = cur
    <3>1. Painted \in Colours
        BY DEF Colours
    <3> QED
        BY <1>1, <2>1, <3>1 DEF paint, TileTypes
  <2> QED
      BY <1>1, <2>1, <2>3, <2>4, <2>5, <2>6 DEF TileTypes
<1> QED
    BY <1>2, <1>3, <1>4, <1>5, <1>6, <1>7 DEF TileNext

---------------------------------------------------------------------------
(* The invariant *)

\* b.fbMu: one decoder works at a time.
OneDecoder == dec = "none" \/ at = "idle"

IInv == TypeOK /\ OneDecoder /\ InRaster /\ PaintExact /\ RasterInTile

\* NewFramebuffer and NewAvocentDecoder.
LEMMA InitIInv == Init => IInv
<1> SUFFICES ASSUME Init PROVE IInv
    OBVIOUS
<1> USE DEF Init, FbInit, RawInit, TileInit
<1>1. px \in [0..(size - 1) -> Colours] /\ cur \in 0..size
  <2>1. 0 \in Colours /\ 0 \in 0..size
      BY SizeNat DEF Colours
  <2> QED
      BY <2>1
<1>2. stream \in Seq(Frame) /\ dec \in Depths \cup {"none"} /\ in \in Seq(Byte)
    BY StreamsAssumption
<1>3. pal \in [0..(Slots - 1) -> Nat]
    BY SlotsAssumption DEF paletteC7, Black
<1>4. /\ at \in {"idle", "op", "dc", "ac"} /\ rest \in Seq({0, 1}) /\ mode \in {0, 1}
      /\ quant \in [Channels -> 0..7]
      /\ tile \in [x : Nat, y : Nat, w : Nat, h : Nat]
    BY DEF Channels
<1>5. jb \in Nat /\ kb \in Nat /\ blk \in 1..6 /\ entropy \in 0..2
  <2>1. 0 \in Nat /\ 1 \in 1..6 /\ 0 \in 0..2
      OBVIOUS
  <2> QED
      BY <2>1
<1>6. moved \in BOOLEAN /\ dirty \in BOOLEAN
    BY Zenon
<1>7. k \in 1..(B * B + MaxRun)
  <2>1. B * B \in Nat \ {0}
      BY BlockAssumption
  <2> QED
      BY <2>1, BlockAssumption
<1>8. TypeOK
    BY <1>1, <1>2, <1>3, <1>4, <1>5, <1>6, <1>7 DEF TypeOK
<1>9. PaintExact /\ RasterInTile
    BY DEF PaintExact, RasterInTile, NoMcu
<1> QED
    BY <1>8, <1>9 DEF IInv, OneDecoder, InRaster

\* DecodePacket starts at the corner of the tile it is given, with no MCU yet.
LEMMA PacketKeeps ==
    ASSUME IInv, AvoTile
    PROVE  IInv'
<1> DEFINE p == Head(stream)
           body == SubSeq(p.body, 1, (Len(p.body) \div WordBits) * WordBits)
<1>1. TypeOK /\ OneDecoder /\ InRaster
    BY DEF IInv
<1>2. stream # <<>> /\ p.kind = "tile" /\ stream' = Tail(stream) /\ DecodePacket(p) /\ UNCHANGED <<dec, in, pal>>
    BY DEF AvoTile, Comes, raw
<1>3. /\ p \in [kind : {"tile"}, mode : {0, 1}, lumaQ : 0..15, chromaQ : 0..15,
                x : Nat, y : Nat, w : Nat, h : Nat, body : Seq({0, 1})]
      /\ stream' \in Seq(Frame)
    BY <1>1, <1>2, HeadIs
<1> HIDE DEF p
<1>4. /\ p.mode \in {0, 1} /\ p.lumaQ \in 0..15 /\ p.chromaQ \in 0..15 /\ p.body \in Seq({0, 1})
      /\ p.x \in Nat /\ p.y \in Nat /\ p.w \in Nat /\ p.h \in Nat
    BY <1>3
<1>5. body \in Seq({0, 1})
  <2> DEFINE d == Len(p.body) \div WordBits
             r == Len(p.body) % WordBits
  <2>1. Len(p.body) \in Nat /\ WordBits \in Nat \ {0}
      BY <1>4, BitsAssumption
  <2>2. d \in Nat /\ r \in 0..(WordBits - 1) /\ Len(p.body) = WordBits * d + r
      BY <2>1, DivMod
  <2> HIDE DEF d, r
  <2>3. WordBits * d = d * WordBits /\ WordBits * d \in Nat
      BY <2>1, <2>2, Times
  <2>4. d * WordBits \in Nat /\ d * WordBits <= Len(p.body)
      BY <2>1, <2>2, <2>3
  <2>5. ASSUME NEW s \in Seq({0, 1}), NEW m \in Nat, m <= Len(s) PROVE SubSeq(s, 1, m) \in Seq({0, 1})
      BY <2>5
  <2>6. SubSeq(p.body, 1, d * WordBits) \in Seq({0, 1})
      BY <1>4, <2>4, <2>5
  <2> QED
      BY <2>6 DEF d
<1> HIDE DEF body
<1>6. /\ at = "idle" /\ mode' = p.mode
      /\ quant' = [luma |-> tableOf(p.lumaQ), chroma |-> tableOf(p.chromaQ)]
      /\ mcu' = NoMcu
      /\ UNCHANGED <<px, cur, dirty, blk, k, entropy>>
      /\ \/ UNCHANGED <<at, rest, tile, jb, kb, moved>>
         \/ /\ at' = "op" /\ rest' = body
            /\ tile' = [x |-> p.x, y |-> p.y, w |-> p.w, h |-> p.h]
            /\ jb' = 0 /\ kb' = 0 /\ moved' = FALSE
    BY <1>2 DEF DecodePacket, fb, dct, pos, body
<1>7. quant' \in [Channels -> 0..7]
  <2>1. tableOf(p.lumaQ) \in 0..7 /\ tableOf(p.chromaQ) \in 0..7
    <3>1. ASSUME NEW v \in 0..15 PROVE tableOf(v) \in 0..7
        BY DEF tableOf
    <3> QED
        BY <1>4, <3>1
  <2> QED
      BY <1>6, <2>1 DEF Channels
<1>8. /\ at' \in {"idle", "op", "dc", "ac"} /\ rest' \in Seq({0, 1})
      /\ tile' \in [x : Nat, y : Nat, w : Nat, h : Nat]
      /\ jb' \in Nat /\ kb' \in Nat /\ moved' \in BOOLEAN
  <2>1. /\ at \in {"idle", "op", "dc", "ac"} /\ rest \in Seq({0, 1})
        /\ tile \in [x : Nat, y : Nat, w : Nat, h : Nat]
        /\ jb \in Nat /\ kb \in Nat /\ moved \in BOOLEAN
      BY <1>1 DEF TypeOK
  <2>2. CASE UNCHANGED <<at, rest, tile, jb, kb, moved>>
      BY <2>1, <2>2
  <2>3. CASE /\ at' = "op" /\ rest' = body
             /\ tile' = [x |-> p.x, y |-> p.y, w |-> p.w, h |-> p.h]
             /\ jb' = 0 /\ kb' = 0 /\ moved' = FALSE
    <3>1. moved' \in BOOLEAN
        BY <2>3, Zenon
    <3>2. tile' \in [x : Nat, y : Nat, w : Nat, h : Nat] /\ jb' \in Nat /\ kb' \in Nat
        BY <1>4, <2>3
    <3> QED
        BY <1>5, <2>3, <3>1, <3>2
  <2> QED
      BY <1>6, <2>2, <2>3
<1>9. TypeOK'
  <2>1. /\ px \in [0..(size - 1) -> Colours] /\ cur \in 0..size /\ dirty \in BOOLEAN
        /\ dec \in Depths \cup {"none"} /\ in \in Seq(Byte) /\ pal \in [0..(Slots - 1) -> Nat]
        /\ blk \in 1..6 /\ k \in 1..(B * B + MaxRun) /\ entropy \in 0..2
      BY <1>1 DEF TypeOK
  <2>2. mode' \in {0, 1}
      BY <1>4, <1>6
  <2> QED
      BY <1>2, <1>3, <1>6, <1>7, <1>8, <2>1, <2>2 DEF TypeOK
<1>10. InRaster'
  <2>1. CASE UNCHANGED <<at, rest, tile, jb, kb, moved>>
      BY <1>6, <2>1 DEF InRaster
  <2>2. CASE jb' = 0 /\ kb' = 0
    <3>1. q' \in Nat \ {0} /\ cols' \in Nat /\ rows' \in Nat /\ tile'.w \in Nat /\ tile'.h \in Nat
          /\ (tile'.w >= q' => cols' > 0) /\ (tile'.h >= q' => rows' > 0)
      <4>1. TypeOK' => (/\ q \in Nat \ {0} /\ cols \in Nat /\ rows \in Nat
                        /\ tile.w >= q => cols > 0 /\ cols * q <= tile.w
                        /\ tile.h >= q => rows > 0 /\ rows * q <= tile.h)'
          BY Grid, PTL
      <4> QED
          BY <1>8, <1>9, <4>1
    <3> QED
        BY <2>2, <3>1 DEF InRaster, GridPos
  <2> QED
      BY <1>6, <2>1, <2>2
<1>11. PaintExact' /\ RasterInTile'
    BY <1>6 DEF PaintExact, RasterInTile, NoMcu
<1>12. OneDecoder'
    BY <1>2 DEF AvoTile, Comes, Idle, OneDecoder
<1> QED
    BY <1>9, <1>10, <1>11, <1>12 DEF IInv

\* Every step keeps the invariant.
LEMMA NextIInv == ASSUME IInv, [Next]_vars PROVE IInv'
<1> DEFINE Fb == px \in [0..(size - 1) -> Colours] /\ cur \in 0..size /\ dirty \in BOOLEAN
           Raw == dec \in Depths \cup {"none"} /\ in \in Seq(Byte) /\ pal \in [0..(Slots - 1) -> Nat]
           Avo == mode \in {0, 1} /\ quant \in [Channels -> 0..7] /\ tile \in [x : Nat, y : Nat, w : Nat, h : Nat]
<1>1. TypeOK /\ OneDecoder /\ InRaster /\ PaintExact /\ RasterInTile
    BY DEF IInv
<1>2. Fb /\ Raw /\ Avo /\ TileTypes /\ stream \in Seq(Frame)
    BY <1>1 DEF TypeOK, TileTypes
<1>3. Fb' /\ Raw' /\ Avo' /\ TileTypes' /\ stream' \in Seq(Frame) => TypeOK'
    BY DEF TypeOK, TileTypes
<1>4. ASSUME UNCHANGED avo PROVE Avo' /\ InRaster' /\ PaintExact' /\ RasterInTile' /\ at' = at
  <2>1. UNCHANGED <<at, rest, mode, quant, tile, jb, kb, moved, blk, k, entropy, mcu>>
      BY <1>4 DEF avo, params, pos, dct
  <2> QED
      BY <1>1, <1>2, <2>1, SameMcu, SameGrid DEF InRaster, GridPos
<1>5. ASSUME UNCHANGED avo, Fb' PROVE TileTypes'
  <2>1. UNCHANGED <<at, rest, mode, quant, tile, jb, kb, moved, blk, k, entropy, mcu>>
      BY <1>5 DEF avo, params, pos, dct
  <2> QED
      BY <1>2, <1>5, <2>1 DEF TileTypes
<1>6. CASE UNCHANGED vars
  <2>1. UNCHANGED <<px, cur, dirty, dec, in, pal, stream>> /\ UNCHANGED avo
      BY <1>6 DEF vars, fb, raw
  <2> QED
      BY <1>1, <1>2, <1>3, <1>4, <1>5, <2>1 DEF IInv, OneDecoder
<1>7. CASE PaletteUpdate
  <2> DEFINE f == Head(stream)
  <2>1. /\ stream # <<>> /\ f.kind = "palette" /\ stream' = Tail(stream)
        /\ pal' = handlePaletteUpdate(f.start, f.count, f.body)
        /\ UNCHANGED <<px, cur, dirty, dec, in>> /\ UNCHANGED avo
      BY <1>7 DEF PaletteUpdate, Comes, fb
  <2>2. f \in [kind : {"palette"}, start : Nat, count : Nat, body : Seq(Byte)] /\ stream' \in Seq(Frame)
      BY <1>1, <2>1, HeadIs
  <2> HIDE DEF f
  <2>3. f.start \in Nat /\ f.count \in Nat /\ f.body \in Seq(Byte)
      BY <2>2
  <2>4. pal' \in [0..(Slots - 1) -> Nat]
      BY <1>1, <2>1, <2>3, PaletteType
  <2> QED
      BY <1>1, <1>2, <1>3, <1>4, <1>5, <2>1, <2>2, <2>4 DEF IInv, OneDecoder
<1>8. CASE RawTile
  <2> DEFINE f == Head(stream)
  <2>1. /\ stream # <<>> /\ f.kind \in Depths /\ stream' = Tail(stream) /\ at = "idle"
        /\ cur' = IF f.origin < size THEN f.origin ELSE cur
        /\ dec' = f.kind /\ in' = f.data
        /\ UNCHANGED <<px, dirty, pal>> /\ UNCHANGED avo
      BY <1>8 DEF RawTile, Comes, Idle
  <2>2. f \in [kind : Depths, origin : Nat, data : Seq(Byte)] /\ stream' \in Seq(Frame)
      BY <1>1, <2>1, HeadIs
  <2> HIDE DEF f
  <2>3. f.origin \in Nat /\ f.data \in Seq(Byte)
      BY <2>2
  <2>4. cur' \in 0..size
      BY <1>2, <2>1, <2>3, SizeNat
  <2>5. Fb' /\ Raw'
      BY <1>2, <2>1, <2>3, <2>4
  <2> QED
      BY <1>3, <1>4, <1>5, <2>1, <2>2, <2>5 DEF IInv, OneDecoder
<1>9. CASE AvoTile
    BY <1>9, PacketKeeps
<1>10. CASE Push
  <2>1. UNCHANGED <<px, cur, dec, in, pal, stream>> /\ UNCHANGED avo /\ dirty' = FALSE
      BY <1>10 DEF Push, raw
  <2>2. dirty' \in BOOLEAN
      BY <2>1, Zenon
  <2> QED
      BY <1>1, <1>2, <1>3, <1>4, <1>5, <2>1, <2>2 DEF IInv, OneDecoder
<1>11. CASE RawNext /\ UNCHANGED <<stream, avo>>
  <2>1. dec # "none"
      BY <1>11 DEF RawNext, Noop, Repeat, Copy, Pattern, Color, TruncatedColor, DecodeReturn, Opcode
  <2>2. UNCHANGED avo /\ stream' = stream /\ at = "idle"
      BY <1>1, <1>11, <2>1 DEF OneDecoder
  <2>3. Fb' /\ Raw'
      BY <1>1, <1>2, <1>11, RawType
  <2> QED
      BY <1>2, <1>3, <1>4, <1>5, <2>2, <2>3 DEF IInv, OneDecoder
<1>12. CASE TileNext /\ UNCHANGED <<stream, raw>>
  <2>1. /\ TileTypes' /\ InRaster' /\ PaintExact' /\ RasterInTile'
        /\ UNCHANGED <<cur, mode, quant, tile>>
      BY <1>1, <1>12, TileStep
  <2>2. UNCHANGED <<stream, dec, in, pal>>
      BY <1>12 DEF raw
  <2>3. dec = "none"
    <3>1. at # "idle"
        BY <1>12 DEF TileNext, DecodeEnd, StartDCT, PaintCached, PaletteRefresh, DecodeDC, Skip, DecodeAC, NextBlock,
                     PaintDCT, Reading
    <3> QED
        BY <1>1, <3>1 DEF OneDecoder
  <2>4. Fb' /\ Raw' /\ Avo'
      BY <1>2, <2>1, <2>2 DEF TileTypes
  <2> QED
      BY <1>2, <1>3, <2>1, <2>2, <2>3, <2>4 DEF IInv, OneDecoder
<1> QED
    BY <1>6, <1>7, <1>8, <1>9, <1>10, <1>11, <1>12 DEF Next, Decoding

---------------------------------------------------------------------------
(* What the decoders write *)

\* What a write at the cursor leaves alone.
Forward ==
    \A i \in DOMAIN px :
        px'[i] # px[i] => i \in cur..(cur' - 1) \/ (cur \notin DOMAIN px /\ i = 0 /\ cur' = 1)

\* The run-length operations write where the cursor passes and mark the buffer.
LEMMA RawWrites ==
    ASSUME IInv, RawNext
    PROVE  /\ DOMAIN px' = DOMAIN px
           /\ px' # px => dirty' /\ dec # "none" /\ Forward
<1> USE DEF fb
<1>2. CASE Noop \/ TruncatedColor \/ DecodeReturn
    BY <1>2 DEF Noop, TruncatedColor, DecodeReturn
<1>3. CASE Repeat
  <2>1. dec # "none"
      BY <1>3 DEF Repeat, Opcode
  <2>2. CASE px' = px
      BY <2>2
  <2>3. CASE writePixels(readRunLength(in), LAMBDA i : getPixel(cur - 1))
      BY <2>1, <2>3 DEF writePixels, span, Forward
  <2> QED
      BY <1>3, <2>2, <2>3 DEF Repeat, repeatColor
<1>4. CASE Copy
  <2>1. dec # "none"
      BY <1>4 DEF Copy, Opcode
  <2>2. CASE px' = px
      BY <2>2
  <2>3. CASE writePixels(readRunLength(in), LAMBDA i : px[(cur - FbW) + ((i - cur) % (cur - (cur - FbW)))])
      BY <2>1, <2>3 DEF writePixels, span, Forward
  <2> QED
      BY <1>4, <2>2, <2>3 DEF Copy, copyFromPrev
<1>5. CASE Pattern
    BY <1>5 DEF Pattern, Opcode, writePixels, span, Forward
<1>6. CASE Color
  <2> DEFINE x == IF cur \in DOMAIN px THEN cur ELSE 0
  <2>1. dec # "none" /\ px' = [px EXCEPT ![x] = readColor(in)] /\ cur' = x + 1 /\ dirty' = TRUE
      BY <1>6 DEF Color, Opcode, putPixel
  <2>2. DOMAIN px' = DOMAIN px /\ \A i \in DOMAIN px : px'[i] # px[i] => i = x
      BY <2>1
  <2>3. CASE cur \in DOMAIN px
    <3>1. cur \in Nat
        BY SizeNat DEF IInv, TypeOK
    <3>2. x = cur /\ cur \in cur..(cur' - 1)
        BY <2>1, <2>3, <3>1
    <3> QED
        BY <2>1, <2>2, <3>2 DEF Forward
  <2>4. CASE cur \notin DOMAIN px
      BY <2>1, <2>2, <2>4 DEF Forward
  <2> QED
      BY <2>3, <2>4
<1> QED
    BY <1>2, <1>3, <1>4, <1>5, <1>6 DEF RawNext

\* The tile decoder marks the buffer when it paints.
LEMMA TileWrites ==
    ASSUME IInv, TileNext
    PROVE  DOMAIN px' = DOMAIN px /\ at # "idle" /\ (px' # px => dirty')
<1> USE DEF fb
<1>1. CASE DecodeEnd \/ StartDCT \/ DecodeDC \/ Skip \/ DecodeAC \/ NextBlock
    BY <1>1 DEF DecodeEnd, StartDCT, DecodeDC, Skip, DecodeAC, NextBlock, Reading
<1>2. CASE PaintCached
    BY <1>2 DEF PaintCached, Reading, paintPaletteBlock, paint
<1>3. CASE PaletteRefresh
    BY <1>3 DEF PaletteRefresh, Reading, paintPaletteBlock, paint
<1>4. CASE PaintDCT
    BY <1>4 DEF PaintDCT, paint
<1> QED
    BY <1>1, <1>2, <1>3, <1>4 DEF TileNext

---------------------------------------------------------------------------
(* Decoding ends.  What is left of a frame, the most significant part       *)
(* first: the bytes of a run-length tile, the bits of an Avocent tile, the  *)
(* MCU that is open, its blocks, and the coefficients of the block.         *)

bytesLeft == IF dec = "none" THEN 0 ELSE Len(in) + 1
bitsLeft == Len(rest)
phase == IF at = "idle" THEN 0 ELSE IF at = "op" THEN 1 ELSE 2
blocksLeft == IF phase = 2 THEN blocks - blk ELSE 0
coefficientsLeft == IF at = "dc" THEN B * B + MaxRun + 1 ELSE IF at = "ac" THEN (B * B + MaxRun) - k ELSE 0

left == <<bytesLeft, bitsLeft, phase, blocksLeft, coefficientsLeft>>

\* Some part is less than it was, and the more significant ones are as they were.
Shrinks ==
    \/ bytesLeft' < bytesLeft
    \/ UNCHANGED bytesLeft /\ bitsLeft' < bitsLeft
    \/ UNCHANGED <<bytesLeft, bitsLeft>> /\ phase' < phase
    \/ UNCHANGED <<bytesLeft, bitsLeft, phase>> /\ blocksLeft' < blocksLeft
    \/ UNCHANGED <<bytesLeft, bitsLeft, phase, blocksLeft>> /\ coefficientsLeft' < coefficientsLeft

\* A block belongs to its MCU.
BlockInMcu == phase = 2 => blk <= blocks

\* Every opcode and every state of a block has a case in the code.
Handled ==
    /\ dec # "none" => in = <<>> \/ Family(in[1]) \in 0..7
    /\ at = "op" => rest = <<>> \/ opcode \in 0..15
    /\ at = "ac" => k < B * B \/ blk < blocks \/ blk = blocks

\* blocks is the number of blocks of an MCU.
LEMMA Blocks == blocks \in 3..6
    BY DEF blocks

\* A step keeps a block in its MCU.
LEMMA NextBlockInMcu == ASSUME TypeOK, BlockInMcu, [Next]_vars PROVE BlockInMcu'
<1> USE DEF phase, params, dct
<1>1. blk \in 1..6 /\ blocks \in 3..6 /\ at \in {"idle", "op", "dc", "ac"}
    BY Blocks DEF TypeOK
<1>2. ASSUME UNCHANGED mode PROVE blocks' = blocks
    BY <1>2 DEF blocks
<1>3. CASE PaletteUpdate \/ RawTile \/ Push \/ UNCHANGED vars \/ (RawNext /\ UNCHANGED <<stream, avo>>)
  <2>1. UNCHANGED <<at, blk, mode>>
      BY <1>3 DEF PaletteUpdate, RawTile, Push, vars, avo
  <2> QED
      BY <1>2, <2>1 DEF BlockInMcu
<1>4. CASE AvoTile
  <2>1. at' \in {"idle", "op"}
      BY <1>4 DEF AvoTile, DecodePacket
  <2> QED
      BY <2>1 DEF BlockInMcu
<1>5. CASE DecodeEnd \/ PaintCached \/ PaletteRefresh \/ PaintDCT
  <2>1. at' \in {"idle", "op"}
      BY <1>5 DEF DecodeEnd, PaintCached, PaletteRefresh, PaintDCT, Reading
  <2> QED
      BY <2>1 DEF BlockInMcu
<1>6. CASE StartDCT
  <2>1. blk' = 1 /\ UNCHANGED mode
      BY <1>6 DEF StartDCT
  <2> QED
      BY <1>1, <1>2, <2>1 DEF BlockInMcu
<1>7. CASE DecodeDC \/ Skip \/ DecodeAC
  <2>1. at \in {"dc", "ac"} /\ UNCHANGED <<blk, mode>>
      BY <1>7 DEF DecodeDC, Skip, DecodeAC
  <2> QED
      BY <1>2, <2>1 DEF BlockInMcu
<1>8. CASE NextBlock
  <2>1. blk < blocks /\ blk' = blk + 1 /\ UNCHANGED mode
      BY <1>8 DEF NextBlock
  <2> QED
      BY <1>1, <1>2, <2>1 DEF BlockInMcu
<1> QED
    BY <1>3, <1>4, <1>5, <1>6, <1>7, <1>8 DEF Next, Decoding, TileNext

\* The parts of left are numbers.
LEMMA LeftType == ASSUME TypeOK, BlockInMcu PROVE left \in Nat \X Nat \X Nat \X Nat \X Nat
<1>1. bytesLeft \in Nat /\ bitsLeft \in Nat /\ phase \in Nat
  <2>1. Len(in) \in Nat /\ Len(rest) \in Nat
      BY DEF TypeOK
  <2> QED
      BY <2>1 DEF bytesLeft, bitsLeft, phase
<1>2. blocksLeft \in Nat
  <2>1. blk \in 1..6
      BY DEF TypeOK
  <2> QED
      BY <2>1, Blocks DEF blocksLeft, BlockInMcu
<1>3. coefficientsLeft \in Nat
  <2> DEFINE bb == B * B
  <2>1. bb \in Nat /\ MaxRun \in Nat /\ k \in 1..(bb + MaxRun)
      BY BlockAssumption DEF TypeOK
  <2>2. coefficientsLeft = IF at = "dc" THEN bb + MaxRun + 1 ELSE IF at = "ac" THEN (bb + MaxRun) - k ELSE 0
      BY DEF coefficientsLeft
  <2> HIDE DEF bb
  <2> QED
      BY <2>1, <2>2
<1> QED
    BY <1>1, <1>2, <1>3 DEF left

\* A turn of the loop of Decode consumes a byte, or is the last.
LEMMA RawShrinks ==
    ASSUME TypeOK, RawNext
    PROVE  bytesLeft' < bytesLeft
<1>1. in \in Seq(Byte) /\ Len(in) \in Nat
    BY DEF TypeOK
<1>2. ASSUME NEW n \in Nat, n < Len(in), in' = SubSeq(in, 2 + n, Len(in)), dec # "none", dec' = dec
      PROVE  bytesLeft' < bytesLeft
  <2>1. Len(SubSeq(in, 2 + n, Len(in))) \in Nat /\ Len(SubSeq(in, 2 + n, Len(in))) < Len(in)
    <3>1. ASSUME NEW s \in Seq(Byte), n < Len(s)
          PROVE  Len(SubSeq(s, 2 + n, Len(s))) = IF 2 + n <= Len(s) THEN Len(s) - (1 + n) ELSE 0
        BY <3>1
    <3> QED
        BY <1>1, <1>2, <3>1
  <2> QED
      BY <1>1, <1>2, <2>1 DEF bytesLeft
<1>3. CASE Noop \/ Repeat \/ Copy
  <2>1. dec # "none" /\ in # <<>> /\ RunRead
      BY <1>3 DEF Noop, Repeat, Copy, Opcode
  <2>2. continued(in) \in Nat /\ continued(in) < Len(in)
      BY <1>1, <2>1, Continued
  <2> QED
      BY <1>2, <2>1, <2>2 DEF RunRead
<1>4. CASE Pattern
  <2>1. dec # "none" /\ in # <<>> /\ dec' = dec /\ in' = SubSeq(in, 2 + patternTail(in), Len(in))
      BY <1>4 DEF Pattern, Opcode
  <2>2. patternTail(in) \in Nat /\ patternTail(in) < Len(in)
      BY <1>1, <2>1, PatternTail
  <2> QED
      BY <1>2, <2>1, <2>2
<1>5. CASE Color
  <2>1. dec # "none" /\ dec' = dec /\ Len(in) > colorTail /\ in' = SubSeq(in, 2 + colorTail, Len(in))
      BY <1>5 DEF Color, Opcode
  <2>2. colorTail \in Nat
      BY DEF colorTail
  <2>3. colorTail < Len(in)
      BY <1>1, <2>1, <2>2
  <2> QED
      BY <1>2, <2>1, <2>2, <2>3
<1>6. CASE TruncatedColor \/ DecodeReturn
  <2>1. dec # "none" /\ dec' = "none"
      BY <1>6 DEF TruncatedColor, DecodeReturn, Opcode
  <2> QED
      BY <1>1, <2>1 DEF bytesLeft
<1> QED
    BY <1>3, <1>4, <1>5, <1>6 DEF RawNext

\* An opcode consumes its bits.
LEMMA OpcodeShrinks ==
    ASSUME TypeOK, rest # <<>>
    PROVE  Len(afterOpcode) \in Nat /\ Len(afterOpcode) < Len(rest)
<1>1. rest \in Seq({0, 1}) /\ PosBits \in Nat
    BY BitsAssumption DEF TypeOK
<1>2. PICK n \in Nat : n > 0 /\ afterOpcode = Drop(rest, n)
  <2>1. 4 \in Nat /\ 4 + 2 * PosBits \in Nat /\ 4 > 0 /\ 4 + 2 * PosBits > 0
      BY <1>1
  <2> QED
      BY <2>1 DEF afterOpcode
<1> QED
    BY <1>1, <1>2, DropLen

\* A palette tile consumes no bits that were not there.
LEMMA PaletteShrinks ==
    ASSUME TypeOK, NEW s \in Seq({0, 1}), NEW bpp \in Nat, paintPaletteBlock(s, bpp)
    PROVE  Len(rest') \in Nat /\ Len(rest') <= Len(s)
<1>1. B * B * bpp \in Nat
    BY BlockAssumption, Times
<1>2. rest' = Drop(s, B * B * bpp)
    BY DEF paintPaletteBlock
<1> QED
    BY <1>1, <1>2, DropLen

\* A code has a bit at least.
LEMMA CodeLength ==
    ASSUME NEW S, NEW tab \in Table(S), NEW s \in Seq({0, 1}), matches(tab, s)
    PROVE  codeLength(tab, s) \in Nat \ {0}
<1>1. codeIndex(tab, s) \in Candidates(tab, s) /\ codeLength(tab, s) = LengthOf(tab, codeIndex(tab, s))
    BY TableSearch
<1>2. codeIndex(tab, s) \in 1..Len(tab.vals)
    BY <1>1 DEF Candidates
<1>3. LengthOf(tab, codeIndex(tab, s)) \in 1..Len(tab.bits) /\ Len(tab.bits) \in Nat
    BY <1>2, LengthIs, TableIs
<1> QED
    BY <1>1, <1>3

\* A coefficient: bits are consumed, or the position moves on.  Zeros beyond the
\* end of the body are where only AcAssumption keeps it moving.
LEMMA CoefficientShrinks ==
    ASSUME TypeOK, DecodeAC
    PROVE  /\ Len(rest') \in Nat /\ Len(rest') <= Len(rest)
           /\ Len(rest') < Len(rest) \/ k' > k
<1> DEFINE tab == AcTab[channel]
           sym == decodeHuffSymbol(tab, rest)
           n == codeLength(tab, rest)
           s == Drop(rest, n)
           bb == B * B
<1>1. /\ k < bb /\ matches(tab, rest)
      /\ \/ k' = bb /\ rest' = s
         \/ k' = k + MaxRun + 1 /\ rest' = s
         \/ sym.s = 0 /\ sym.r # 0 /\ sym.r # MaxRun /\ k' = k /\ rest' = s
         \/ k + sym.r >= bb /\ k' = k + sym.r /\ rest' = s
         \/ k' = k + sym.r + 1 /\ rest' = Drop(s, sym.s)
    BY DEF DecodeAC
<1>2. bb \in Nat /\ MaxRun \in Nat /\ k \in Nat
    BY BlockAssumption DEF TypeOK
<1>3. tab \in Table([r : 0..MaxRun, s : Nat]) /\ rest \in Seq({0, 1}) /\ Len(rest) \in Nat
    BY BlockTables
<1>4. ASSUME rest = <<>> PROVE ~(sym.s = 0 /\ sym.r # 0 /\ sym.r # MaxRun)
  <2>1. channel \in Channels
      BY DEF channel, Channels
  <2>2. matches(tab, Zeros) => \/ decodeHuffSymbol(tab, Zeros).s > 0
                               \/ decodeHuffSymbol(tab, Zeros).r \in {0, MaxRun}
      BY <2>1, AcAssumption
  <2>3. rest = Zeros
      BY <1>4 DEF Zeros
  <2>4. sym.s > 0 \/ sym.r \in {0, MaxRun}
      BY <1>1, <2>2, <2>3
  <2> QED
      BY <2>4
<1>5. n \in Nat \ {0} /\ sym \in [r : 0..MaxRun, s : Nat]
  <2> DEFINE S == [r : 0..MaxRun, s : Nat]
  <2>1. tab \in Table(S) /\ matches(tab, rest) /\ rest \in Seq({0, 1})
      BY <1>1, <1>3
  <2> HIDE DEF S, tab
  <2>2. codeLength(tab, rest) \in Nat \ {0} /\ decodeHuffSymbol(tab, rest) \in S
      BY <2>1, CodeLength, TableSearch
  <2> QED
      BY <2>2 DEF S
<1>6. sym.r \in 0..MaxRun /\ sym.s \in Nat
    BY <1>5
<1> HIDE DEF sym, n, tab
<1>7. s \in Seq({0, 1}) /\ Len(s) \in Nat /\ Len(s) <= Len(rest) /\ (rest # <<>> => Len(s) < Len(rest))
  <2>1. n \in Nat /\ n > 0
      BY <1>5
  <2> QED
      BY <1>3, <2>1, DropType, DropLen
<1> HIDE DEF s
<1>8. Len(Drop(s, sym.s)) \in Nat /\ Len(Drop(s, sym.s)) <= Len(s)
    BY <1>6, <1>7, DropLen
<1> HIDE DEF bb
<1>9. Len(rest') \in Nat /\ Len(rest') <= Len(rest)
    BY <1>1, <1>3, <1>7, <1>8
<1>10. k' > k \/ (sym.s = 0 /\ sym.r # 0 /\ sym.r # MaxRun /\ rest' = s)
    BY <1>1, <1>2, <1>6
<1> QED
    BY <1>4, <1>7, <1>9, <1>10

\* A step of decodeBody.
LEMMA TileShrinks ==
    ASSUME TypeOK, BlockInMcu, TypeOK', TileNext, UNCHANGED raw
    PROVE  Shrinks
<1> USE DEF params, pos, dct
<1>1. UNCHANGED bytesLeft
    BY DEF bytesLeft, raw
<1>2. rest \in Seq({0, 1}) /\ Len(rest) \in Nat /\ blk \in 1..6 /\ blocks \in 3..6
    BY Blocks DEF TypeOK
<1>3. ASSUME Len(rest') < Len(rest) PROVE Shrinks
    BY <1>1, <1>3 DEF Shrinks, bitsLeft
<1>4. ASSUME UNCHANGED mode PROVE blocks' = blocks
    BY <1>4 DEF blocks
<1>5. CASE DecodeEnd
  <2>1. at = "op" /\ at' = "idle" /\ rest' = <<>>
      BY <1>5 DEF DecodeEnd
  <2>2. CASE rest = <<>>
      BY <1>1, <2>1, <2>2 DEF Shrinks, bitsLeft, phase
  <2>3. CASE rest # <<>>
    <3>1. Len(rest') < Len(rest)
        BY <1>2, <2>1, <2>3
    <3> QED
        BY <1>3, <3>1
  <2> QED
      BY <2>2, <2>3
<1>6. CASE StartDCT
  <2>1. rest # <<>> /\ rest' = afterOpcode
      BY <1>6 DEF StartDCT, Reading
  <2> QED
      BY <1>3, <2>1, OpcodeShrinks
<1>7. CASE PaintCached
  <2>1. rest # <<>> /\ paintPaletteBlock(afterOpcode, entropy)
      BY <1>7 DEF PaintCached, Reading
  <2>2. entropy \in Nat /\ afterOpcode \in Seq({0, 1})
    <3>1. entropy \in 0..2
        BY DEF TypeOK
    <3> QED
        BY <3>1, OpcodeType
  <2>3. Len(rest') \in Nat /\ Len(rest') <= Len(afterOpcode)
      BY <2>1, <2>2, PaletteShrinks
  <2>4. Len(rest') < Len(rest)
      BY <1>2, <2>1, <2>3, OpcodeShrinks
  <2> QED
      BY <1>3, <2>4
<1>8. CASE PaletteRefresh
  <2> DEFINE e == (opcode % 8) - 5
             s == loadSlots(afterOpcode, pow2[e])
  <2>1. rest # <<>> /\ opcode \in {5, 6, 7, 13, 14, 15} /\ paintPaletteBlock(s, e)
      BY <1>8 DEF PaletteRefresh, Reading
  <2>2. e \in Nat
      BY <2>1
  <2> HIDE DEF e
  <2>3. pow2[e] \in Nat
      BY <2>2, Pow2
  <2>4. s \in Seq({0, 1}) /\ Len(s) \in Nat /\ Len(s) <= Len(afterOpcode)
      BY <2>3, OpcodeType, LoadSlots
  <2> HIDE DEF s
  <2>5. Len(rest') \in Nat /\ Len(rest') <= Len(s)
      BY <2>1, <2>2, <2>4, PaletteShrinks
  <2>6. Len(rest') < Len(rest)
      BY <1>2, <2>1, <2>4, <2>5, OpcodeShrinks
  <2> QED
      BY <1>3, <2>6
<1> DEFINE bb == B * B
<1>9. bb \in Nat /\ MaxRun \in Nat /\ k \in 1..(bb + MaxRun) /\ k' \in 1..(bb + MaxRun)
    BY BlockAssumption DEF TypeOK
<1>10. coefficientsLeft = IF at = "dc" THEN bb + MaxRun + 1 ELSE IF at = "ac" THEN (bb + MaxRun) - k ELSE 0
    BY DEF coefficientsLeft
<1>11. coefficientsLeft' = IF at' = "dc" THEN bb + MaxRun + 1 ELSE IF at' = "ac" THEN (bb + MaxRun) - k' ELSE 0
    BY DEF coefficientsLeft
<1> HIDE DEF bb
<1>12. ASSUME UNCHANGED <<mode, blk>>, at \in {"dc", "ac"}, at' = "ac",
              Len(rest') = Len(rest), at = "dc" \/ k' > k
       PROVE  Shrinks
  <2>1. UNCHANGED <<bytesLeft, bitsLeft, phase, blocksLeft>>
      BY <1>1, <1>4, <1>12 DEF bitsLeft, phase, blocksLeft
  <2>2. coefficientsLeft' < coefficientsLeft
    <3> DEFINE m == bb + MaxRun
    <3>1. m \in Nat /\ k \in Nat /\ k' \in Nat
        BY <1>9
    <3> HIDE DEF m
    <3>2. m - k' < m + 1 /\ (k' > k => m - k' < m - k)
        BY <3>1, Minus
    <3>3. coefficientsLeft' = m - k'
        BY <1>11, <1>12 DEF m
    <3>4. coefficientsLeft = IF at = "dc" THEN m + 1 ELSE m - k
        BY <1>10, <1>12 DEF m
    <3> QED
        BY <1>12, <3>2, <3>3, <3>4
  <2> QED
      BY <2>1, <2>2 DEF Shrinks
<1>13. CASE DecodeDC
  <2> DEFINE tab == DcTab[channel]
  <2>1. /\ at = "dc" /\ at' = "ac" /\ UNCHANGED <<mode, blk>>
        /\ rest' = IF matches(tab, rest)
                   THEN Drop(rest, codeLength(tab, rest) + decodeHuffSymbol(tab, rest)) ELSE rest
      BY <1>13 DEF DecodeDC
  <2>2. matches(tab, rest) => codeLength(tab, rest) + decodeHuffSymbol(tab, rest) \in Nat
    <3>1. matches(tab, rest) => codeLength(tab, rest) \in Nat /\ decodeHuffSymbol(tab, rest) \in Nat
        BY BlockTables, TableSearch
    <3> QED
        BY <3>1
  <2> HIDE DEF tab
  <2>3. Len(rest') \in Nat /\ Len(rest') <= Len(rest)
      BY <1>2, <2>1, <2>2, DropLen
  <2>4. Len(rest') < Len(rest) \/ Len(rest') = Len(rest)
      BY <1>2, <2>3
  <2> QED
      BY <1>3, <1>12, <2>1, <2>4
<1>14. CASE Skip
  <2>1. at = "ac" /\ at' = at /\ rest' = rest /\ k' = k + 1 /\ UNCHANGED <<mode, blk>>
      BY <1>14 DEF Skip
  <2>2. k' > k
      BY <1>9, <2>1
  <2> QED
      BY <1>12, <2>1, <2>2
<1>15. CASE DecodeAC
  <2>1. at = "ac" /\ at' = at /\ UNCHANGED <<mode, blk>>
      BY <1>15 DEF DecodeAC
  <2>2. /\ Len(rest') \in Nat /\ Len(rest') <= Len(rest)
        /\ Len(rest') < Len(rest) \/ k' > k
      BY <1>15, CoefficientShrinks
  <2>3. Len(rest') < Len(rest) \/ (Len(rest') = Len(rest) /\ k' > k)
      BY <1>2, <2>2
  <2> QED
      BY <1>3, <1>12, <2>1, <2>3
<1>16. CASE NextBlock
  <2>1. at = "ac" /\ at' = "dc" /\ rest' = rest /\ blk' = blk + 1 /\ UNCHANGED mode
      BY <1>16 DEF NextBlock
  <2>2. UNCHANGED <<bytesLeft, bitsLeft, phase>>
      BY <1>1, <2>1 DEF bitsLeft, phase
  <2>3. blocksLeft' < blocksLeft
      BY <1>2, <1>4, <2>1 DEF blocksLeft, phase
  <2> QED
      BY <2>2, <2>3 DEF Shrinks
<1>17. CASE PaintDCT
  <2>1. at = "ac" /\ at' = "op" /\ rest' = rest
      BY <1>17 DEF PaintDCT
  <2> QED
      BY <1>1, <2>1 DEF Shrinks, bitsLeft, phase
<1> QED
    BY <1>5, <1>6, <1>7, <1>8, <1>13, <1>14, <1>15, <1>16, <1>17 DEF TileNext

\* An opcode of the tile decoder has 4 bits.
LEMMA OpcodeBits == ASSUME TypeOK PROVE opcode \in 0..15
<1> DEFINE v(i) == peekBits(rest, i)
           b(i) == bitAt(rest, i)
<1>1. rest \in Seq({0, 1})
    BY DEF TypeOK
<1>2. v(0) = 0 /\ \A n \in Nat : v(n + 1) = 2 * v(n) + b(n + 1)
    BY <1>1, PeekBits
<1>3. \A i \in Nat \ {0} : b(i) \in {0, 1}
    BY <1>1, BitAt
<1> HIDE DEF v, b
<1>4. v(1) = b(1) /\ v(2) = 2 * v(1) + b(2) /\ v(3) = 2 * v(2) + b(3) /\ v(4) = 2 * v(3) + b(4)
  <2>1. v(0 + 1) = 2 * v(0) + b(0 + 1) /\ v(1 + 1) = 2 * v(1) + b(1 + 1)
      BY <1>2
  <2>2. v(2 + 1) = 2 * v(2) + b(2 + 1) /\ v(3 + 1) = 2 * v(3) + b(3 + 1)
      BY <1>2
  <2>3. b(1) \in {0, 1}
      BY <1>3
  <2> QED
      BY <1>2, <2>1, <2>2, <2>3
<1>5. b(1) \in {0, 1} /\ b(2) \in {0, 1} /\ b(3) \in {0, 1} /\ b(4) \in {0, 1}
    BY <1>3
<1>6. v(4) \in 0..15
    BY <1>4, <1>5
<1> QED
    BY <1>6 DEF opcode, v

---------------------------------------------------------------------------
(* The theorems *)

\* The invariant holds in every state.
LEMMA Invariant == Spec => []IInv
    BY InitIInv, NextIInv, PTL DEF Spec

\* A block is always in its MCU.
LEMMA BlockInvariant == Spec => []BlockInMcu
<1>1. Init => BlockInMcu
    BY DEF Init, TileInit, BlockInMcu, phase
<1>2. IInv /\ BlockInMcu /\ [Next]_vars => BlockInMcu'
    BY NextBlockInMcu DEF IInv
<1> QED
    BY <1>1, <1>2, Invariant, PTL DEF Spec

\* The values handleVideoFrame and its decoders work on stay what their types
\* and loops say: the cursor never leaves the framebuffer, a zigzag position
\* never passes the block by more than one run, and no bytes, whole or cut
\* short, make a decoder write anything but a colour at a pixel.
THEOREM TypeCorrect == Spec => []TypeOK
    BY Invariant, PTL DEF IInv

\* newAvoHuff and decodeHuffSymbol, for every table of symbols by length: what
\* the search finds is the one symbol whose code the bits begin with, and it
\* finds nothing only if there is no such symbol.
THEOREM HuffmanIsSound == Spec => []HuffmanSound
<1>1. TypeOK => HuffmanSound
  <2> SUFFICES ASSUME TypeOK PROVE HuffmanSound
      OBVIOUS
  <2> QED
      BY BlockTables, TableSearch DEF HuffmanSound
<1> QED
    BY <1>1, TypeCorrect, PTL

\* paintDCT and paintPaletteBlock, for every size of block and framebuffer: an
\* MCU is painted over its whole square as far as that is on the screen, each
\* pixel from the sample at its place.
THEOREM PaintIsExact == Spec => []PaintExact
    BY Invariant, PTL DEF IInv

\* advancePos, for every size of tile, block and framebuffer: MCUs that no
\* positioned opcode has put elsewhere stay in their tile.
THEOREM RasterStaysInTile == Spec => []RasterInTile
    BY Invariant, PTL DEF IInv

\* The decoders write nothing but the pixels their cursor passes, only while they
\* hold a frame, and leave no change unmarked, whatever bytes they are given.
THEOREM WritesOnlyForward == Spec => WritesForward
<1>1. ASSUME IInv, [Next]_vars PROVE [Change]_vars
  <2> SUFFICES ASSUME px' # px PROVE Change
      BY DEF Change
  <2>1. CASE PaletteUpdate \/ RawTile \/ AvoTile \/ Push \/ UNCHANGED vars
      BY <2>1 DEF PaletteUpdate, RawTile, AvoTile, DecodePacket, Push, vars, fb
  <2>2. CASE RawNext /\ UNCHANGED <<stream, avo>>
      BY <1>1, <2>2, RawWrites DEF Change, Idle, Forward
  <2>3. CASE TileNext /\ UNCHANGED <<stream, raw>>
      BY <1>1, <2>3, TileWrites DEF Change, Idle, IInv, OneDecoder
  <2> QED
      BY <1>1, <2>1, <2>2, <2>3 DEF Next, Decoding
<1> QED
    BY <1>1, Invariant, PTL DEF Spec, WritesForward

\* Decode, decodeBody, decodeDCTBlock and dispatchDCT end for every input: each
\* of their steps leaves less of the frame, in an order without infinite descent
\* (five numbers compared one after the other), also where the body has ended
\* and reads as zeros.
THEOREM DecodingShrinks ==
    Spec => [](left \in Nat \X Nat \X Nat \X Nat \X Nat) /\ [][Decoding => Shrinks]_vars
<1>1. IInv /\ BlockInMcu => left \in Nat \X Nat \X Nat \X Nat \X Nat
    BY LeftType DEF IInv
<1>2. ASSUME IInv, BlockInMcu, [Next]_vars PROVE [Decoding => Shrinks]_vars
  <2> SUFFICES ASSUME Decoding PROVE Shrinks
      OBVIOUS
  <2>1. CASE RawNext /\ UNCHANGED <<stream, avo>>
      BY <1>2, <2>1, RawShrinks DEF IInv, Shrinks
  <2>2. CASE TileNext /\ UNCHANGED <<stream, raw>>
    <3>1. TypeOK'
        BY <1>2, NextIInv DEF IInv
    <3> QED
        BY <1>2, <2>2, <3>1, TileShrinks DEF IInv
  <2> QED
      BY <2>1, <2>2 DEF Decoding
<1> QED
    BY <1>1, <1>2, Invariant, BlockInvariant, PTL DEF Spec

\* The switches of Decode and decodeBody have a case for every opcode there can
\* be, and a block that is done is followed by another or is the last: a decoder
\* at work always has a step to take.
THEOREM AlwaysHandled == Spec => []Handled
<1>1. ASSUME TypeOK, BlockInMcu PROVE Handled
  <2>1. ASSUME in # <<>> PROVE Family(in[1]) \in 0..7
    <3>1. in[1] \in 0..255
      <4>1. in \in Seq(Byte)
          BY <1>1 DEF TypeOK
      <4>2. in[1] \in Byte
          BY <2>1, <4>1
      <4> QED
          BY <4>2 DEF Byte
    <3>2. \A b \in 0..255 : b \div 32 \in 0..7
        OBVIOUS
    <3> QED
        BY <3>1, <3>2 DEF Family
  <2>2. at = "ac" => blk < blocks \/ blk = blocks
    <3>1. at = "ac" => blk <= blocks
        BY <1>1 DEF BlockInMcu, phase
    <3>2. blk \in 1..6 /\ blocks \in 3..6
        BY <1>1, Blocks DEF TypeOK
    <3> QED
        BY <3>1, <3>2
  <2> QED
      BY <1>1, <2>1, <2>2, OpcodeBits DEF Handled
<1>2. IInv /\ BlockInMcu => Handled
    BY <1>1 DEF IInv
<1> QED
    BY <1>2, Invariant, BlockInvariant, PTL
============================================================================
