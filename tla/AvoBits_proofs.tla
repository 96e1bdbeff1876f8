-------------------------- MODULE AvoBits_proofs --------------------------
(***************************************************************************)
(* The bit reader implements a cursor over the zero-extended body, for     *)
(* every register width, byte order and body.                              *)
(***************************************************************************)
EXTENDS AvoBits, TLAPS

\* How far ahead of the cursor the words read reach: exactly to the end of mb,
\* until the body is exhausted.
ReadAhead ==
    IF pos < words THEN W * pos = consumedB + W + ob ELSE length <= consumedB + W + ob

IInv == TypeOK /\ WindowInv /\ ReadAhead

\* Word k ends where word k + 1 begins, and inside the body when k < m.
LEMMA WordEnds ==
    ASSUME NEW k \in Nat, NEW m \in Nat
    PROVE  /\ W * k \in Nat
           /\ W * (k + 1) = W * k + W
           /\ k < m => W * k + W <= W * m
  <1>1. W * k \in Nat /\ W * (k + 1) = W * k + W
    BY WidthAssumption
  <1>2. ASSUME k < m PROVE W * k + W <= W * m
    <2>1. PICK j \in Nat : m = (k + 1) + j
      <3>1. m - (k + 1) \in Nat /\ m = (k + 1) + (m - (k + 1))
        BY <1>2
      <3> QED BY <3>1
    <2>2. W * m = W * (k + 1) + W * j
      BY <2>1, WidthAssumption
    <2>3. W * j \in Nat
      BY WidthAssumption
    <2> QED BY <1>1, <2>2, <2>3, WidthAssumption
  <1> QED BY <1>1, <1>2

\* Quotient and remainder of a bit number find its word and its place there.
LEMMA DivMod ==
    ASSUME NEW k \in Nat, NEW i \in 0..(W - 1)
    PROVE  (W * k + i) \div W = k /\ (W * k + i) % W = i
  <1> DEFINE a == W * k + i
             q == a \div W
             r == a % W
  <1>1. a \in Nat /\ q \in Nat /\ r \in 0..(W - 1) /\ a = W * q + r
    BY WidthAssumption
  <1> HIDE DEF q, r
  <1>2. ~(q < k)
    BY <1>1, WordEnds, WidthAssumption
  <1>3. ~(k < q)
    BY <1>1, WordEnds, WidthAssumption
  <1>4. q = k
    BY <1>1, <1>2, <1>3
  <1>5. r = i
    BY <1>1, <1>4, WidthAssumption
  <1> QED BY <1>4, <1>5 DEF q, r

\* bits is a stream of bits, and word k of the body is its bits W*k onwards.
LEMMA WordBits ==
    ASSUME TypeOK
    PROVE  /\ length \in Nat
           /\ bits \in [0..(length - 1) -> {0, 1}]
           /\ \A k \in 0..(words - 1), i \in 0..(W - 1) :
                 W * k + i < length /\ bits[W * k + i] = readWord(k)[i]
  <1>1. words \in Nat /\ length \in Nat
    BY WordEnds DEF TypeOK, length
  <1>2. ASSUME NEW k \in 0..(words - 1), NEW i \in 0..(W - 1)
        PROVE  W * k + i \in 0..(length - 1) /\ readWord(k)[i] \in {0, 1}
    <2>1. W * k \in Nat /\ W * k + W <= length
      BY <1>1, WordEnds DEF length
    <2>2. \A j \in 0..(W - 1) : W * k + j \in 0..(length - 1)
      <3> DEFINE a == W * k
      <3>1. a \in Nat /\ a + W <= length /\ W \in Nat /\ length \in Nat
        BY <1>1, <2>1, WidthAssumption
      <3> HIDE DEF a
      <3>2. \A j \in 0..(W - 1) : a + j \in 0..(length - 1)
        BY <3>1
      <3> QED BY <3>2 DEF a
    <2>3. Order[i] \in 0..(W - 1)
      BY OrderAssumption
    <2> QED BY <2>2, <2>3 DEF readWord, TypeOK, length
  <1>3. ASSUME NEW m \in 0..(length - 1)
        PROVE  m \div W \in 0..(words - 1) /\ m % W \in 0..(W - 1)
    <2> DEFINE q == m \div W
               r == m % W
    <2>1. q \in Nat /\ r \in 0..(W - 1) /\ m = W * q + r
      BY <1>1, WidthAssumption
    <2> HIDE DEF q, r
    <2>2. ~(words <= q)
      <3> SUFFICES ASSUME words <= q PROVE FALSE
        OBVIOUS
      <3>1. W * words \in Nat /\ W * q \in Nat
        BY <1>1, <2>1, WordEnds
      <3>2. W * words <= W * q
        <4>1. CASE words = q
          BY <4>1, <3>1
        <4>2. CASE words < q
          BY <4>2, <1>1, <2>1, <3>1, WordEnds, WidthAssumption
        <4> QED BY <4>1, <4>2, <1>1, <2>1
      <3> QED BY <3>1, <3>2, <2>1, <1>1, WidthAssumption DEF length
    <2> QED BY <1>1, <2>1, <2>2 DEF q, r
  <1>4. bits \in [0..(length - 1) -> {0, 1}]
    BY <1>2, <1>3 DEF bits
  <1>5. ASSUME NEW k \in 0..(words - 1), NEW i \in 0..(W - 1)
        PROVE  W * k + i < length /\ bits[W * k + i] = readWord(k)[i]
    <2>1. W * k + i \in 0..(length - 1)
      BY <1>2
    <2>2. (W * k + i) \div W = k /\ (W * k + i) % W = i
      BY <1>1, DivMod
    <2>3. bits[W * k + i] = readWord((W * k + i) \div W)[(W * k + i) % W]
      BY <2>1 DEF bits
    <2> QED BY <1>1, <2>1, <2>2, <2>3
  <1> QED BY <1>1, <1>4, <1>5

\* The bit k places into the zero-extended body.
B(k) == Cursor!BitAt(bits, length, k)

LEMMA BType ==
    ASSUME TypeOK, NEW k \in Nat
    PROVE  B(k) \in {0, 1} /\ (length <= k => B(k) = 0)
  BY WordBits DEF B, Cursor!BitAt

\* What consume shifts in are the bits after those that nb and mb hold.
LEMMA RefillBits ==
    ASSUME TypeOK, ReadAhead, NEW i \in 0..(W - 1)
    PROVE  refill[i] = B(consumedB + W + ob + i)
  <1>1. length \in Nat /\ ob \in Nat /\ consumedB \in Nat /\ pos \in Nat /\ words \in Nat /\ W \in Nat
    BY WordBits, WidthAssumption DEF TypeOK
  <1>2. CASE pos < words
    <2>1. W * pos = consumedB + W + ob
      BY <1>2 DEF ReadAhead
    <2>2. pos \in 0..(words - 1)
      BY <1>1, <1>2
    <2>3. W * pos + i < length /\ bits[W * pos + i] = readWord(pos)[i]
      BY <2>2, WordBits
    <2> QED BY <1>2, <2>1, <2>3 DEF refill, B, Cursor!BitAt
  <1>3. CASE ~(pos < words)
    <2>1. length <= consumedB + W + ob + i
      BY <1>1, <1>3 DEF ReadAhead
    <2>2. consumedB + W + ob + i \in Nat
      BY <1>1
    <2>3. B(consumedB + W + ob + i) = 0
      BY <2>1, <2>2, BType
    <2> QED BY <1>3, <2>3 DEF refill, Zero
  <1> QED BY <1>2, <1>3

\* WindowInv, register by register and bit by bit.
LEMMA WindowBits ==
    ASSUME TypeOK
    PROVE  WindowInv <=> \A i \in 0..(W - 1) :
                            /\ nb[i] = B(consumedB + i)
                            /\ mb[i] = IF i < ob THEN B(consumedB + W + i) ELSE 0
  BY DEF TypeOK, Word, WindowInv, B, Cursor!Window

\* The window of the next state, in bits of this one.
LEMMA NextWindow ==
    ASSUME TypeOK', bits' = bits, length' = length,
           \A i \in 0..(W - 1) :
              /\ nb'[i] = B(consumedB' + i)
              /\ mb'[i] = IF i < ob' THEN B(consumedB' + W + i) ELSE 0
    PROVE  WindowInv'
  <1>1. nb' = [i \in 0..(W - 1) |-> B(consumedB' + i)]
    BY DEF TypeOK, Word
  <1>2. mb' = [i \in 0..(W - 1) |-> IF i < ob' THEN B(consumedB' + W + i) ELSE 0]
    BY DEF TypeOK, Word
  <1> QED BY <1>1, <1>2 DEF WindowInv, B, Cursor!Window, Cursor!BitAt

\* Path A keeps the window: nb takes its new bits from the top of mb.
LEMMA ShiftOnlyWindow ==
    ASSUME IInv, NEW n \in 1..W, Consume(n), ShiftOnly(n), TypeOK'
    PROVE  WindowInv' /\ ReadAhead'
  <1>1. bits' = bits /\ length' = length
    BY DEF Consume, bits, length, readWord
  <1>3. /\ W \in Nat /\ ob \in 0..W /\ consumedB \in Nat /\ n < ob
        /\ ob' = ob - n /\ consumedB' = consumedB + n
    BY WidthAssumption DEF IInv, TypeOK, Consume, ShiftOnly
  <1>4. ASSUME NEW i \in 0..(W - 1)
        PROVE  /\ nb'[i] = B(consumedB + n + i)
               /\ mb'[i] = IF i < ob - n THEN B(consumedB + n + W + i) ELSE 0
    <2>1. \A j \in 0..(W - 1) :
             /\ nb[j] = B(consumedB + j)
             /\ mb[j] = IF j < ob THEN B(consumedB + W + j) ELSE 0
      BY WindowBits DEF IInv
    <2>2. \A j \in 0..(W - 1) : nb[j] \in {0, 1} /\ mb[j] \in {0, 1}
      BY DEF IInv, TypeOK, Word
    <2>3. mb'[i] = IF i + n < W THEN mb[i + n] ELSE 0
      BY DEF ShiftOnly, shl
    <2>4. mb'[i] = IF i < ob - n THEN B(consumedB + n + W + i) ELSE 0
      BY <1>3, <2>1, <2>3
    <2>5. CASE i + n < W
      <3>1. nb'[i] = nb[i + n]
        BY <2>2, <2>5, <1>3 DEF ShiftOnly, or, shl, shr
      <3> QED BY <1>3, <2>1, <2>4, <2>5, <3>1
    <2>6. CASE ~(i + n < W)
      <3>1. nb'[i] = mb[i - (W - n)]
        BY <2>2, <2>6, <1>3 DEF ShiftOnly, or, shl, shr
      <3> QED BY <1>3, <2>1, <2>4, <2>6, <3>1
    <2> QED BY <2>5, <2>6
  <1>5. WindowInv'
    BY NextWindow, <1>1, <1>3, <1>4
  <1>6. ReadAhead'
    BY <1>1, <1>3 DEF ReadAhead, ShiftOnly, Consume, IInv, TypeOK
  <1> QED BY <1>5, <1>6

\* Path B keeps it too: the new word continues what mb still held.
LEMMA RefillWindow ==
    ASSUME IInv, NEW n \in 1..W, Consume(n), Refill(n), TypeOK'
    PROVE  WindowInv' /\ ReadAhead'
  <1>1. bits' = bits /\ length' = length
    BY DEF Consume, bits, length, readWord
  <1>2. /\ W \in Nat /\ ob \in 0..W /\ consumedB \in Nat /\ ob <= n
        /\ ob' = W + ob - n /\ consumedB' = consumedB + n
    BY WidthAssumption DEF IInv, TypeOK, Consume, Refill
  <1>3. \A j \in 0..(W - 1) :
           /\ nb[j] = B(consumedB + j)
           /\ mb[j] = IF j < ob THEN B(consumedB + W + j) ELSE 0
           /\ refill[j] = B(consumedB + W + ob + j)
    BY WindowBits, RefillBits DEF IInv
  <1>4. \A k \in Nat : B(k) \in {0, 1}
    BY BType DEF IInv
  <1> DEFINE full == or(mb, shr(refill, ob))
  <1>5. \A j \in 0..(W - 1) : full[j] = B(consumedB + W + j)
    <2> SUFFICES ASSUME NEW j \in 0..(W - 1) PROVE full[j] = B(consumedB + W + j)
      OBVIOUS
    <2>1. full[j] = IF mb[j] = 1 \/ (ob <= j /\ refill[j - ob] = 1) THEN 1 ELSE 0
      BY <1>2 DEF or, shr
    <2>2. B(consumedB + W + j) \in {0, 1}
      BY <1>2, <1>4
    <2> QED BY <1>2, <1>3, <2>1, <2>2
  <1> HIDE DEF full
  <1>6. ASSUME NEW i \in 0..(W - 1)
        PROVE  /\ nb'[i] = B(consumedB + n + i)
               /\ mb'[i] = IF i < W + ob - n THEN B(consumedB + n + W + i) ELSE 0
    <2>1. mb'[i] = IF i + (n - ob) < W THEN refill[i + (n - ob)] ELSE 0
      BY DEF Refill, shl
    <2>2. mb'[i] = IF i < W + ob - n THEN B(consumedB + n + W + i) ELSE 0
      BY <1>2, <1>3, <2>1
    <2>3. nb' = or(shl(nb, n), shr(full, W - n))
      BY DEF Refill, full
    <2>4. nb'[i] = IF \/ i + n < W /\ nb[i + n] = 1
                      \/ W - n <= i /\ full[i - (W - n)] = 1 THEN 1 ELSE 0
      BY <1>2, <2>3 DEF or, shl, shr
    <2>5. B(consumedB + n + i) \in {0, 1}
      BY <1>2, <1>4
    <2>6. CASE i + n < W
      <3>1. nb[i + n] = B(consumedB + n + i) /\ ~(W - n <= i)
        BY <1>2, <1>3, <2>6
      <3> QED BY <2>2, <2>4, <2>5, <2>6, <3>1
    <2>7. CASE ~(i + n < W)
      <3>1. full[i - (W - n)] = B(consumedB + n + i) /\ W - n <= i
        BY <1>2, <1>5, <2>7
      <3> QED BY <2>2, <2>4, <2>5, <2>7, <3>1
    <2> QED BY <2>6, <2>7
  <1>7. WindowInv'
    BY NextWindow, <1>1, <1>2, <1>6
  <1>8. ReadAhead'
    <2> DEFINE c == consumedB + W + ob
    <2>1. /\ c \in Nat /\ consumedB' + W + ob' = c + W
          /\ pos \in Nat /\ words \in Nat /\ pos <= words /\ length \in Nat
          /\ words' = words
      BY <1>2, WordBits DEF IInv, TypeOK, Consume
    <2> HIDE DEF c
    <2>2. CASE pos < words
      <3>1. W * pos = c
        BY <2>2 DEF IInv, ReadAhead, c
      <3>2. pos' = pos + 1 /\ W * pos' = c + W
        BY <2>1, <2>2, <3>1, WordEnds DEF Refill
      <3>3. CASE pos' < words
        BY <2>1, <3>2, <3>3 DEF ReadAhead
      <3>4. CASE ~(pos' < words)
        <4>1. pos' = words /\ length = c + W
          BY <2>1, <2>2, <3>2, <3>4 DEF length
        <4> QED BY <1>1, <2>1, <3>4, <4>1 DEF ReadAhead
      <3> QED BY <3>3, <3>4
    <2>3. CASE ~(pos < words)
      <3>1. pos' = pos /\ length <= c
        BY <2>3 DEF IInv, ReadAhead, Refill, c
      <3>2. length' <= c + W
        BY <1>1, <1>2, <2>1, <3>1
      <3> QED BY <2>1, <2>3, <3>1, <3>2 DEF ReadAhead
    <2> QED BY <2>2, <2>3
  <1> QED BY <1>7, <1>8

LEMMA InitIInv == Init => IInv
  <1> SUFFICES ASSUME Init PROVE IInv
    OBVIOUS
  <1>1. words \in Nat /\ words \in 0..MaxWords /\ W \in Nat /\ W > 0
    BY BoundsAssumption, WidthAssumption DEF Init
  <1>2. \A k \in 0..(words - 1) : readWord(k) \in Word
    <2> SUFFICES ASSUME NEW k \in 0..(words - 1), NEW i \in 0..(W - 1)
                 PROVE  src[W * k + Order[i]] \in {0, 1}
      BY DEF readWord, Word
    <2> DEFINE a == W * k
               l == W * words
    <2>1. a \in Nat /\ a + W <= l /\ l \in Nat /\ Order[i] \in 0..(W - 1)
      BY <1>1, WordEnds, OrderAssumption
    <2>2. src \in [0..(l - 1) -> {0, 1}]
      BY DEF Init
    <2> HIDE DEF a, l
    <2>3. a + Order[i] \in 0..(l - 1)
      BY <1>1, <2>1
    <2>4. src[a + Order[i]] \in {0, 1}
      BY <2>2, <2>3
    <2> QED BY <2>4 DEF a
  <1>3. Zero \in Word
    BY DEF Zero, Word
  <1>4. nb \in Word /\ mb \in Word
    BY <1>1, <1>2, <1>3 DEF Init
  <1>5. TypeOK
    BY <1>1, <1>4 DEF Init, TypeOK
  <1>6. /\ length \in Nat /\ consumedB = 0
        /\ W * 0 = 0 /\ W * 1 = W /\ W * 2 = W + W
    BY <1>1, <1>5, WordBits DEF Init
  <1>7. ASSUME NEW i \in 0..(W - 1)
        PROVE  /\ nb[i] = B(consumedB + i)
               /\ mb[i] = IF i < ob THEN B(consumedB + W + i) ELSE 0
    <2>1. nb[i] = B(i)
      <3>1. CASE words >= 1
        <4>1. W * 0 + i < length /\ bits[W * 0 + i] = readWord(0)[i]
          BY <1>1, <1>5, <3>1, WordBits
        <4> QED BY <1>6, <3>1, <4>1 DEF Init, B, Cursor!BitAt
      <3>2. CASE words = 0
        <4>1. length = 0
          BY <1>1, <3>2 DEF length
        <4> QED BY <1>1, <3>2, <4>1 DEF Init, Zero, B, Cursor!BitAt
      <3> QED BY <1>1, <3>1, <3>2
    <2>2. mb[i] = IF i < ob THEN B(W + i) ELSE 0
      <3>1. CASE words >= 2
        <4>1. W * 1 + i < length /\ bits[W * 1 + i] = readWord(1)[i]
          BY <1>1, <1>5, <3>1, WordBits
        <4>2. mb[i] = readWord(1)[i] /\ i < ob
          BY <1>1, <3>1 DEF Init
        <4> QED BY <1>6, <4>1, <4>2 DEF B, Cursor!BitAt
      <3>2. CASE ~(words >= 2)
        BY <3>2 DEF Init, Zero
      <3> QED BY <3>1, <3>2
    <2> QED BY <1>1, <1>6, <2>1, <2>2
  <1>8. WindowInv
    BY <1>5, <1>7, WindowBits
  <1>9. ReadAhead
    <2>1. CASE words >= 2
      <3>1. pos = 2 /\ ob = W
        BY <2>1 DEF Init
      <3>2. words = 2 => length = W + W
        BY <1>6 DEF length
      <3> QED BY <1>1, <1>6, <2>1, <3>1, <3>2 DEF ReadAhead
    <2>2. CASE words < 2
      <3>1. pos = words /\ ob = 0
        BY <1>1, <2>2 DEF Init
      <3>2. length <= W
        <4>1. words = 0 \/ words = 1
          BY <1>1, <2>2
        <4> QED BY <1>1, <1>6, <4>1 DEF length
      <3> QED BY <1>1, <1>6, <3>1, <3>2 DEF ReadAhead
    <2> QED BY <1>1, <2>1, <2>2
  <1> QED BY <1>5, <1>8, <1>9 DEF IInv

LEMMA ConsumeTypeOK ==
    ASSUME IInv, NEW n \in 1..W, Consume(n)
    PROVE  TypeOK'
  <1>1. \A x, y : or(x, y) \in Word
    BY DEF or, Word
  <1>2. \A j \in 0..(W - 1) : refill[j] \in {0, 1}
    <2> SUFFICES ASSUME NEW j \in 0..(W - 1) PROVE refill[j] \in {0, 1}
      OBVIOUS
    <2>1. consumedB + W + ob + j \in Nat
      BY WidthAssumption DEF IInv, TypeOK
    <2> QED BY <2>1, RefillBits, BType DEF IInv
  <1>3. /\ W \in Nat /\ ob \in 0..W /\ consumedB \in Nat /\ words \in Nat /\ pos \in 0..words
        /\ consumedB' = consumedB + n /\ words' = words /\ src' = src
    BY WidthAssumption, BoundsAssumption DEF IInv, TypeOK, Consume
  <1>4. nb' \in Word
    BY <1>1 DEF Consume, ShiftOnly, Refill
  <1>5. mb' \in Word
    <2>1. CASE ShiftOnly(n)
      BY <1>3, <2>1 DEF ShiftOnly, shl, Word, IInv, TypeOK
    <2>2. CASE Refill(n)
      BY <1>2, <1>3, <2>2 DEF Refill, shl, Word
    <2> QED BY <2>1, <2>2 DEF Consume
  <1>6. ob' \in 0..W /\ pos' \in 0..words
    BY <1>3 DEF Consume, ShiftOnly, Refill
  <1> QED BY <1>3, <1>4, <1>5, <1>6 DEF IInv, TypeOK

LEMMA NextIInv == IInv /\ [Next]_vars => IInv'
  <1> SUFFICES ASSUME IInv, [Next]_vars PROVE IInv'
    OBVIOUS
  <1>1. ASSUME NEW n \in 1..W, Consume(n) PROVE IInv'
    <2>1. TypeOK'
      BY <1>1, ConsumeTypeOK
    <2>2. WindowInv' /\ ReadAhead'
      BY <1>1, <2>1, ShiftOnlyWindow, RefillWindow DEF Consume
    <2> QED BY <2>1, <2>2 DEF IInv
  <1>2. CASE UNCHANGED vars
    <2>1. bits' = bits /\ length' = length
      BY <1>2 DEF vars, bits, length, readWord
    <2>2. TypeOK' /\ ReadAhead'
      BY <1>2, <2>1 DEF vars, IInv, TypeOK, ReadAhead, Word
    <2>3. WindowInv'
      BY <1>2, <2>1 DEF vars, IInv, WindowInv, Cursor!Window, Cursor!BitAt
    <2> QED BY <2>2, <2>3 DEF IInv
  <1> QED BY <1>1, <1>2 DEF Next

\* consume's registers keep their types: pos never passes the end of the body, and
\* no shift amount leaves 0..W.
THEOREM TypeCorrect == Spec => []TypeOK
  <1>1. Spec => []IInv
    BY InitIInv, NextIInv, PTL DEF Spec
  <1>2. IInv => TypeOK
    BY DEF IInv
  <1> QED BY <1>1, <1>2, PTL

\* The invariant consume's comment states holds at all times: for every register
\* width, byte order and body.
THEOREM Registers == Spec => []WindowInv
  <1>1. Spec => []IInv
    BY InitIInv, NextIInv, PTL DEF Spec
  <1>2. IInv => WindowInv
    BY DEF IInv
  <1> QED BY <1>1, <1>2, PTL

\* fill, readWord and consume implement the plain cursor: nb is the next W bits
\* of the zero-extended body, and consume(n) moves it by n.
THEOREM Implements == Spec => CursorSpec
  <1>1. Init => Cursor!Init
    <2> SUFFICES ASSUME Init PROVE Cursor!Init
      OBVIOUS
    <2>1. IInv /\ consumedB = 0
      BY InitIInv DEF Init
    <2>2. length \in Nat /\ bits \in [0..(length - 1) -> {0, 1}]
      BY <2>1, WordBits DEF IInv
    <2> QED BY <2>1, <2>2 DEF Cursor!Init, IInv, WindowInv
  <1>2. IInv /\ IInv' /\ [Next]_vars => [Cursor!Next]_(Cursor!vars)
    <2> SUFFICES ASSUME IInv, IInv', [Next]_vars PROVE [Cursor!Next]_(Cursor!vars)
      OBVIOUS
    <2>1. ASSUME NEW n \in 1..W, Consume(n) PROVE Cursor!Consume(n)
      <3>1. bits' = bits /\ length' = length /\ consumedB' = consumedB + n
        BY <2>1 DEF Consume, bits, length, readWord
      <3>2. nb' = Cursor!Window(bits, length, consumedB + n)
        BY <3>1 DEF IInv, WindowInv, Cursor!Window, Cursor!BitAt
      <3> QED BY <3>1, <3>2 DEF Cursor!Consume
    <2>2. CASE UNCHANGED vars
      BY <2>2 DEF vars, Cursor!vars, bits, length, readWord
    <2> QED BY <2>1, <2>2 DEF Next, Cursor!Next
  <1>3. Spec => []IInv
    BY InitIInv, NextIInv, PTL DEF Spec
  <1> QED BY <1>1, <1>2, <1>3, PTL DEF Spec, CursorSpec, Cursor!Spec
===========================================================================
