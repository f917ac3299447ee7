---------------------------- MODULE LoadingProofs ----------------------------
(***************************************************************************)
(* The model's parameters, for layers, tiles and checkpoints of every      *)
(* size: the fused layers hold what packing the whole matrix would give,   *)
(* because a shard of whole tiles is packed on its own exactly as inside   *)
(* the whole; what is not fused is loaded too; and nothing fails but for   *)
(* sizes that are odd.                                                     *)
(***************************************************************************)
EXTENDS WeightLoading, FiniteSetTheorems, TLAPS

Shape(t, rows, cols) == t = [i \in 0 .. rows - 1 |-> [j \in 0 .. cols - 1 |-> t[i][j]]]

LEMMA ShapeSizes ==
  ASSUME NEW rows \in Nat \ {0}, NEW cols \in Nat, NEW t, Shape(t, rows, cols)
  PROVE  /\ DOMAIN t = 0 .. rows - 1 /\ NumRows(t) = rows /\ NumCols(t) = cols
         /\ \A i \in 0 .. rows - 1 : DOMAIN t[i] = 0 .. cols - 1
  <1>1. DOMAIN t = 0 .. rows - 1
    BY DEF Shape
  <1>2. \A i \in 0 .. rows - 1 : DOMAIN t[i] = 0 .. cols - 1
    BY DEF Shape
  <1>3. 0 \in 0 .. rows - 1
    OBVIOUS
  <1>4. Cardinality(0 .. rows - 1) = rows /\ Cardinality(0 .. cols - 1) = cols
    <2>1. \A k \in Nat : Cardinality(0 .. k - 1) = k
      <3> SUFFICES ASSUME NEW k \in Nat PROVE Cardinality(0 .. k - 1) = k
        OBVIOUS
      <3>1. Cardinality(0 .. k - 1) = IF 0 > k - 1 THEN 0 ELSE (k - 1) - 0 + 1
        BY FS_Interval
      <3> QED  BY <3>1
    <2> QED  BY <2>1
  <1> QED  BY <1>1, <1>2, <1>3, <1>4 DEF NumRows, NumCols

LEMMA ShapeEqual ==
  ASSUME NEW rows, NEW cols, NEW t, NEW u, Shape(t, rows, cols), Shape(u, rows, cols),
         \A i \in 0 .. rows - 1, j \in 0 .. cols - 1 : t[i][j] = u[i][j]
  PROVE  t = u
  <1>1. [i \in 0 .. rows - 1 |-> [j \in 0 .. cols - 1 |-> t[i][j]]]
          = [i \in 0 .. rows - 1 |-> [j \in 0 .. cols - 1 |-> u[i][j]]]
    OBVIOUS
  <1> QED  BY <1>1 DEF Shape

-----------------------------------------------------------------------------
LEMMA Times ==
  ASSUME NEW a \in Nat, NEW b \in Nat
  PROVE  a * b \in Nat /\ b * a = a * b
  OBVIOUS

LEMMA DivMod ==
  ASSUME NEW v \in Nat, NEW d \in Nat \ {0}
  PROVE  v \div d \in Nat /\ v % d \in 0 .. d - 1 /\ v = (v \div d) * d + (v % d)
  <1>1. v \div d \in Nat /\ v % d \in 0 .. d - 1
    BY SMTT(30)
  <1>2. v = d * (v \div d) + (v % d)
    BY SMTT(30)
  <1> DEFINE q == v \div d
  <1>3. d * q = q * d
    BY <1>1, Times
  <1> QED  BY <1>1, <1>2, <1>3

LEMMA DivUnique ==
  ASSUME NEW a \in Nat, NEW c \in Nat, NEW d \in Nat \ {0},
         NEW r \in 0 .. d - 1, NEW s \in 0 .. d - 1, a * d + s = c * d + r
  PROVE  a = c /\ r = s
  <1>1. ASSUME NEW x \in Nat, NEW y \in Nat, NEW u \in 0 .. d - 1, NEW v \in 0 .. d - 1,
               x * d + u = y * d + v, x < y
        PROVE  FALSE
    <2>1. PICK k \in Nat : y = x + 1 + k
      <3>1. y - (x + 1) \in Nat /\ y = x + 1 + (y - (x + 1))
        BY <1>1
      <3> QED  BY <3>1
    <2>2. y * d = x * d + d + k * d /\ k * d \in Nat /\ x * d \in Nat
      BY <2>1, <1>1
    <2> QED  BY <1>1, <2>2
  <1>2. a = c
    BY <1>1
  <1> QED  BY <1>2, Times

(* The digits of a number do not change when a multiple of what they are   *)
(* the digits of is added.                                                 *)
LEMMA DivShift ==
  ASSUME NEW x \in Nat, NEW z \in Nat, NEW d \in Nat \ {0}
  PROVE  (x + z * d) \div d = (x \div d) + z /\ (x + z * d) % d = x % d
  <1> DEFINE y == x + z * d
             a == y \div d
             b == x \div d
             r == x % d
             s == y % d
  <1>1. z * d \in Nat /\ y \in Nat
    OBVIOUS
  <1>2. x = b * d + r /\ r \in 0 .. d - 1 /\ b \in Nat
    BY DivMod
  <1>3. y = a * d + s /\ s \in 0 .. d - 1 /\ a \in Nat
    BY <1>1, DivMod
  <1>4. y = x + z * d
    OBVIOUS
  <1> HIDE DEF a, b, r, s, y
  <1>5. b + z \in Nat /\ (b + z) * d = b * d + z * d /\ b * d \in Nat /\ a * d \in Nat
    BY <1>2, <1>3
  <1>6. a * d + s = (b + z) * d + r
    BY <1>1, <1>2, <1>3, <1>4, <1>5
  <1>7. a = b + z /\ r = s
    BY <1>2, <1>3, <1>5, <1>6, DivUnique
  <1> QED  BY <1>7 DEF a, b, r, s, y

(* A digit in base y, the digits below it make d.                          *)
Digit(n, d, y)      == (n \div d) % y
MultipleOf(w, d, y) == \E z \in Nat : w = z * (y * d)

LEMMA DigitType ==
  ASSUME NEW n \in Nat, NEW d \in Nat \ {0}, NEW y \in Nat \ {0}
  PROVE  n \div d \in Nat /\ Digit(n, d, y) \in 0 .. y - 1
  <1>1. n \div d \in Nat
    BY DivMod
  <1> QED  BY <1>1, DivMod DEF Digit

LEMMA Bit ==
  ASSUME NEW n \in Nat, NEW d \in Nat \ {0}
  PROVE  Digit(n, d, 2) \in 0 .. 1
  <1>1. PICK v \in Nat : v = n \div d
    BY DivMod
  <1>2. v % 2 \in 0 .. 1
    OBVIOUS
  <1> QED  BY <1>1, <1>2 DEF Digit

LEMMA DigitShift ==
  ASSUME NEW x \in Nat, NEW w \in Nat, NEW d \in Nat \ {0}, NEW y \in Nat \ {0},
         MultipleOf(w, d, y)
  PROVE  Digit(x + w, d, y) = Digit(x, d, y)
  <1>1. PICK z \in Nat : w = z * (y * d)
    BY DEF MultipleOf
  <1>2. w = (z * y) * d
    <2>1. \A a, b, c \in Nat : a * (b * c) = (a * b) * c
      OBVIOUS
    <2> QED  BY <1>1, <2>1
  <1>3. PICK k \in Nat : k = z * y
    BY Times
  <1>4. PICK v \in Nat : v = x \div d
    BY DivMod
  <1>5. (x + w) \div d = v + k
    <2>1. w = k * d
      BY <1>2, <1>3
    <2>2. (x + k * d) \div d = (x \div d) + k
      BY DivShift
    <2> QED  BY <1>4, <2>1, <2>2
  <1>6. (v + k) % y = v % y
    BY <1>3, DivShift
  <1> QED  BY <1>4, <1>5, <1>6 DEF Digit

LEMMA NextDigit ==
  ASSUME NEW k \in Nat, NEW x \in 0 .. k - 1, NEW y \in Nat \ {0}, NEW c \in 0 .. y - 1
  PROVE  x * y + c \in 0 .. k * y - 1
  <1>1. PICK m \in Nat : k = x + 1 + m
    <2>1. k - (x + 1) \in Nat /\ k = x + 1 + (k - (x + 1))
      OBVIOUS
    <2> QED  BY <2>1
  <1>2. k * y = x * y + y + m * y /\ m * y \in Nat /\ x * y \in Nat
    BY <1>1
  <1> QED  BY <1>2

-----------------------------------------------------------------------------
(* A byte's number has the digits f, b, d, e, c and k, and m above them:   *)
(* what those below b, d, e, c, k and m make together.                     *)
BelowD    == 2 * ColFine
BelowE    == 4 * ColFine
BelowC    == 4 * ColFine * ColMid
BelowK    == 4 * ColFine * ColMid * RowFine
BelowM(t) == 4 * ColFine * ColMid * RowFine * t

(* Where the two weights of the n-th byte come from, with t tiles in a row.*)
ByteRow(n, t, a) ==
  (((n \div BelowM(t)) * 2 + a) * 2 + Digit(n, ColFine, 2)) * RowFine + Digit(n, BelowC, RowFine)
ByteCol(n, t) ==
  ((Digit(n, BelowK, t) * 2 + Digit(n, BelowD, 2)) * ColMid + Digit(n, BelowE, ColMid)) * ColFine
  + (n % ColFine)

LEMMA PackedByte ==
  ASSUME NEW out, NEW in, NEW w, NEW i \in 0 .. out - 1, NEW j \in 0 .. (in \div 2) - 1
  PROVE  LET n == i * (in \div 2) + j
             t == in \div ColTile
         IN  Pack(out, in, w)[i][j] = <<w[ByteRow(n, t, 0)][ByteCol(n, t)],
                                        w[ByteRow(n, t, 1)][ByteCol(n, t)]>>
  BY DEF Pack, Tensor, ByteRow, ByteCol, Digit, BelowD, BelowE, BelowC, BelowK, BelowM

LEMMA TileFacts ==
  /\ RowFine \in Nat \ {0} /\ ColMid \in Nat \ {0} /\ ColFine \in Nat \ {0}
  /\ RowTile \in Nat \ {0} /\ ColTile \in Nat \ {0}
  /\ BelowD \in Nat \ {0} /\ BelowE \in Nat \ {0} /\ BelowC \in Nat \ {0} /\ BelowK \in Nat \ {0}
  /\ \A t \in Nat \ {0} : BelowM(t) \in Nat \ {0}
  <1>1. RowFine \in Nat \ {0} /\ ColMid \in Nat \ {0} /\ ColFine \in Nat \ {0}
    BY PackingAssumption
  <1>2. \A a \in Nat \ {0}, b \in Nat \ {0} : a * b \in Nat \ {0}
    OBVIOUS
  <1>3. 4 * RowFine \in Nat \ {0} /\ 2 * ColMid * ColFine \in Nat \ {0}
    BY <1>1, <1>2
  <1>4. /\ 2 * ColFine \in Nat \ {0} /\ 4 * ColFine \in Nat \ {0} /\ 4 * ColFine * ColMid \in Nat \ {0}
        /\ 4 * ColFine * ColMid * RowFine \in Nat \ {0}
    BY <1>1, <1>2
  <1>5. \A t \in Nat \ {0} : 4 * ColFine * ColMid * RowFine * t \in Nat \ {0}
    BY <1>4, <1>2
  <1> QED  BY <1>1, <1>3, <1>4, <1>5 DEF RowTile, ColTile, BelowD, BelowE, BelowC, BelowK, BelowM

LEMMA Multiples ==
  ASSUME NEW p \in Nat, NEW t \in Nat \ {0}, NEW w, w = p * BelowM(t)
  PROVE  /\ w \in Nat /\ \E z \in Nat : w = z * ColFine
         /\ MultipleOf(w, ColFine, 2) /\ MultipleOf(w, BelowD, 2) /\ MultipleOf(w, BelowE, ColMid)
         /\ MultipleOf(w, BelowC, RowFine) /\ MultipleOf(w, BelowK, t)
  <1>1. PICK F \in Nat \ {0}, M \in Nat \ {0}, R \in Nat \ {0} :
             F = ColFine /\ M = ColMid /\ R = RowFine
    BY TileFacts
  <1>2. w = p * (4 * F * M * R * t)
    BY <1>1 DEF BelowM
  <1>3. /\ w = (p * (4 * M * R * t)) * F
        /\ w = (p * (2 * M * R * t)) * (2 * F)
        /\ w = (p * (M * R * t)) * (2 * (2 * F))
        /\ w = (p * (R * t)) * (M * (4 * F))
        /\ w = (p * t) * (R * (4 * F * M))
        /\ w = p * (t * (4 * F * M * R))
    BY <1>2
  <1>4. /\ p * (4 * M * R * t) \in Nat /\ p * (2 * M * R * t) \in Nat /\ p * (M * R * t) \in Nat
        /\ p * (R * t) \in Nat /\ p * t \in Nat
    OBVIOUS
  <1>5. w \in Nat
    <2>1. p * (4 * F * M * R * t) \in Nat
      OBVIOUS
    <2> QED  BY <2>1, <1>2
  <1>6. /\ \E z \in Nat : w = z * F
        /\ MultipleOf(w, F, 2) /\ MultipleOf(w, 2 * F, 2) /\ MultipleOf(w, 4 * F, M)
        /\ MultipleOf(w, 4 * F * M, R) /\ MultipleOf(w, 4 * F * M * R, t)
    BY <1>3, <1>4, Zenon DEF MultipleOf
  <1> QED  BY <1>1, <1>5, <1>6, Zenon DEF BelowD, BelowE, BelowC, BelowK

(* The bytes of p tiles of rows lower down come from p tiles lower down.   *)
LEMMA ByteShift ==
  ASSUME NEW n \in Nat, NEW p \in Nat, NEW t \in Nat \ {0}, NEW a \in {0, 1},
         NEW m, m = n + p * BelowM(t)
  PROVE  ByteRow(m, t, a) = ByteRow(n, t, a) + p * RowTile /\ ByteCol(m, t) = ByteCol(n, t)
  <1>1. PICK w \in Nat : w = p * BelowM(t) /\ m = n + w
    BY TileFacts, Multiples
  <1>2. /\ Digit(m, ColFine, 2) = Digit(n, ColFine, 2) /\ Digit(m, BelowD, 2) = Digit(n, BelowD, 2)
        /\ Digit(m, BelowE, ColMid) = Digit(n, BelowE, ColMid)
        /\ Digit(m, BelowC, RowFine) = Digit(n, BelowC, RowFine)
        /\ Digit(m, BelowK, t) = Digit(n, BelowK, t)
    <2>1. /\ MultipleOf(w, ColFine, 2) /\ MultipleOf(w, BelowD, 2) /\ MultipleOf(w, BelowE, ColMid)
          /\ MultipleOf(w, BelowC, RowFine) /\ MultipleOf(w, BelowK, t)
      BY <1>1, Multiples
    <2> QED  BY <2>1, <1>1, TileFacts, DigitShift
  <1>3. m % ColFine = n % ColFine
    <2>1. PICK z \in Nat : w = z * ColFine
      BY <1>1, Multiples
    <2>2. ColFine \in Nat \ {0}
      BY TileFacts
    <2>3. (n + z * ColFine) % ColFine = n % ColFine
      BY <2>2, DivShift
    <2> QED  BY <2>1, <1>1, <2>3
  <1>4. m \div BelowM(t) = (n \div BelowM(t)) + p
    <2>1. PICK d \in Nat \ {0} : d = BelowM(t)
      BY TileFacts
    <2>2. (n + p * d) \div d = (n \div d) + p
      BY DivShift
    <2>3. m = n + p * d
      BY <2>1
    <2> QED  BY <2>1, <2>2, <2>3
  <1>5. ByteCol(m, t) = ByteCol(n, t)
    BY <1>2, <1>3 DEF ByteCol
  <1>6. ByteRow(m, t, a) = ByteRow(n, t, a) + p * RowTile
    <2>1. PICK q \in Nat : q = n \div BelowM(t)
      BY TileFacts, DivMod
    <2>2. PICK b \in Nat : b = Digit(n, ColFine, 2)
      BY TileFacts, DigitType
    <2>3. PICK c \in Nat : c = Digit(n, BelowC, RowFine)
      BY TileFacts, DigitType
    <2>4. /\ ByteRow(m, t, a) = (((q + p) * 2 + a) * 2 + b) * RowFine + c
          /\ ByteRow(n, t, a) = ((q * 2 + a) * 2 + b) * RowFine + c
      BY <1>2, <1>4, <2>1, <2>2, <2>3 DEF ByteRow
    <2>5. (((q + p) * 2 + a) * 2 + b) * RowFine + c
            = (((q * 2 + a) * 2 + b) * RowFine + c) + p * (4 * RowFine)
      <3>1. ((q + p) * 2 + a) * 2 + b = ((q * 2 + a) * 2 + b) + 4 * p
        OBVIOUS
      <3>2. PICK x \in Nat : x = (q * 2 + a) * 2 + b
        OBVIOUS
      <3>3. (x + 4 * p) * RowFine + c = (x * RowFine + c) + p * (4 * RowFine)
        BY TileFacts
      <3> QED  BY <3>1, <3>2, <3>3
    <2> QED  BY <2>4, <2>5 DEF RowTile
  <1> QED  BY <1>5, <1>6

LEMMA TileProduct ==
  ASSUME NEW t \in Nat \ {0}, NEW k \in Nat, NEW h, h = (t * ColTile) \div 2
  PROVE  h \in Nat \ {0} /\ k * RowTile * h = k * BelowM(t) /\ (k * RowTile) * h \in Nat
  <1>1. PICK F \in Nat \ {0}, M \in Nat \ {0}, R \in Nat \ {0} :
             F = ColFine /\ M = ColMid /\ R = RowFine
    BY TileFacts
  <1>2. PICK g \in Nat \ {0} : g = t * (M * F)
    <2>1. \A a \in Nat \ {0}, b \in Nat \ {0} : a * b \in Nat \ {0}
      OBVIOUS
    <2> QED  BY <2>1
  <1>3. t * ColTile = g * 2
    <2>1. t * (2 * M * F) = (t * (M * F)) * 2
      OBVIOUS
    <2> QED  BY <1>1, <1>2, <2>1 DEF ColTile
  <1>4. h = g
    BY <1>3
  <1>5. k * (4 * R) * (t * (M * F)) = k * (4 * F * M * R * t)
    OBVIOUS
  <1>6. k * (4 * R) * g \in Nat
    OBVIOUS
  <1> QED  BY <1>1, <1>2, <1>4, <1>5, <1>6 DEF RowTile, BelowM

(* A byte of k tiles of rows takes its weights from those.                 *)
LEMMA ByteRange ==
  ASSUME NEW t \in Nat \ {0}, NEW k \in Nat, NEW n \in 0 .. k * BelowM(t) - 1, NEW a \in {0, 1}
  PROVE  ByteRow(n, t, a) \in 0 .. k * RowTile - 1 /\ ByteCol(n, t) \in 0 .. t * ColTile - 1
  <1>1. PICK d \in Nat \ {0} : d = BelowM(t)
    BY TileFacts
  <1>2. PICK q \in Nat : q = n \div BelowM(t) /\ q \in 0 .. k - 1
    <2>1. n \in Nat /\ n \in 0 .. k * d - 1
      BY <1>1
    <2>2. PICK q \in Nat, r \in 0 .. d - 1 : q = n \div d /\ n = q * d + r
      BY <2>1, DivMod
    <2>3. q \in 0 .. k - 1
      <3>1. ASSUME q >= k PROVE FALSE
        <4>1. PICK x \in Nat : q = k + x
          <5>1. q - k \in Nat /\ q = k + (q - k)
            BY <3>1
          <5> QED  BY <5>1
        <4>2. q * d = k * d + x * d /\ x * d \in Nat /\ k * d \in Nat
          BY <4>1
        <4> QED  BY <4>2, <2>1, <2>2
      <3> QED  BY <3>1
    <2> QED  BY <1>1, <2>2, <2>3
  <1>n. n \in Nat
    BY <1>1
  <1>3. PICK b \in 0 .. 1 : b = Digit(n, ColFine, 2)
    BY <1>n, TileFacts, Bit
  <1>4. PICK c \in 0 .. RowFine - 1 : c = Digit(n, BelowC, RowFine)
    BY <1>n, TileFacts, DigitType
  <1>5. ByteRow(n, t, a) = ((q * 2 + a) * 2 + b) * RowFine + c
    BY <1>2, <1>3, <1>4 DEF ByteRow
  <1>6. ((q * 2 + a) * 2 + b) * RowFine + c \in 0 .. (k * 4) * RowFine - 1
    <2>1. (q * 2 + a) * 2 + b \in 0 .. k * 4 - 1 /\ k * 4 \in Nat
      BY <1>2
    <2> QED  BY <2>1, TileFacts, NextDigit
  <1>7. (k * 4) * RowFine = k * RowTile
    BY TileFacts DEF RowTile
  <1>8. PICK u \in 0 .. t - 1 : u = Digit(n, BelowK, t)
    BY <1>n, TileFacts, DigitType
  <1>9. PICK v \in 0 .. 1 : v = Digit(n, BelowD, 2)
    BY <1>n, TileFacts, Bit
  <1>10. PICK e \in 0 .. ColMid - 1 : e = Digit(n, BelowE, ColMid)
    BY <1>n, TileFacts, DigitType
  <1>11. PICK f \in 0 .. ColFine - 1 : f = n % ColFine
    BY <1>n, TileFacts, DivMod
  <1>12. ByteCol(n, t) = ((u * 2 + v) * ColMid + e) * ColFine + f
    BY <1>8, <1>9, <1>10, <1>11 DEF ByteCol
  <1>13. ((u * 2 + v) * ColMid + e) * ColFine + f \in 0 .. ((t * 2) * ColMid) * ColFine - 1
    <2>1. u * 2 + v \in 0 .. t * 2 - 1 /\ t * 2 \in Nat
      OBVIOUS
    <2>2. (u * 2 + v) * ColMid + e \in 0 .. (t * 2) * ColMid - 1
      BY <2>1, TileFacts, NextDigit
    <2>3. (t * 2) * ColMid \in Nat
      BY TileFacts
    <2> QED  BY <2>2, <2>3, TileFacts, NextDigit
  <1>14. ((t * 2) * ColMid) * ColFine = t * ColTile
    BY TileFacts DEF ColTile
  <1> QED  BY <1>5, <1>6, <1>7, <1>12, <1>13, <1>14

LEMMA Whole ==
  ASSUME NEW v \in Nat, NEW d \in Nat \ {0}, v % d = 0
  PROVE  \E k \in Nat : v = k * d /\ v \div d = k
  <1>1. PICK k \in Nat, r \in Nat : k = v \div d /\ r = v % d /\ v = k * d + r
    BY DivMod
  <1>2. k * d \in Nat
    OBVIOUS
  <1> QED  BY <1>1, <1>2

(* v is rows off .. off + o - 1 of w.                                      *)
RowsFrom(w, off, v, o, in) == \A x \in 0 .. o - 1, y \in 0 .. in - 1 : v[x][y] = w[off + x][y]

(* Whole tiles of rows, packed on their own, are as inside the whole.      *)
LEMMA PackShift ==
  ASSUME NEW out, NEW o \in Nat, NEW in \in Nat \ {0}, NEW off \in Nat,
         o % RowTile = 0, off % RowTile = 0, in % ColTile = 0,
         NEW i \in 0 .. o - 1, off + i \in 0 .. out - 1, NEW j \in 0 .. (in \div 2) - 1,
         NEW w, NEW v, RowsFrom(w, off, v, o, in)
  PROVE  Pack(out, in, w)[off + i][j] = Pack(o, in, v)[i][j]
  <1>1. PICK k \in Nat : o = k * RowTile
    BY TileFacts, Whole
  <1>2. PICK p \in Nat : off = p * RowTile
    BY TileFacts, Whole
  <1>3. PICK t \in Nat \ {0} : in = t * ColTile /\ in \div ColTile = t
    <2>1. PICK t \in Nat : in = t * ColTile /\ in \div ColTile = t
      BY TileFacts, Whole
    <2>2. 0 * ColTile = 0
      BY TileFacts
    <2> QED  BY <2>1, <2>2
  <1>4. PICK h \in Nat \ {0} : h = in \div 2
    BY <1>3, TileProduct
  <1>5. o * h = k * BelowM(t) /\ off * h = p * BelowM(t) /\ off * h \in Nat /\ o * h \in Nat
    BY <1>1, <1>2, <1>3, <1>4, TileProduct
  <1>6. PICK n \in Nat : n = i * h + j /\ n \in 0 .. k * BelowM(t) - 1
    <2>1. i * h + j \in 0 .. o * h - 1
      BY <1>4, NextDigit
    <2> QED  BY <2>1, <1>5
  <1>7. PICK m \in Nat : m = (off + i) * h + j /\ m = n + p * BelowM(t)
    <2>1. (off + i) * h + j = (i * h + j) + off * h
      BY <1>4
    <2>2. j \in Nat /\ off * h \in Nat
      BY <1>5
    <2> QED  BY <2>1, <2>2, <1>5, <1>6
  <1>8. Pack(out, in, w)[off + i][j] = <<w[ByteRow(m, t, 0)][ByteCol(m, t)],
                                         w[ByteRow(m, t, 1)][ByteCol(m, t)]>>
    BY <1>3, <1>4, <1>7, PackedByte
  <1>9. Pack(o, in, v)[i][j] = <<v[ByteRow(n, t, 0)][ByteCol(n, t)],
                                 v[ByteRow(n, t, 1)][ByteCol(n, t)]>>
    BY <1>3, <1>4, <1>6, PackedByte
  <1>10. \A a \in {0, 1} : w[ByteRow(m, t, a)][ByteCol(m, t)] = v[ByteRow(n, t, a)][ByteCol(n, t)]
    <2> SUFFICES ASSUME NEW a \in {0, 1}
                 PROVE  w[ByteRow(m, t, a)][ByteCol(m, t)] = v[ByteRow(n, t, a)][ByteCol(n, t)]
      OBVIOUS
    <2>1. ByteRow(n, t, a) \in 0 .. o - 1 /\ ByteCol(n, t) \in 0 .. in - 1
      BY <1>1, <1>3, <1>6, ByteRange
    <2>2. ByteRow(m, t, a) = ByteRow(n, t, a) + off /\ ByteCol(m, t) = ByteCol(n, t)
      BY <1>2, <1>7, ByteShift
    <2>3. ByteRow(n, t, a) + off = off + ByteRow(n, t, a)
      BY <2>1
    <2> QED  BY <2>1, <2>2, <2>3 DEF RowsFrom
  <1> QED  BY <1>8, <1>9, <1>10

(* The channel whose scale is the j-th.                                    *)
Channel(j) == (j \div RowTile) * RowTile + (j % 4) * RowFine + (j % RowTile) \div 4

LEMMA ChannelShift ==
  ASSUME NEW o \in Nat, NEW off \in Nat, o % RowTile = 0, off % RowTile = 0, NEW j \in 0 .. o - 1
  PROVE  Channel(j) \in 0 .. o - 1 /\ Channel(off + j) = off + Channel(j)
  <1>1. PICK k \in Nat : o = k * RowTile
    BY TileFacts, Whole
  <1>2. PICK p \in Nat : off = p * RowTile
    BY TileFacts, Whole
  <1>3. PICK q \in Nat, r \in 0 .. RowTile - 1 :
             q = j \div RowTile /\ r = j % RowTile /\ j = q * RowTile + r
    <2>1. j \in Nat /\ RowTile \in Nat \ {0}
      BY TileFacts
    <2> QED  BY <2>1, DivMod
  <1>4. q \in 0 .. k - 1
    <2>1. ASSUME q >= k PROVE FALSE
      <3>1. PICK x \in Nat : q = k + x
        <4>1. q - k \in Nat /\ q = k + (q - k)
          BY <2>1
        <4> QED  BY <4>1
      <3>2. q * RowTile = k * RowTile + x * RowTile /\ x * RowTile \in Nat /\ k * RowTile \in Nat
        BY <3>1, TileFacts
      <3> QED  BY <3>2, <1>1, <1>3
    <2> QED  BY <2>1
  <1>5. PICK u \in 0 .. 3 : u = j % 4
    OBVIOUS
  <1>6. PICK c \in 0 .. RowFine - 1 : c = r \div 4
    BY TileFacts, <1>3 DEF RowTile
  <1>7. Channel(j) = (q * 4 + u) * RowFine + c
    <2>1. Channel(j) = q * RowTile + u * RowFine + c
      BY <1>3, <1>5, <1>6 DEF Channel
    <2>2. q * (4 * RowFine) + u * RowFine + c = (q * 4 + u) * RowFine + c
      BY TileFacts
    <2> QED  BY <2>1, <2>2 DEF RowTile
  <1>8. Channel(j) \in 0 .. o - 1
    <2>1. q * 4 + u \in 0 .. k * 4 - 1 /\ k * 4 \in Nat
      BY <1>4
    <2>2. (q * 4 + u) * RowFine + c \in 0 .. (k * 4) * RowFine - 1
      BY <2>1, TileFacts, NextDigit
    <2>3. (k * 4) * RowFine = o
      BY <1>1, TileFacts DEF RowTile
    <2> QED  BY <1>7, <2>2, <2>3
  <1>9. (j + p * RowTile) \div RowTile = q + p /\ (j + p * RowTile) % RowTile = r
    <2>1. j \in Nat /\ RowTile \in Nat \ {0}
      BY TileFacts
    <2>2. /\ (j + p * RowTile) \div RowTile = (j \div RowTile) + p
          /\ (j + p * RowTile) % RowTile = j % RowTile
      BY <2>1, DivShift
    <2> QED  BY <1>3, <2>2
  <1>10. (off + j) % 4 = u
    <2>1. PICK z \in Nat : z = p * RowFine
      BY TileFacts
    <2>2. p * RowTile = z * 4
      BY <2>1, TileFacts DEF RowTile
    <2>3. (j + z * 4) % 4 = j % 4
      OBVIOUS
    <2> QED  BY <1>2, <1>5, <2>2, <2>3
  <1>11. off + j = j + p * RowTile
    BY <1>2
  <1>12. Channel(off + j) = (q + p) * RowTile + u * RowFine + c
    BY <1>6, <1>9, <1>10, <1>11 DEF Channel
  <1>13. Channel(j) = q * RowTile + u * RowFine + c
    BY <1>3, <1>5, <1>6 DEF Channel
  <1>14. (q + p) * RowTile + u * RowFine + c = p * RowTile + (q * RowTile + u * RowFine + c)
    BY TileFacts
  <1> QED  BY <1>2, <1>8, <1>12, <1>13, <1>14

-----------------------------------------------------------------------------
(* What Store makes of a layer, rows by columns.                           *)
ByGroup          == {"s2_scales", "s2_zeros"}
StoreRows(s, out, groups) == IF s \in ByGroup THEN groups ELSE out
StoreCols(s, out, in) ==
  CASE s \in ByGroup -> out [] s = "qweight" -> in \div 2 [] s = "weight" -> in [] OTHER -> 1

LEMMA TensorShape ==
  ASSUME NEW rows, NEW cols, NEW elt(_, _)
  PROVE  /\ Shape(Tensor(rows, cols, elt), rows, cols)
         /\ \A i \in 0 .. rows - 1, j \in 0 .. cols - 1 : Tensor(rows, cols, elt)[i][j] = elt(i, j)
  BY DEF Tensor, Shape

LEMMA StoreShape ==
  ASSUME NEW out, NEW in, NEW groups, NEW s, NEW w, s = "weight" => Shape(w, out, in)
  PROVE  Shape(Store(s, out, in, groups, w), StoreRows(s, out, groups), StoreCols(s, out, in))
  <1>1. CASE s = "qweight"
    <2>1. Shape(Pack(out, in, w), out, in \div 2)
      BY DEF Pack, Tensor, Shape
    <2> QED  BY <1>1, <2>1 DEF Store, StoreRows, StoreCols, ByGroup
  <1>2. CASE s = "weight"
    BY <1>2 DEF Store, StoreRows, StoreCols, ByGroup
  <1>3. CASE s \in ByGroup
    <2>1. Shape(PackGroups(out, groups, w), groups, out)
      BY DEF PackGroups, Tensor, Shape
    <2> QED  BY <1>3, <2>1 DEF Store, StoreRows, StoreCols, ByGroup
  <1>4. CASE s \notin ByGroup \cup {"qweight", "weight"}
    <2>1. Shape(Vector(out, w), out, 1)
      BY DEF Vector, Tensor, Shape
    <2> QED  BY <1>4, <2>1 DEF Store, StoreRows, StoreCols, ByGroup
  <1> QED  BY <1>1, <1>2, <1>3, <1>4

(* Rows off .. off + o - 1 of a layer, stored on their own.                *)
Cut(s, out, o, in, groups, off) ==
  /\ out \in Nat /\ o \in Nat /\ in \in Nat \ {0} /\ groups \in 0 .. in
  /\ off \in Nat /\ off + o <= out
  /\ s \in ByGroup \cup {"qweight"} => o % RowTile = 0 /\ off % RowTile = 0
  /\ s = "qweight" => in % ColTile = 0

LEMMA StoreShift ==
  ASSUME NEW s, NEW out, NEW o, NEW in, NEW groups, NEW off, Cut(s, out, o, in, groups, off),
         NEW w, NEW v, RowsFrom(w, off, v, o, in)
  PROVE  IF s \in ByGroup
         THEN \A i \in 0 .. groups - 1, j \in 0 .. o - 1 :
                Store(s, out, in, groups, w)[i][off + j] = Store(s, o, in, groups, v)[i][j]
         ELSE \A i \in 0 .. o - 1, j \in 0 .. StoreCols(s, o, in) - 1 :
                Store(s, out, in, groups, w)[off + i][j] = Store(s, o, in, groups, v)[i][j]
  <1> USE DEF Cut
  <1>1. CASE s = "qweight"
    <2>1. \A i \in 0 .. o - 1, j \in 0 .. (in \div 2) - 1 :
            Pack(out, in, w)[off + i][j] = Pack(o, in, v)[i][j]
      <3> SUFFICES ASSUME NEW i \in 0 .. o - 1, NEW j \in 0 .. (in \div 2) - 1
                   PROVE  Pack(out, in, w)[off + i][j] = Pack(o, in, v)[i][j]
        OBVIOUS
      <3>1. o % RowTile = 0 /\ off % RowTile = 0 /\ in % ColTile = 0
        BY <1>1
      <3>2. off + i \in 0 .. out - 1
        OBVIOUS
      <3> QED  BY <3>1, <3>2, PackShift
    <2> QED  BY <1>1, <2>1 DEF Store, StoreCols, ByGroup
  <1>2. CASE s = "weight"
    BY <1>2 DEF Store, StoreCols, ByGroup, RowsFrom
  <1>3. CASE s \in ByGroup
    <2> SUFFICES ASSUME NEW i \in 0 .. groups - 1, NEW j \in 0 .. o - 1
                 PROVE  PackGroups(out, groups, w)[i][off + j] = PackGroups(o, groups, v)[i][j]
      BY <1>3 DEF Store, ByGroup
    <2>1. Channel(j) \in 0 .. o - 1 /\ Channel(off + j) = off + Channel(j)
      BY <1>3, ChannelShift
    <2>2. PackGroups(out, groups, w)[i][off + j] = w[Channel(off + j)][i]
      BY DEF PackGroups, Tensor, Channel
    <2>3. PackGroups(o, groups, v)[i][j] = v[Channel(j)][i]
      BY DEF PackGroups, Tensor, Channel
    <2> QED  BY <2>1, <2>2, <2>3 DEF RowsFrom
  <1>4. CASE s \notin ByGroup \cup {"qweight", "weight"}
    <2>1. \A i \in 0 .. o - 1 : Vector(out, w)[off + i][0] = Vector(o, v)[i][0]
      BY DEF Vector, Tensor, RowsFrom
    <2> QED  BY <1>4, <2>1 DEF Store, StoreCols, ByGroup
  <1> QED  BY <1>1, <1>2, <1>3, <1>4

-----------------------------------------------------------------------------
(* Which rows of which fused layer a layer of the checkpoint is.           *)
LinearNames == {"q_proj", "k_proj", "v_proj", "o_proj", "gate_proj", "up_proj", "down_proj", "w1", "w2", "w3"}
FusedNames  == {"qkv_proj", "o_proj", "gate_up_proj", "down_proj", "w1_w3", "w2"}
Fused(m) ==
  CASE m \in Attention                  -> "qkv_proj"
    [] m \in {"gate_proj", "up_proj"}   -> "gate_up_proj"
    [] m \in {"w1", "w3"}               -> "w1_w3"
    [] OTHER                            -> m
Offset(m) ==
  CASE m = "k_proj"            -> Hidden
    [] m = "v_proj"            -> Hidden + job.sz.kv
    [] m \in {"up_proj", "w3"} -> job.sz.inter
    [] OTHER                   -> 0

AllPack == \A l \in Linears : Packs(l[1])
JobOK ==
  /\ job \in [model : Converted \cup {"w16a16", "mixtral"}, sz : Sizes, bias : BOOLEAN, order : Orders]
  /\ job.bias => job.model \notin {"w8a8", "mixtral"}
  /\ job.model = "mixtral" => AllPack

LEMMA JobFacts ==
  ASSUME JobOK
  PROVE  /\ Hidden \in Nat \ {0} /\ job.sz.kv \in Nat \ {0} /\ job.sz.inter \in Nat \ {0}
         /\ job.sz.groupSize \in Nat \ {0} /\ job.bias \in BOOLEAN
         /\ job.model \in Converted \cup {"w16a16", "mixtral"}
  BY LoadingAssumption DEF JobOK, Hidden

LEMMA Widths ==
  ASSUME JobOK, NEW m \in LinearNames \cup FusedNames
  PROVE  Out(m) \in Nat \ {0} /\ In(m) \in Nat \ {0} /\ Groups(m) \in 0 .. In(m)
  <1>1. Out(m) \in Nat \ {0}
    BY JobFacts DEF Out, LinearNames, FusedNames
  <1>2. In(m) \in Nat \ {0}
    BY JobFacts DEF In
  <1>3. Groups(m) \in 0 .. In(m)
    <2>1. PICK d \in Nat \ {0} : d = job.sz.groupSize
      BY JobFacts
    <2>2. PICK g \in Nat, r \in 0 .. d - 1 : g = In(m) \div d /\ In(m) = g * d + r
      BY <1>2, DivMod
    <2>3. PICK c \in Nat : d = c + 1
      <3>1. d - 1 \in Nat /\ d = (d - 1) + 1
        OBVIOUS
      <3> QED  BY <3>1
    <2>4. g * d = g * c + g /\ g * c \in Nat
      BY <2>3
    <2> QED  BY <1>2, <2>1, <2>2, <2>4 DEF Groups
  <1> QED  BY <1>1, <1>2, <1>3

LEMMA LinearNamed ==
  ASSUME JobOK, NEW m, NEW e
  PROVE  /\ <<m, e>> \in Linears => m \in LinearNames /\ <<Fused(m), e>> \in FusedLinears
                                      /\ (m \notin {"w1", "w2", "w3"} => e = 0)
         /\ <<m, e>> \in FusedLinears => m \in FusedNames
  <1>1. <<m, e>> \in Linears => m \in LinearNames /\ <<Fused(m), e>> \in FusedLinears
                                  /\ (m \notin {"w1", "w2", "w3"} => e = 0)
    BY DEF Linears, FusedLinears, LinearNames, Fused, Attention
  <1>2. <<m, e>> \in FusedLinears => m \in FusedNames
    BY DEF FusedLinears, FusedNames
  <1> QED  BY <1>1, <1>2

(* A layer and the fused one it is a part of are stored alike.             *)
LEMMA SlotAlike ==
  ASSUME JobOK, NEW m \in LinearNames
  PROVE  /\ In(Fused(m)) = In(m) /\ Groups(Fused(m)) = Groups(m)
         /\ Scheme(Fused(m)) = Scheme(m) /\ SuffixesOf(Fused(m)) = SuffixesOf(m)
         /\ Fused(m) \in FusedNames
  <1>1. In(Fused(m)) = In(m) /\ Fused(m) \in FusedNames
    BY DEF In, Fused, LinearNames, FusedNames, Attention
  <1>2. Scheme(Fused(m)) = Scheme(m)
    BY DEF Scheme, Fused, LinearNames, Attention
  <1>3. m \in Attention \cup {"qkv_proj", "o_proj"} <=> Fused(m) \in Attention \cup {"qkv_proj", "o_proj"}
    BY DEF Fused, LinearNames, Attention
  <1> QED  BY <1>1, <1>2, <1>3 DEF Groups, SuffixesOf

LEMMA SlotFits ==
  ASSUME JobOK, NEW m \in LinearNames
  PROVE  Offset(m) \in Nat /\ Offset(m) + Out(m) <= Out(Fused(m))
  <1>1. PICK q \in Nat, kv \in Nat, inter \in Nat :
             q = Hidden /\ kv = job.sz.kv /\ inter = job.sz.inter
    BY JobFacts
  <1> QED  BY <1>1 DEF LinearNames, Out, Offset, Fused, Attention

LEMMA SlotElements ==
  ASSUME JobOK, NEW m \in LinearNames, NEW e, NEW i \in 0 .. Out(m) - 1, NEW j
  PROVE  FusedElement(Fused(m), e, Offset(m) + i, j) = <<m, e, i, j>>
  <1>1. PICK q \in Nat, kv \in Nat, inter \in Nat :
             q = Hidden /\ kv = job.sz.kv /\ inter = job.sz.inter
    BY JobFacts
  <1>2. i \in Nat /\ i < Out(m)
    BY Widths
  <1>3. CASE m \in Attention
    BY <1>1, <1>2, <1>3 DEF Out, Offset, Fused, Attention, FusedElement
  <1>4. CASE m \in {"gate_proj", "up_proj"}
    BY <1>1, <1>2, <1>4 DEF Out, Offset, Fused, Attention, FusedElement
  <1>5. CASE m \in {"w1", "w3"}
    BY <1>1, <1>2, <1>5 DEF Out, Offset, Fused, Attention, FusedElement
  <1>6. CASE m \in {"o_proj", "down_proj", "w2"}
    BY <1>1, <1>2, <1>6 DEF Out, Offset, Fused, Attention, FusedElement
  <1> QED  BY <1>3, <1>4, <1>5, <1>6 DEF LinearNames, Attention

(* Every row of a fused layer is in one of its parts.                      *)
LEMMA SlotsCover ==
  ASSUME JobOK, NEW m, NEW e, <<m, e>> \in FusedLinears, NEW i \in 0 .. Out(m) - 1
  PROVE  \E x \in LinearNames : /\ <<x, e>> \in Linears /\ Fused(x) = m
                                /\ i \in Offset(x) .. Offset(x) + Out(x) - 1
  <1>1. PICK q \in Nat, kv \in Nat, inter \in Nat :
             q = Hidden /\ kv = job.sz.kv /\ inter = job.sz.inter
    BY JobFacts
  <1>2. CASE m = "qkv_proj"
    <2>1. /\ <<"q_proj", e>> \in Linears /\ <<"k_proj", e>> \in Linears /\ <<"v_proj", e>> \in Linears
          /\ Fused("q_proj") = m /\ Fused("k_proj") = m /\ Fused("v_proj") = m
      BY <1>2 DEF Linears, FusedLinears, Fused, Attention
    <2>2. /\ Offset("q_proj") = 0 /\ Out("q_proj") = q /\ Offset("k_proj") = q /\ Out("k_proj") = kv
          /\ Offset("v_proj") = q + kv /\ Out("v_proj") = kv /\ Out(m) = q + 2 * kv
      BY <1>1, <1>2 DEF Offset, Out
    <2>3. \/ i \in 0 .. 0 + q - 1 \/ i \in q .. q + kv - 1 \/ i \in q + kv .. q + kv + kv - 1
      BY <2>2
    <2> QED  BY <2>1, <2>2, <2>3 DEF LinearNames, Attention
  <1>3. CASE m = "gate_up_proj"
    <2>1. /\ <<"gate_proj", e>> \in Linears /\ <<"up_proj", e>> \in Linears
          /\ Fused("gate_proj") = m /\ Fused("up_proj") = m
      BY <1>3 DEF Linears, FusedLinears, Fused, Attention
    <2>2. /\ Offset("gate_proj") = 0 /\ Out("gate_proj") = inter
          /\ Offset("up_proj") = inter /\ Out("up_proj") = inter /\ Out(m) = 2 * inter
      BY <1>1, <1>3 DEF Offset, Out
    <2>3. \/ i \in 0 .. 0 + inter - 1 \/ i \in inter .. inter + inter - 1
      BY <2>2
    <2> QED  BY <2>1, <2>2, <2>3 DEF LinearNames
  <1>4. CASE m = "w1_w3"
    <2>1. /\ <<"w1", e>> \in Linears /\ <<"w3", e>> \in Linears
          /\ Fused("w1") = m /\ Fused("w3") = m
      BY <1>4 DEF Linears, FusedLinears, Fused, Attention
    <2>2. /\ Offset("w1") = 0 /\ Out("w1") = inter
          /\ Offset("w3") = inter /\ Out("w3") = inter /\ Out(m) = 2 * inter
      BY <1>1, <1>4 DEF Offset, Out
    <2>3. \/ i \in 0 .. 0 + inter - 1 \/ i \in inter .. inter + inter - 1
      BY <2>2
    <2> QED  BY <2>1, <2>2, <2>3 DEF LinearNames
  <1>5. CASE m \in {"o_proj", "down_proj", "w2"}
    <2>1. <<m, e>> \in Linears /\ Fused(m) = m
      BY <1>5 DEF Linears, FusedLinears, Fused, Attention
    <2>2. Offset(m) = 0 /\ Out(m) \in Nat
      BY <1>5, Widths DEF Offset, LinearNames
    <2> QED  BY <1>5, <2>1, <2>2 DEF LinearNames
  <1> QED  BY <1>2, <1>3, <1>4, <1>5, LinearNamed DEF FusedNames

LEMMA ModSum ==
  ASSUME NEW a \in Nat, NEW b \in Nat, NEW d \in Nat \ {0}, a % d = 0, b % d = 0
  PROVE  (a + b) % d = 0 /\ 0 % d = 0
  <1>1. PICK k \in Nat : b = k * d
    BY Whole
  <1>2. (a + k * d) % d = a % d
    BY DivShift
  <1>3. 0 % d = 0
    OBVIOUS
  <1> QED  BY <1>1, <1>2, <1>3

(* When all layers pack, the parts of a packed layer are whole tiles.      *)
LEMMA SlotTiles ==
  ASSUME JobOK, AllPack, NEW m, NEW e, <<m, e>> \in Linears, Scheme(m) \in {"channel", "group"}
  PROVE  Out(m) % RowTile = 0 /\ Offset(m) % RowTile = 0 /\ In(m) % ColTile = 0
  <1>1. Out(m) % RowTile = 0 /\ In(m) % ColTile = 0
    BY DEF AllPack, Packs, WholeTiles
  <1>2. Offset(m) % RowTile = 0
    <2>1. RowTile \in Nat \ {0} /\ 0 % RowTile = 0
      BY TileFacts, ModSum
    <2>2. CASE m \in Attention
      <3>1. \A x \in Attention : <<x, 0>> \in Linears /\ Scheme(x) = Scheme(m)
        BY <2>2 DEF Linears, Scheme, Attention
      <3>2. \A x \in Attention : Out(x) % RowTile = 0
        BY <3>1 DEF AllPack, Packs, WholeTiles
      <3>3. Hidden % RowTile = 0 /\ job.sz.kv % RowTile = 0
        <4>1. Out("q_proj") = Hidden /\ Out("k_proj") = job.sz.kv
          BY DEF Out
        <4> QED  BY <4>1, <3>2 DEF Attention
      <3>4. (Hidden + job.sz.kv) % RowTile = 0
        BY <2>1, <3>3, JobFacts, ModSum
      <3> QED  BY <2>1, <2>2, <3>3, <3>4 DEF Offset, Attention
    <2>3. CASE m \notin Attention
      <3>1. m \in {"up_proj", "w3"} => Out(m) = job.sz.inter
        BY DEF Out
      <3> QED  BY <1>1, <2>1, <2>3, <3>1 DEF Offset, Attention
    <2> QED  BY <2>2, <2>3
  <1> QED  BY <1>1, <1>2

LEMMA PackedSuffixes ==
  ASSUME JobOK, NEW m \in LinearNames, NEW s \in SuffixesOf(m)
  PROVE  /\ s \in ByGroup => Scheme(m) = "group"
         /\ s = "qweight" => Scheme(m) \in {"channel", "group"}
  <1>1. Scheme(m) \in {"channel", "group", "int8", "fp16"}
    BY JobFacts DEF Scheme, Converted
  <1> QED  BY <1>1 DEF SuffixesOf, SchemeSuffixes, ByGroup

LEMMA StoreSizes ==
  ASSUME JobOK, AllPack, NEW m, NEW e, <<m, e>> \in Linears, NEW s \in SuffixesOf(m),
         NEW x \in {m, Fused(m)}
  PROVE  StoreRows(s, Out(x), Groups(x)) \in Nat \ {0} /\ StoreCols(s, Out(x), In(x)) \in Nat
  <1>1. m \in LinearNames
    BY LinearNamed
  <1>2. Out(x) \in Nat \ {0} /\ In(x) \in Nat \ {0} /\ Groups(x) \in Nat
    BY <1>1, SlotAlike, Widths
  <1>3. StoreCols(s, Out(x), In(x)) \in Nat
    BY <1>2 DEF StoreCols
  <1>4. s \in ByGroup => Groups(x) # 0
    <2>1. s \in ByGroup => In(m) % job.sz.groupSize = 0
      BY <1>1, PackedSuffixes DEF AllPack, Packs
    <2>2. In(m) % job.sz.groupSize = 0 => Groups(m) # 0
      <3>1. PICK d \in Nat \ {0} : d = job.sz.groupSize
        BY JobFacts
      <3>2. PICK v \in Nat \ {0} : v = In(m)
        BY <1>1, Widths
      <3>3. v % d = 0 => v \div d # 0
        BY DivMod
      <3> QED  BY <3>1, <3>2, <3>3 DEF Groups
    <2> QED  BY <2>1, <2>2, <1>1, SlotAlike
  <1> QED  BY <1>2, <1>3, <1>4 DEF StoreRows

-----------------------------------------------------------------------------
(* What packing the whole fused matrix gives.                              *)
FusedTensor(m, e) == Tensor(Out(m), In(m), LAMBDA i, j : FusedElement(m, e, i, j))
Expected(m, e, s) == Store(s, Out(m), In(m), Groups(m), FusedTensor(m, e))

(* A part, packed on its own, is the cells of its slot.                    *)
LEMMA SlotPacked ==
  ASSUME JobOK, AllPack, NEW m, NEW e, <<m, e>> \in Linears, NEW s \in SuffixesOf(m)
  PROVE  IF s \in ByGroup
         THEN \A i \in 0 .. Groups(m) - 1, j \in 0 .. Out(m) - 1 :
                Expected(Fused(m), e, s)[i][Offset(m) + j] = Packed(m, e, s)[i][j]
         ELSE \A i \in 0 .. Out(m) - 1, j \in 0 .. StoreCols(s, Out(m), In(m)) - 1 :
                Expected(Fused(m), e, s)[Offset(m) + i][j] = Packed(m, e, s)[i][j]
  <1> DEFINE v == Tensor(Out(m), In(m), LAMBDA i, j : <<m, e, i, j>>)
             w == FusedTensor(Fused(m), e)
             out == Out(Fused(m))
  <1>1. m \in LinearNames
    BY LinearNamed
  <1>2. /\ In(Fused(m)) = In(m) /\ Groups(Fused(m)) = Groups(m) /\ out \in Nat
        /\ Out(m) \in Nat /\ In(m) \in Nat \ {0} /\ Groups(m) \in 0 .. In(m)
        /\ Offset(m) \in Nat /\ Offset(m) + Out(m) <= out
    BY <1>1, SlotAlike, SlotFits, Widths
  <1>3. RowsFrom(w, Offset(m), v, Out(m), In(m))
    <2> SUFFICES ASSUME NEW x \in 0 .. Out(m) - 1, NEW y \in 0 .. In(m) - 1
                 PROVE  v[x][y] = w[Offset(m) + x][y]
      BY DEF RowsFrom
    <2>1. v[x][y] = <<m, e, x, y>>
      BY DEF Tensor
    <2>2. Offset(m) + x \in 0 .. out - 1
      BY <1>2
    <2>3. w[Offset(m) + x][y] = FusedElement(Fused(m), e, Offset(m) + x, y)
      BY <1>2, <2>2 DEF FusedTensor, Tensor
    <2> QED  BY <1>1, <2>1, <2>3, SlotElements
  <1>4. s \in ByGroup \cup {"qweight"} => Scheme(m) \in {"channel", "group"}
    BY <1>1, PackedSuffixes
  <1>5. s \in ByGroup \cup {"qweight"} =>
          Out(m) % RowTile = 0 /\ Offset(m) % RowTile = 0 /\ In(m) % ColTile = 0
    BY <1>4, SlotTiles
  <1>6. Expected(Fused(m), e, s) = Store(s, out, In(m), Groups(m), w)
    BY <1>2 DEF Expected
  <1>7. Packed(m, e, s) = Store(s, Out(m), In(m), Groups(m), v)
    BY DEF Packed
  <1> HIDE DEF v, w, out
  <1>8. IF s \in ByGroup
        THEN \A i \in 0 .. Groups(m) - 1, j \in 0 .. Out(m) - 1 :
               Store(s, out, In(m), Groups(m), w)[i][Offset(m) + j]
                 = Store(s, Out(m), In(m), Groups(m), v)[i][j]
        ELSE \A i \in 0 .. Out(m) - 1, j \in 0 .. StoreCols(s, Out(m), In(m)) - 1 :
               Store(s, out, In(m), Groups(m), w)[Offset(m) + i][j]
                 = Store(s, Out(m), In(m), Groups(m), v)[i][j]
    <2>1. Cut(s, out, Out(m), In(m), Groups(m), Offset(m))
      BY <1>2, <1>5 DEF Cut
    <2> QED  BY <1>3, <2>1, StoreShift
  <1> QED  BY <1>6, <1>7, <1>8

LEMMA PackedShape ==
  ASSUME NEW m, NEW e, NEW s
  PROVE  /\ Shape(Packed(m, e, s), StoreRows(s, Out(m), Groups(m)), StoreCols(s, Out(m), In(m)))
         /\ Shape(Expected(m, e, s), StoreRows(s, Out(m), Groups(m)), StoreCols(s, Out(m), In(m)))
  <1> DEFINE v == Tensor(Out(m), In(m), LAMBDA i, j : <<m, e, i, j>>)
             w == FusedTensor(m, e)
  <1>1. Shape(v, Out(m), In(m)) /\ Shape(w, Out(m), In(m))
    BY DEF Tensor, Shape, FusedTensor
  <1>2. Packed(m, e, s) = Store(s, Out(m), In(m), Groups(m), v)
    BY DEF Packed
  <1>3. Expected(m, e, s) = Store(s, Out(m), In(m), Groups(m), w)
    BY DEF Expected
  <1> HIDE DEF v, w
  <1> QED  BY <1>1, <1>2, <1>3, StoreShape

-----------------------------------------------------------------------------
(* The job does not change, and so nothing that is read off it.            *)
LEMMA JobStays ==
  ASSUME job' = job
  PROVE  /\ JobOK' = JobOK /\ AllPack' = AllPack /\ Linears' = Linears /\ FusedLinears' = FusedLinears
         /\ LinearParams' = LinearParams /\ FreshParams' = FreshParams
         /\ OtherTensors' = OtherTensors /\ TensorsOf(Linears)' = TensorsOf(Linears) /\ Others' = Others
         /\ \A m : /\ Offset(m)' = Offset(m) /\ Out(m)' = Out(m) /\ In(m)' = In(m)
                   /\ Groups(m)' = Groups(m) /\ SuffixesOf(m)' = SuffixesOf(m) /\ Rows(m)' = Rows(m)
                   /\ Packs(m)' = Packs(m) /\ Scheme(m)' = Scheme(m)
         /\ \A m, e, s : Expected(m, e, s)' = Expected(m, e, s)
  <1>1. \A m : /\ Offset(m)' = Offset(m) /\ Out(m)' = Out(m) /\ In(m)' = In(m) /\ Rows(m)' = Rows(m)
               /\ Scheme(m)' = Scheme(m)
    BY DEF Offset, Out, In, Rows, Scheme, Hidden
  <1>2. \A m : Groups(m)' = Groups(m) /\ SuffixesOf(m)' = SuffixesOf(m) /\ Packs(m)' = Packs(m)
    BY <1>1 DEF Groups, SuffixesOf, Packs
  <1>3. Linears' = Linears /\ FusedLinears' = FusedLinears /\ Others' = Others
    BY DEF Linears, FusedLinears, Others
  <1>4. AllPack' = AllPack
    BY <1>2, <1>3 DEF AllPack
  <1>5. JobOK' = JobOK
    BY <1>4 DEF JobOK
  <1>6. LinearParams' = LinearParams
    BY <1>2, <1>3 DEF LinearParams
  <1>7. FreshParams' = FreshParams
    BY DEF FreshParams, LinearParams, FusedLinears, SuffixesOf, Packed, Rows, Others, Groups, Out, In,
           Hidden, Scheme, Tensor
  <1>8. OtherTensors' = OtherTensors
    BY DEF OtherTensors, Others, Rows, Hidden, Tensor
  <1>9. TensorsOf(Linears)' = TensorsOf(Linears)
    BY DEF TensorsOf, Linears, FromLinear, SuffixesOf, Packed, Groups, Out, In, Hidden, Scheme, Tensor
  <1>10. \A m, e, s : Expected(m, e, s)' = Expected(m, e, s)
    BY DEF Expected, FusedTensor, FusedElement, Groups, Out, In, Hidden, Tensor
  <1> QED  BY <1>1, <1>2, <1>3, <1>4, <1>5, <1>6, <1>7, <1>8, <1>9, <1>10

-----------------------------------------------------------------------------
(* The tensors of a checkpoint.                                            *)
OtherNames == {<<m, 0, "weight">> : m \in Others} \cup {<<"rotary_emb", 0, "inv_freq">>}
Exempt(s)  == s = "bias" /\ job.model \in Converted

LEMMA FromLinearFacts ==
  ASSUME NEW m, NEW e
  PROVE  /\ DOMAIN FromLinear(<<m, e>>) = {<<m, e, s>> : s \in SuffixesOf(m)}
         /\ \A s \in SuffixesOf(m) :
              /\ ~Exempt(s) => FromLinear(<<m, e>>)[<<m, e, s>>] = Packed(m, e, s)
              /\ Shape(FromLinear(<<m, e>>)[<<m, e, s>>],
                       StoreRows(s, Out(m), Groups(m)), StoreCols(s, Out(m), In(m)))
  <1>1. FromLinear(<<m, e>>) =
          [n \in {<<m, e, s>> : s \in SuffixesOf(m)} |->
             IF n[3] = "bias" /\ job.model \in Converted
             THEN Tensor(Out(m), 1, LAMBDA i, j : Uninitialized) ELSE Packed(m, e, n[3])]
    BY DEF FromLinear, Tensor
  <1>2. Shape(Tensor(Out(m), 1, LAMBDA i, j : Uninitialized), Out(m), 1)
    BY DEF Tensor, Shape
  <1>3. StoreRows("bias", Out(m), Groups(m)) = Out(m) /\ StoreCols("bias", Out(m), In(m)) = 1
    BY DEF StoreRows, StoreCols, ByGroup
  <1>4. \A s \in SuffixesOf(m) :
          FromLinear(<<m, e>>)[<<m, e, s>>] =
            IF Exempt(s) THEN Tensor(Out(m), 1, LAMBDA i, j : Uninitialized) ELSE Packed(m, e, s)
    BY <1>1 DEF Exempt, Tensor
  <1>5. \A s \in SuffixesOf(m) : Exempt(s) => s = "bias"
    BY DEF Exempt
  <1>6. DOMAIN FromLinear(<<m, e>>) = {<<m, e, s>> : s \in SuffixesOf(m)}
    BY <1>1, Zenon
  <1> HIDE <1>1
  <1>7. \A s \in SuffixesOf(m) :
          Shape(FromLinear(<<m, e>>)[<<m, e, s>>],
                StoreRows(s, Out(m), Groups(m)), StoreCols(s, Out(m), In(m)))
    <2> SUFFICES ASSUME NEW s \in SuffixesOf(m)
                 PROVE  Shape(FromLinear(<<m, e>>)[<<m, e, s>>],
                              StoreRows(s, Out(m), Groups(m)), StoreCols(s, Out(m), In(m)))
      OBVIOUS
    <2>1. CASE Exempt(s)
      BY <1>2, <1>3, <1>4, <1>5, <2>1, Zenon
    <2>2. CASE ~Exempt(s)
      BY <1>4, <2>2, PackedShape, Zenon
    <2> QED  BY <2>1, <2>2
  <1> QED  BY <1>4, <1>6, <1>7, Zenon

LEMMA LinearPairs ==
  ASSUME NEW l, l \in Linears \/ l \in FusedLinears
  PROVE  l = <<l[1], l[2]>>
  BY DEF Linears, FusedLinears

LEMMA TensorNames ==
  ASSUME NEW layers, layers \subseteq Linears
  PROVE  /\ \A n : n \in DOMAIN TensorsOf(layers) <=>
                     \E m, e, s : n = <<m, e, s>> /\ <<m, e>> \in layers /\ s \in SuffixesOf(m)
         /\ \A m, e, s : <<m, e>> \in layers /\ s \in SuffixesOf(m) =>
                           TensorsOf(layers)[<<m, e, s>>] = FromLinear(<<m, e>>)[<<m, e, s>>]
  <1>1. DOMAIN TensorsOf(layers) = UNION {DOMAIN FromLinear(l) : l \in layers}
    BY DEF TensorsOf
  <1>2. \A n : n \in DOMAIN TensorsOf(layers) <=>
                 \E m, e, s : n = <<m, e, s>> /\ <<m, e>> \in layers /\ s \in SuffixesOf(m)
    <2> SUFFICES ASSUME NEW n
                 PROVE  n \in DOMAIN TensorsOf(layers) <=>
                          \E m, e, s : n = <<m, e, s>> /\ <<m, e>> \in layers /\ s \in SuffixesOf(m)
      OBVIOUS
    <2>1. ASSUME n \in DOMAIN TensorsOf(layers)
          PROVE  \E m, e, s : n = <<m, e, s>> /\ <<m, e>> \in layers /\ s \in SuffixesOf(m)
      <3>1. PICK l \in layers : n \in DOMAIN FromLinear(l)
        BY <1>1, <2>1
      <3>2. l = <<l[1], l[2]>>
        BY LinearPairs
      <3>3. PICK m, e : l = <<m, e>>
        BY <3>2, Zenon
      <3>4. PICK s \in SuffixesOf(m) : n = <<m, e, s>>
        <4>1. DOMAIN FromLinear(<<m, e>>) = {<<m, e, s>> : s \in SuffixesOf(m)}
          BY FromLinearFacts
        <4> QED  BY <3>1, <3>3, <4>1, Zenon
      <3> QED  BY <3>3, <3>4, Zenon
    <2>2. ASSUME NEW m, NEW e, NEW s, n = <<m, e, s>>, <<m, e>> \in layers, s \in SuffixesOf(m)
          PROVE  n \in DOMAIN TensorsOf(layers)
      <3>1. n \in DOMAIN FromLinear(<<m, e>>)
        BY <2>2, FromLinearFacts
      <3> QED  BY <1>1, <2>2, <3>1
    <2> QED  BY <2>1, <2>2
  <1>3. ASSUME NEW m, NEW e, NEW s, <<m, e>> \in layers, s \in SuffixesOf(m)
        PROVE  TensorsOf(layers)[<<m, e, s>>] = FromLinear(<<m, e>>)[<<m, e, s>>]
    <2>1. <<m, e, s>> \in DOMAIN TensorsOf(layers)
      BY <1>2, <1>3
    <2>2. TensorsOf(layers) =
            [n \in DOMAIN TensorsOf(layers) |-> FromLinear(<<n[1], n[2]>>)[n]]
      BY <1>1 DEF TensorsOf
    <2>3. <<m, e, s>>[1] = m /\ <<m, e, s>>[2] = e
      OBVIOUS
    <2> QED  BY <2>1, <2>2, <2>3
  <1> QED  BY <1>2, <1>3

LEMMA OneMoreConverted ==
  ASSUME NEW layers, layers \subseteq Linears, NEW l \in Linears
  PROVE  Joined(TensorsOf(layers), FromLinear(l)) = TensorsOf(layers \cup {l})
  <1>1. PICK m, e : l = <<m, e>>
    BY LinearPairs, Zenon
  <1>2. layers \cup {l} \subseteq Linears
    OBVIOUS
  <1>3. DOMAIN TensorsOf(layers \cup {l}) = DOMAIN TensorsOf(layers) \cup DOMAIN FromLinear(l)
    BY DEF TensorsOf
  <1>4. \A n \in DOMAIN TensorsOf(layers \cup {l}) :
          TensorsOf(layers \cup {l})[n] =
            IF n \in DOMAIN TensorsOf(layers) THEN TensorsOf(layers)[n] ELSE FromLinear(l)[n]
    <2> SUFFICES ASSUME NEW n \in DOMAIN TensorsOf(layers \cup {l})
                 PROVE  TensorsOf(layers \cup {l})[n] =
                          IF n \in DOMAIN TensorsOf(layers) THEN TensorsOf(layers)[n] ELSE FromLinear(l)[n]
      OBVIOUS
    <2>1. CASE n \in DOMAIN TensorsOf(layers)
      BY <2>1 DEF TensorsOf
    <2>2. CASE n \notin DOMAIN TensorsOf(layers)
      <3>1. PICK s \in SuffixesOf(m) : n = <<m, e, s>>
        <4>1. DOMAIN FromLinear(<<m, e>>) = {<<m, e, s>> : s \in SuffixesOf(m)}
          BY FromLinearFacts
        <4>2. n \in DOMAIN FromLinear(l)
          BY <1>3, <2>2
        <4> QED  BY <1>1, <4>1, <4>2, Zenon
      <3> QED  BY <1>1, <1>2, <2>2, <3>1, TensorNames
    <2> QED  BY <2>1, <2>2
  <1>5. TensorsOf(layers \cup {l}) =
          [n \in DOMAIN TensorsOf(layers \cup {l}) |-> TensorsOf(layers \cup {l})[n]]
    BY DEF TensorsOf
  <1>6. Joined(TensorsOf(layers), FromLinear(l)) =
          [n \in DOMAIN TensorsOf(layers) \cup DOMAIN FromLinear(l) |->
             IF n \in DOMAIN TensorsOf(layers) THEN TensorsOf(layers)[n] ELSE FromLinear(l)[n]]
    BY DEF Joined
  <1> QED  BY <1>3, <1>4, <1>5, <1>6, Zenon

CkptRows(m) == IF m \in {"embed_tokens", "lm_head"} THEN CkptVocabSize ELSE Rows(m)

LEMMA OtherFacts ==
  ASSUME JobOK, NEW m \in Others
  PROVE  /\ Rows(m) \in Nat \ {0} /\ CkptRows(m) \in Nat \ {0} /\ m \notin LinearNames \cup FusedNames
         /\ m \in Modules /\ m # "rotary_emb"
  <1>1. Rows(m) \in Nat \ {0}
    BY JobFacts, LoadingAssumption DEF Rows, Others
  <1>2. CkptRows(m) \in Nat \ {0}
    BY <1>1, LoadingAssumption DEF CkptRows
  <1> QED  BY <1>1, <1>2 DEF Others, LinearNames, FusedNames, Attention, Modules

LEMMA OtherTensorFacts ==
  ASSUME JobOK, NEW m \in Others
  PROVE  LET t == OtherTensors[<<m, 0, "weight">>]
         IN  /\ <<m, 0, "weight">> \in DOMAIN OtherTensors
             /\ Shape(t, CkptRows(m), 1) /\ \A i \in 0 .. CkptRows(m) - 1 : t[i][0] = <<m, 0, i, 0>>
  <1> DEFINE n == <<m, 0, "weight">>
  <1>1. n \in DOMAIN OtherTensors
    BY DEF OtherTensors
  <1>2. OtherTensors[n] = Tensor(CkptRows(m), 1, LAMBDA i, j : <<m, 0, i, j>>)
    BY OtherFacts DEF OtherTensors, CkptRows, Tensor
  <1>3. /\ Shape(Tensor(CkptRows(m), 1, LAMBDA i, j : <<m, 0, i, j>>), CkptRows(m), 1)
        /\ \A i \in 0 .. CkptRows(m) - 1 :
             Tensor(CkptRows(m), 1, LAMBDA x, j : <<m, 0, x, j>>)[i][0] = <<m, 0, i, 0>>
    BY DEF Tensor, Shape
  <1> QED  BY <1>1, <1>2, <1>3

LEMMA CkptFacts ==
  ASSUME JobOK, ckpt = Joined(TensorsOf(Linears), OtherTensors)
  PROVE  /\ \A n \in DOMAIN ckpt :
              \/ n \in OtherNames
              \/ \E m, e, s : n = <<m, e, s>> /\ <<m, e>> \in Linears /\ s \in SuffixesOf(m)
         /\ \A m, e, s : <<m, e>> \in Linears /\ s \in SuffixesOf(m) =>
              /\ <<m, e, s>> \in DOMAIN ckpt
              /\ ~Exempt(s) => ckpt[<<m, e, s>>] = Packed(m, e, s)
              /\ Shape(ckpt[<<m, e, s>>],
                       StoreRows(s, Out(m), Groups(m)), StoreCols(s, Out(m), In(m)))
         /\ \A m \in Others :
              /\ <<m, 0, "weight">> \in DOMAIN ckpt
              /\ ckpt[<<m, 0, "weight">>] = OtherTensors[<<m, 0, "weight">>]
  <1>1. DOMAIN ckpt = DOMAIN TensorsOf(Linears) \cup DOMAIN OtherTensors
    BY DEF Joined
  <1>2. \A n \in DOMAIN ckpt :
          ckpt[n] = IF n \in DOMAIN TensorsOf(Linears) THEN TensorsOf(Linears)[n] ELSE OtherTensors[n]
    BY DEF Joined
  <1>3. \A n : n \in DOMAIN TensorsOf(Linears) <=>
                 \E m, e, s : n = <<m, e, s>> /\ <<m, e>> \in Linears /\ s \in SuffixesOf(m)
    BY TensorNames
  <1>4. DOMAIN OtherTensors = OtherNames
    BY DEF OtherTensors, OtherNames
  <1>5. ASSUME NEW m, NEW e, NEW s, <<m, e>> \in Linears, s \in SuffixesOf(m)
        PROVE  /\ <<m, e, s>> \in DOMAIN ckpt
               /\ ~Exempt(s) => ckpt[<<m, e, s>>] = Packed(m, e, s)
               /\ Shape(ckpt[<<m, e, s>>],
                        StoreRows(s, Out(m), Groups(m)), StoreCols(s, Out(m), In(m)))
    <2>1. <<m, e, s>> \in DOMAIN TensorsOf(Linears)
      BY <1>3, <1>5
    <2>2. ckpt[<<m, e, s>>] = FromLinear(<<m, e>>)[<<m, e, s>>]
      BY <1>1, <1>2, <1>5, <2>1, TensorNames
    <2> QED  BY <1>1, <1>5, <2>1, <2>2, FromLinearFacts
  <1>6. ASSUME NEW m \in Others
        PROVE  /\ <<m, 0, "weight">> \in DOMAIN ckpt
               /\ ckpt[<<m, 0, "weight">>] = OtherTensors[<<m, 0, "weight">>]
    <2>1. <<m, 0, "weight">> \in DOMAIN OtherTensors
      BY <1>4 DEF OtherNames
    <2>2. <<m, 0, "weight">> \notin DOMAIN TensorsOf(Linears)
      <3>1. ASSUME NEW x, NEW e, NEW s, <<m, 0, "weight">> = <<x, e, s>>, <<x, e>> \in Linears
            PROVE  FALSE
        BY <3>1, LinearNamed, OtherFacts
      <3> QED  BY <1>3, <3>1
    <2> QED  BY <1>1, <1>2, <2>1, <2>2
  <1> QED  BY <1>1, <1>3, <1>4, <1>5, <1>6

ParamsOK(ps) ==
  /\ DOMAIN ps = DOMAIN FreshParams
  /\ \A m, e, s : <<m, e>> \in FusedLinears /\ s \in SuffixesOf(m) =>
       Shape(ps[<<m, e, s>>], StoreRows(s, Out(m), Groups(m)), StoreCols(s, Out(m), In(m)))
  /\ \A m \in Others : Shape(ps[<<m, 0, "weight">>], Rows(m), 1)

LEMMA LinearParamNames ==
  ASSUME NEW n
  PROVE  n \in LinearParams <=>
           \E m, e, s : n = <<m, e, s>> /\ <<m, e>> \in FusedLinears /\ s \in SuffixesOf(m)
  <1>1. ASSUME n \in LinearParams
        PROVE  \E m, e, s : n = <<m, e, s>> /\ <<m, e>> \in FusedLinears /\ s \in SuffixesOf(m)
    <2>1. PICK l \in FusedLinears : n \in {<<l[1], l[2], s>> : s \in SuffixesOf(l[1])}
      BY <1>1 DEF LinearParams
    <2>2. PICK s \in SuffixesOf(l[1]) : n = <<l[1], l[2], s>>
      BY <2>1
    <2>3. <<l[1], l[2]>> \in FusedLinears
      BY LinearPairs
    <2> QED  BY <2>2, <2>3
  <1>2. ASSUME NEW m, NEW e, NEW s, n = <<m, e, s>>, <<m, e>> \in FusedLinears, s \in SuffixesOf(m)
        PROVE  n \in LinearParams
    <2>1. n \in {<<<<m, e>>[1], <<m, e>>[2], x>> : x \in SuffixesOf(<<m, e>>[1])}
      BY <1>2
    <2> QED  BY <1>2, <2>1 DEF LinearParams
  <1> QED  BY <1>1, <1>2

LEMMA FusedSizes ==
  ASSUME JobOK, AllPack, NEW m, NEW e, <<m, e>> \in FusedLinears, NEW s \in SuffixesOf(m)
  PROVE  StoreRows(s, Out(m), Groups(m)) \in Nat \ {0} /\ StoreCols(s, Out(m), In(m)) \in Nat
  <1>1. m \in FusedNames
    BY LinearNamed
  <1>2. 0 \in 0 .. Out(m) - 1
    BY <1>1, Widths
  <1>3. PICK x \in LinearNames : <<x, e>> \in Linears /\ Fused(x) = m
    BY <1>2, SlotsCover
  <1>4. SuffixesOf(x) = SuffixesOf(m)
    BY <1>3, SlotAlike
  <1> QED  BY <1>3, <1>4, StoreSizes

LEMMA FreshShapes ==
  ASSUME JobOK, AllPack
  PROVE  /\ ParamsOK(FreshParams)
         /\ DOMAIN FreshParams = LinearParams \cup {<<m, 0, "weight">> : m \in Others}
  <1> DEFINE f == [n \in LinearParams |->
                     LET t == Packed(n[1], n[2], n[3])
                     IN  Tensor(NumRows(t), NumCols(t), LAMBDA i, j : Unset)]
             g == [n \in {<<m, 0, "weight">> : m \in Others} |-> Tensor(Rows(n[1]), 1, LAMBDA i, j : Unset)]
  <1>1. FreshParams = Joined(f, g)
    BY DEF FreshParams
  <1>2. DOMAIN f = LinearParams /\ DOMAIN g = {<<m, 0, "weight">> : m \in Others}
    OBVIOUS
  <1>3. \A n \in LinearParams : f[n] = Tensor(NumRows(Packed(n[1], n[2], n[3])),
                                              NumCols(Packed(n[1], n[2], n[3])), LAMBDA i, j : Unset)
    BY DEF Tensor
  <1>4. \A m \in Others : g[<<m, 0, "weight">>] = Tensor(Rows(m), 1, LAMBDA i, j : Unset)
    BY DEF Tensor
  <1>5. \A a, b : Shape(Tensor(a, b, LAMBDA i, j : Unset), a, b)
    BY DEF Tensor, Shape
  <1> DEFINE U(a, b) == Tensor(a, b, LAMBDA i, j : Unset)
  <1>6. /\ \A n \in LinearParams : f[n] = U(NumRows(Packed(n[1], n[2], n[3])),
                                           NumCols(Packed(n[1], n[2], n[3])))
        /\ \A m \in Others : g[<<m, 0, "weight">>] = U(Rows(m), 1)
        /\ \A a, b : Shape(U(a, b), a, b)
    BY <1>3, <1>4, <1>5
  <1> HIDE DEF f, g, U
  <1>7. /\ DOMAIN FreshParams = LinearParams \cup {<<m, 0, "weight">> : m \in Others}
        /\ \A n \in DOMAIN FreshParams : FreshParams[n] = IF n \in LinearParams THEN f[n] ELSE g[n]
    BY <1>1, <1>2 DEF Joined
  <1>8. ASSUME NEW m, NEW e, NEW s, <<m, e>> \in FusedLinears, s \in SuffixesOf(m)
        PROVE  Shape(FreshParams[<<m, e, s>>],
                     StoreRows(s, Out(m), Groups(m)), StoreCols(s, Out(m), In(m)))
    <2>1. <<m, e, s>> \in LinearParams
      BY <1>8, LinearParamNames
    <2>2. FreshParams[<<m, e, s>>] = U(NumRows(Packed(m, e, s)), NumCols(Packed(m, e, s)))
      BY <1>6, <1>7, <2>1
    <2>3. PICK r \in Nat \ {0}, c \in Nat :
               r = StoreRows(s, Out(m), Groups(m)) /\ c = StoreCols(s, Out(m), In(m))
      BY <1>8, FusedSizes
    <2>4. NumRows(Packed(m, e, s)) = r /\ NumCols(Packed(m, e, s)) = c
      BY <2>3, PackedShape, ShapeSizes
    <2> QED  BY <1>6, <2>2, <2>3, <2>4
  <1>9. ASSUME NEW m \in Others
        PROVE  Shape(FreshParams[<<m, 0, "weight">>], Rows(m), 1)
    <2>1. <<m, 0, "weight">> \notin LinearParams
      <3>1. ASSUME NEW x, NEW e, NEW s, <<m, 0, "weight">> = <<x, e, s>>, <<x, e>> \in FusedLinears
            PROVE  FALSE
        BY <3>1, LinearNamed, OtherFacts
      <3> QED  BY <3>1, LinearParamNames
    <2> QED  BY <1>6, <1>7, <2>1
  <1> QED  BY <1>7, <1>8, <1>9 DEF ParamsOK

-----------------------------------------------------------------------------
(* Copying a tensor into a part of another.                                *)
LEMMA FirstRowsFacts ==
  ASSUME NEW rows \in Nat \ {0}, NEW cols \in Nat, NEW t, Shape(t, rows, cols), NEW k \in Nat \ {0}
  PROVE  /\ Shape(FirstRows(t, k), Smaller(k, rows), cols)
         /\ \A i \in 0 .. Smaller(k, rows) - 1, j \in 0 .. cols - 1 : FirstRows(t, k)[i][j] = t[i][j]
  <1>1. NumRows(t) = rows /\ NumCols(t) = cols
    BY ShapeSizes
  <1>2. FirstRows(t, k) = [i \in 0 .. Smaller(k, rows) - 1 |-> [j \in 0 .. cols - 1 |-> t[i][j]]]
    BY <1>1 DEF FirstRows, Tensor
  <1> QED  BY <1>2 DEF Shape

(* q, of R rows and C columns, is p with t over it from off on.            *)
Overlaid(q, p, R, C, dim, off, t, rows, cols) ==
  /\ Shape(q, R, C)
  /\ \A i \in 0 .. R - 1, j \in 0 .. C - 1 :
       q[i][j] = LET r == IF dim = 0 THEN i - off ELSE i
                     c == IF dim = 0 THEN j ELSE j - off
                 IN  IF r \in 0 .. rows - 1 /\ c \in 0 .. cols - 1 THEN t[r][c] ELSE p[i][j]

LEMMA CopiedIntoFacts ==
  ASSUME NEW R \in Nat \ {0}, NEW C \in Nat, NEW rows \in Nat \ {0}, NEW cols \in Nat,
         NEW p, Shape(p, R, C), NEW t, Shape(t, rows, cols), NEW dim \in {0, 1}, NEW off \in Nat
  PROVE  Overlaid(CopiedInto(p, dim, off, t), p, R, C, dim, off, t, rows, cols)
  <1>1. /\ NumRows(p) = R /\ NumCols(p) = C /\ DOMAIN t = 0 .. rows - 1
        /\ \A i \in 0 .. rows - 1 : DOMAIN t[i] = 0 .. cols - 1
    <2>1. NumRows(p) = R /\ NumCols(p) = C
      BY ShapeSizes
    <2>2. DOMAIN t = 0 .. rows - 1 /\ \A i \in 0 .. rows - 1 : DOMAIN t[i] = 0 .. cols - 1
      BY ShapeSizes
    <2> QED  BY <2>1, <2>2
  <1>2. CopiedInto(p, dim, off, t) =
          [i \in 0 .. R - 1 |-> [j \in 0 .. C - 1 |->
             LET r == IF dim = 0 THEN i - off ELSE i
                 c == IF dim = 0 THEN j ELSE j - off
             IN  IF r \in DOMAIN t /\ c \in DOMAIN t[r] THEN t[r][c] ELSE p[i][j]]]
    BY <1>1 DEF CopiedInto, Tensor
  <1>3. Shape(CopiedInto(p, dim, off, t), R, C)
    BY <1>2 DEF Shape
  <1> QED  BY <1>1, <1>2, <1>3 DEF Overlaid

(* What loading a tensor of a linear layer does to the parameters.         *)
InSlot(m, s, i, j) == (IF s \in ByGroup THEN j ELSE i) \in Offset(m) .. Offset(m) + Out(m) - 1
ParamRows(m, s)    == StoreRows(s, Out(m), Groups(m))
ParamCols(m, s)    == StoreCols(s, Out(m), In(m))
ParamChanges(target) ==
  /\ DOMAIN params' = DOMAIN params
  /\ \A n \in DOMAIN params : n # target => params'[n] = params[n]
LoadedLinear(m, e, s) ==
  LET t == params'[<<Fused(m), e, s>>]
  IN  /\ ParamChanges(<<Fused(m), e, s>>)
      /\ Shape(t, ParamRows(Fused(m), s), ParamCols(Fused(m), s))
      /\ \A i \in 0 .. ParamRows(Fused(m), s) - 1, j \in 0 .. ParamCols(Fused(m), s) - 1 :
           /\ InSlot(m, s, i, j) /\ ~Exempt(s) => t[i][j] = Expected(Fused(m), e, s)[i][j]
           /\ ~InSlot(m, s, i, j) => t[i][j] = params[<<Fused(m), e, s>>][i][j]

LEMMA OneChanges ==
  ASSUME NEW n \in DOMAIN params, NEW t, params' = [params EXCEPT ![n] = t]
  PROVE  ParamChanges(n) /\ params'[n] = t
  BY DEF ParamChanges

CkptOK == ckpt = Joined(TensorsOf(Linears), OtherTensors)

LEMMA ShardIsSlot ==
  ASSUME JobOK, NEW m, NEW e, <<m, e>> \in Linears, m \notin {"o_proj", "down_proj"}, NEW s
  PROVE  ShardOf(<<m, e, s>>) = Shard(Fused(m), e, Offset(m), Out(m))
  <1>1. CASE m \in Attention
    <2>1. e = 0
      BY <1>1 DEF Linears, Attention
    <2> QED  BY <1>1, <2>1 DEF ShardOf, AttentionShard, Attention, Fused, Offset, Out
  <1>2. CASE m \in {"gate_proj", "up_proj"}
    <2>1. e = 0
      BY <1>2 DEF Linears
    <2> QED  BY <1>2, <2>1 DEF ShardOf, GateUpShard, Attention, Fused, Offset, Out
  <1>3. CASE m \in {"w1", "w2", "w3"}
    BY <1>3 DEF ShardOf, ExpertShard, Attention, Fused, Offset, Out
  <1> QED  BY <1>1, <1>2, <1>3, LinearNamed DEF LinearNames, Attention

(* A shard is copied to its slot; it is not when there are more groups than *)
(* it has rows.                                                            *)
LEMMA ShardLoads ==
  ASSUME JobOK, AllPack, CkptOK, ParamsOK(params), NEW m, NEW e, <<m, e>> \in Linears,
         m \notin {"o_proj", "down_proj"}, NEW s \in SuffixesOf(m), LoadShard(<<m, e, s>>)
  PROVE  \/ phase' = phase /\ LoadedLinear(m, e, s)
         \/ /\ phase' = "raised" /\ params' = params /\ Scheme(m) = "group" /\ Groups(m) > Out(m)
  <1> DEFINE n == <<m, e, s>>
             target == <<Fused(m), e, s>>
             part == FirstRows(ckpt[n], Out(m))
             want == Expected(Fused(m), e, s)
             now  == params[target]
             T    == CopiedInto(now, SliceDim(n), Offset(m), part)
  <1>1. m \in LinearNames /\ <<Fused(m), e>> \in FusedLinears
    BY LinearNamed
  <1>2. PICK o \in Nat \ {0}, in \in Nat \ {0}, g \in Nat, off \in Nat, out \in Nat \ {0} :
             /\ o = Out(m) /\ in = In(m) /\ g = Groups(m) /\ off = Offset(m) /\ out = Out(Fused(m))
             /\ off + o <= out /\ In(Fused(m)) = in /\ Groups(Fused(m)) = g
             /\ SuffixesOf(Fused(m)) = SuffixesOf(m)
    <2>1. Fused(m) \in FusedNames /\ In(Fused(m)) = In(m) /\ Groups(Fused(m)) = Groups(m)
          /\ SuffixesOf(Fused(m)) = SuffixesOf(m)
      BY <1>1, SlotAlike
    <2>2. Out(m) \in Nat \ {0} /\ In(m) \in Nat \ {0} /\ Groups(m) \in Nat /\ Out(Fused(m)) \in Nat \ {0}
      BY <1>1, <2>1, Widths
    <2> QED  BY <1>1, <2>1, <2>2, SlotFits
  <1>3. PICK r \in Nat \ {0}, c \in Nat, R \in Nat \ {0}, C \in Nat :
             /\ r = StoreRows(s, o, g) /\ c = StoreCols(s, o, in)
             /\ R = StoreRows(s, out, g) /\ C = StoreCols(s, out, in)
    BY <1>2, StoreSizes
  <1>4. Shape(ckpt[n], r, c) /\ (~Exempt(s) => ckpt[n] = Packed(m, e, s))
    BY <1>2, <1>3, CkptFacts DEF CkptOK
  <1>5. target \in DOMAIN params /\ Shape(now, R, C)
    <2>1. target \in LinearParams
      BY <1>1, <1>2, LinearParamNames
    <2>2. target \in DOMAIN params
      BY <2>1, FreshShapes DEF ParamsOK
    <2>3. Shape(now, R, C)
      BY <1>1, <1>2, <1>3 DEF ParamsOK
    <2> QED  BY <2>2, <2>3
  <1>6. ShardOf(n) = [layer |-> <<Fused(m), e>>, offset |-> off, size |-> o]
    BY <1>2, ShardIsSlot DEF Shard
  <1>7. IF SameShape(now, SliceDim(n), ShardOf(n), part)
        THEN params' = [params EXCEPT ![target] = T] /\ phase' = phase
        ELSE phase' = "raised" /\ params' = params
    <2>1. /\ <<ShardOf(n).layer[1], ShardOf(n).layer[2], n[3]>> = target
          /\ ShardOf(n).offset = Offset(m) /\ ShardOf(n).size = Out(m)
      BY <1>2, <1>6
    <2> QED  BY <1>5, <2>1 DEF LoadShard
  <1>8. /\ Shape(part, Smaller(o, r), c)
        /\ \A i \in 0 .. Smaller(o, r) - 1, j \in 0 .. c - 1 : part[i][j] = ckpt[n][i][j]
    <2>1. part = FirstRows(ckpt[n], o)
      BY <1>2
    <2> HIDE DEF part, n
    <2>2. PICK t : t = ckpt[n]
      OBVIOUS
    <2>3. Shape(t, r, c) /\ r \in Nat \ {0} /\ c \in Nat /\ o \in Nat \ {0}
      BY <1>4, <2>2
    <2>4. /\ Shape(FirstRows(t, o), Smaller(o, r), c)
          /\ \A i \in 0 .. Smaller(o, r) - 1, j \in 0 .. c - 1 : FirstRows(t, o)[i][j] = t[i][j]
      BY ONLY <2>3, FirstRowsFacts
    <2> QED  BY <2>1, <2>2, <2>4
  <1>9. PICK k \in Nat \ {0} : k = Smaller(o, r)
    BY DEF Smaller
  <1>10. NumRows(part) = k /\ NumCols(part) = c /\ NumRows(now) = R /\ NumCols(now) = C
    BY <1>3, <1>5, <1>8, <1>9, ShapeSizes
  <1>11. SliceDim(n) = IF s \in ByGroup THEN 1 ELSE 0
    BY DEF SliceDim, ByGroup
  <1>12. /\ Shape(T, R, C)
         /\ \A i \in 0 .. R - 1, j \in 0 .. C - 1 :
              T[i][j] = LET x == IF SliceDim(n) = 0 THEN i - off ELSE i
                            y == IF SliceDim(n) = 0 THEN j ELSE j - off
                        IN  IF x \in 0 .. k - 1 /\ y \in 0 .. c - 1 THEN part[x][y] ELSE now[i][j]
    <2>1. PICK dim \in {0, 1} : dim = SliceDim(n)
      BY <1>11
    <2>2. Shape(part, k, c) /\ T = CopiedInto(now, dim, off, part)
      BY <1>2, <1>8, <1>9, <2>1
    <2> HIDE DEF part, n, now, T
    <2>3. Overlaid(CopiedInto(now, dim, off, part), now, R, C, dim, off, part, k, c)
      BY <1>5, <2>2, CopiedIntoFacts
    <2> QED  BY <2>1, <2>2, <2>3 DEF Overlaid
  <1>13. IF s \in ByGroup
         THEN \A i \in 0 .. g - 1, j \in 0 .. o - 1 : want[i][off + j] = Packed(m, e, s)[i][j]
         ELSE \A i \in 0 .. o - 1, j \in 0 .. c - 1 : want[off + i][j] = Packed(m, e, s)[i][j]
    BY <1>2, <1>3, SlotPacked
  <1>14. /\ ParamRows(Fused(m), s) = R /\ ParamCols(Fused(m), s) = C
         /\ \A i, j : InSlot(m, s, i, j) <=> (IF s \in ByGroup THEN j ELSE i) \in off .. off + o - 1
    BY <1>2, <1>3 DEF ParamRows, ParamCols, InSlot
  <1> DEFINE Fits == SameShape(now, SliceDim(n), ShardOf(n), part)
  <1>7a. Fits => ParamChanges(target) /\ params'[target] = T /\ phase' = phase
    <2> HIDE DEF T, part, n, now
    <2> QED  BY <1>5, <1>7, OneChanges DEF Fits, now
  <1> HIDE DEF n, part, want, now, T, Fits
  <1>15. Fits <=> IF s \in ByGroup
                  THEN k = R /\ c = Smaller(o, C - off) ELSE k = Smaller(o, R - off) /\ c = C
    BY <1>6, <1>10, <1>11 DEF Fits, SameShape
  <1>16. CASE s \notin ByGroup
    <2>1. r = o /\ R = out /\ c = C /\ k = o
      BY <1>3, <1>9, <1>16 DEF StoreRows, StoreCols, Smaller
    <2>2. Fits
      BY <1>2, <1>15, <1>16, <2>1 DEF Smaller
    <2>3. \A i \in 0 .. R - 1, j \in 0 .. C - 1 :
            T[i][j] = IF i \in off .. off + o - 1 THEN ckpt[n][i - off][j] ELSE now[i][j]
      BY <1>8, <1>9, <1>11, <1>12, <1>16, <2>1
    <2>4. ~Exempt(s) => \A i \in off .. off + o - 1, j \in 0 .. C - 1 : ckpt[n][i - off][j] = want[i][j]
      <3> SUFFICES ASSUME ~Exempt(s), NEW i \in off .. off + o - 1, NEW j \in 0 .. C - 1
                   PROVE  ckpt[n][i - off][j] = want[i][j]
        OBVIOUS
      <3>1. i - off \in 0 .. o - 1 /\ off + (i - off) = i
        OBVIOUS
      <3> QED  BY <1>4, <1>13, <1>16, <2>1, <3>1
    <2> QED  BY <1>7a, <1>12, <1>14, <1>16, <2>2, <2>3, <2>4 DEF LoadedLinear, want, now
  <1>17. CASE s \in ByGroup
    <2>1. r = g /\ R = g /\ c = o /\ C = out
      BY <1>3, <1>17 DEF StoreRows, StoreCols, ByGroup
    <2>2. Scheme(m) = "group"
      BY <1>1, <1>17, PackedSuffixes
    <2>3. CASE g > o
      <3>1. ~Fits
        BY <1>9, <1>15, <1>17, <2>1, <2>3 DEF Smaller
      <3> QED  BY <1>2, <1>7, <2>2, <2>3, <3>1 DEF Fits
    <2>4. CASE ~(g > o)
      <3>1. k = g
        BY <1>9, <2>1, <2>4 DEF Smaller
      <3>2. Fits
        BY <1>2, <1>15, <1>17, <2>1, <3>1 DEF Smaller
      <3>3. \A i \in 0 .. R - 1, j \in 0 .. C - 1 :
              T[i][j] = IF j \in off .. off + o - 1 THEN ckpt[n][i][j - off] ELSE now[i][j]
        BY <1>8, <1>9, <1>11, <1>12, <1>17, <2>1, <3>1
      <3>4. ~Exempt(s) => \A i \in 0 .. R - 1, j \in off .. off + o - 1 : ckpt[n][i][j - off] = want[i][j]
        <4> SUFFICES ASSUME ~Exempt(s), NEW i \in 0 .. R - 1, NEW j \in off .. off + o - 1
                     PROVE  ckpt[n][i][j - off] = want[i][j]
          OBVIOUS
        <4>1. j - off \in 0 .. o - 1 /\ off + (j - off) = j
          OBVIOUS
        <4> QED  BY <1>4, <1>13, <1>17, <2>1, <4>1
      <3> QED  BY <1>7a, <1>12, <1>14, <1>17, <3>2, <3>3, <3>4 DEF LoadedLinear, want, now
    <2> QED  BY <2>3, <2>4
  <1> QED  BY <1>16, <1>17

LEMMA WholeLoads ==
  ASSUME JobOK, AllPack, CkptOK, ParamsOK(params), NEW m \in {"o_proj", "down_proj"}, NEW e,
         <<m, e>> \in Linears, NEW s \in SuffixesOf(m), LoadWhole(<<m, e, s>>)
  PROVE  phase' = phase /\ LoadedLinear(m, e, s)
  <1> DEFINE n == <<m, e, s>>
             want == Expected(m, e, s)
  <1>1. Fused(m) = m /\ m \in LinearNames /\ <<m, e>> \in FusedLinears
    <2>1. Fused(m) = m
      BY DEF Fused, Attention
    <2> QED  BY <2>1, LinearNamed
  <1>2. PICK o \in Nat \ {0}, in \in Nat \ {0}, g \in Nat :
             o = Out(m) /\ in = In(m) /\ g = Groups(m) /\ Offset(m) = 0
    <2>1. Out(m) \in Nat \ {0} /\ In(m) \in Nat \ {0} /\ Groups(m) \in Nat
      BY <1>1, Widths
    <2>2. Offset(m) = 0
      BY DEF Offset
    <2> QED  BY <2>1, <2>2
  <1>3. PICK r \in Nat \ {0}, c \in Nat : r = StoreRows(s, o, g) /\ c = StoreCols(s, o, in)
    BY <1>2, StoreSizes
  <1>4. Shape(ckpt[n], r, c) /\ (~Exempt(s) => ckpt[n] = Packed(m, e, s))
    BY <1>2, <1>3, CkptFacts DEF CkptOK
  <1>5. n \in DOMAIN params /\ Shape(params[n], r, c)
    <2>1. n \in LinearParams
      BY <1>1, LinearParamNames
    <2>2. n \in DOMAIN params
      BY <2>1, FreshShapes DEF ParamsOK
    <2>3. Shape(params[n], r, c)
      BY <1>1, <1>2, <1>3 DEF ParamsOK
    <2> QED  BY <2>2, <2>3
  <1>6. /\ NumRows(ckpt[n]) = r /\ NumCols(ckpt[n]) = c
        /\ NumRows(params[n]) = r /\ NumCols(params[n]) = c
    BY <1>4, <1>5, ShapeSizes
  <1>7. params' = [params EXCEPT ![n] = ckpt[n]] /\ phase' = phase
    BY <1>5, <1>6 DEF LoadWhole
  <1>8. IF s \in ByGroup
        THEN \A i \in 0 .. g - 1, j \in 0 .. o - 1 : want[i][0 + j] = Packed(m, e, s)[i][j]
        ELSE \A i \in 0 .. o - 1, j \in 0 .. c - 1 : want[0 + i][j] = Packed(m, e, s)[i][j]
    BY <1>1, <1>2, <1>3, SlotPacked
  <1>9. ParamRows(m, s) = r /\ ParamCols(m, s) = c
    BY <1>2, <1>3 DEF ParamRows, ParamCols
  <1>10. \A i \in 0 .. r - 1, j \in 0 .. c - 1 :
           /\ InSlot(m, s, i, j)
           /\ ~Exempt(s) => ckpt[n][i][j] = want[i][j]
    <2> HIDE DEF want, n
    <2>1. CASE s \in ByGroup
      <3>1. r = g /\ c = o
        BY <1>3, <2>1 DEF StoreRows, StoreCols, ByGroup
      <3>2. \A i \in 0 .. g - 1, j \in 0 .. o - 1 : want[i][j] = Packed(m, e, s)[i][j]
        BY <1>8, <2>1
      <3> QED  BY <1>2, <1>4, <2>1, <3>1, <3>2 DEF InSlot
    <2>2. CASE s \notin ByGroup
      <3>1. r = o
        BY <1>3, <2>2 DEF StoreRows
      <3>2. \A i \in 0 .. o - 1, j \in 0 .. c - 1 : want[i][j] = Packed(m, e, s)[i][j]
        BY <1>8, <2>2
      <3> QED  BY <1>2, <1>4, <2>2, <3>1, <3>2 DEF InSlot
    <2> QED  BY <2>1, <2>2
  <1>11. /\ ParamChanges(<<Fused(m), e, s>>) /\ params'[<<Fused(m), e, s>>] = ckpt[n]
         /\ Shape(ckpt[n], ParamRows(Fused(m), s), ParamCols(Fused(m), s))
    BY <1>1, <1>4, <1>5, <1>7, <1>9, OneChanges
  <1>12. \A i \in 0 .. ParamRows(Fused(m), s) - 1, j \in 0 .. ParamCols(Fused(m), s) - 1 :
           /\ InSlot(m, s, i, j) /\ ~Exempt(s) => ckpt[n][i][j] = Expected(Fused(m), e, s)[i][j]
           /\ ~InSlot(m, s, i, j) => ckpt[n][i][j] = params[<<Fused(m), e, s>>][i][j]
    BY <1>1, <1>9, <1>10
  <1> HIDE DEF n
  <1>13. LoadedLinear(m, e, s)
    BY <1>11, <1>12 DEF LoadedLinear
  <1> QED  BY <1>7, <1>13

LoadedOther(m) ==
  LET t == params'[<<m, 0, "weight">>]
  IN  /\ ParamChanges(<<m, 0, "weight">>)
      /\ Shape(t, Rows(m), 1)
      /\ \A i \in 0 .. Rows(m) - 1 : i < CkptRows(m) => t[i][0] = <<m, 0, i, 0>>

LEMMA OtherLoads ==
  ASSUME JobOK, AllPack, CkptOK, ParamsOK(params), NEW m \in Others,
         IF m \in {"embed_tokens", "lm_head"} THEN LoadVocab(<<m, 0, "weight">>)
         ELSE LoadWhole(<<m, 0, "weight">>)
  PROVE  phase' = phase /\ LoadedOther(m)
  <1> DEFINE n == <<m, 0, "weight">>
  <1>1. PICK r \in Nat \ {0}, k \in Nat \ {0} : r = Rows(m) /\ k = CkptRows(m)
    BY OtherFacts
  <1>2. Shape(ckpt[n], k, 1) /\ \A i \in 0 .. k - 1 : ckpt[n][i][0] = <<m, 0, i, 0>>
    BY <1>1, CkptFacts, OtherTensorFacts DEF CkptOK
  <1>3. n \in DOMAIN params /\ Shape(params[n], r, 1)
    BY <1>1, FreshShapes DEF ParamsOK
  <1>4. /\ NumRows(ckpt[n]) = k /\ NumCols(ckpt[n]) = 1
        /\ NumRows(params[n]) = r /\ NumCols(params[n]) = 1
    BY <1>2, <1>3, ShapeSizes
  <1>5. CASE m \in {"embed_tokens", "lm_head"}
    <2> DEFINE part == FirstRows(ckpt[n], r)
               T    == CopiedInto(params[n], 0, 0, part)
    <2>1. params' = [params EXCEPT ![n] = T] /\ phase' = phase
      BY <1>4, <1>5 DEF LoadVocab
    <2>2. PICK x \in Nat \ {0} : x = Smaller(r, k) /\ x <= r /\ x <= k /\ (x = r \/ x = k)
      BY DEF Smaller
    <2>3. Shape(part, x, 1) /\ \A i \in 0 .. x - 1 : part[i][0] = ckpt[n][i][0]
      BY <1>2, <2>2, FirstRowsFacts
    <2>4. Overlaid(T, params[n], r, 1, 0, 0, part, x, 1)
      <3> HIDE DEF part, n
      <3> QED  BY <1>3, <2>3, CopiedIntoFacts
    <2> HIDE DEF T, part
    <2>5. Shape(T, r, 1) /\ \A i \in 0 .. r - 1 : i < k => T[i][0] = <<m, 0, i, 0>>
      <3>1. \A i \in 0 .. r - 1 : i < k => T[i][0] = part[i][0] /\ i \in 0 .. x - 1
        BY <2>2, <2>4 DEF Overlaid
      <3> QED  BY <1>2, <2>3, <2>4, <3>1 DEF Overlaid
    <2>6. ParamChanges(n) /\ params'[n] = T
      BY <1>3, <2>1, OneChanges
    <2> QED  BY <1>1, <2>1, <2>5, <2>6 DEF LoadedOther
  <1>6. CASE m \notin {"embed_tokens", "lm_head"}
    <2>1. k = r
      BY <1>1, <1>6 DEF CkptRows
    <2>2. params' = [params EXCEPT ![n] = ckpt[n]] /\ phase' = phase
      BY <1>3, <1>4, <1>6, <2>1 DEF LoadWhole
    <2>3. ParamChanges(n) /\ params'[n] = ckpt[n]
      BY <1>3, <2>2, OneChanges
    <2> QED  BY <1>1, <1>2, <2>1, <2>2, <2>3 DEF LoadedOther
  <1> QED  BY <1>5, <1>6

-----------------------------------------------------------------------------
(* What a parameter holds once a tensor is loaded, it keeps.               *)
Kept(m, e, s) ==
  \A i \in 0 .. ParamRows(Fused(m), s) - 1, j \in 0 .. ParamCols(Fused(m), s) - 1 :
    InSlot(m, s, i, j) => params[<<Fused(m), e, s>>][i][j] = Expected(Fused(m), e, s)[i][j]
KeptOther(m) ==
  \A i \in 0 .. Rows(m) - 1 : i < CkptRows(m) => params[<<m, 0, "weight">>][i][0] = <<m, 0, i, 0>>

LEMMA KeptStays ==
  ASSUME job' = job, params' = params
  PROVE  /\ ParamsOK(params)' <=> ParamsOK(params)
         /\ \A m, e, s : Kept(m, e, s)' <=> Kept(m, e, s)
         /\ \A m : KeptOther(m)' <=> KeptOther(m)
  <1>1. ParamsOK(params)' <=> ParamsOK(params)
    BY JobStays DEF ParamsOK
  <1>2. \A m, e, s : Kept(m, e, s)' <=> Kept(m, e, s)
    BY JobStays DEF Kept, ParamRows, ParamCols, InSlot
  <1>3. \A m : KeptOther(m)' <=> KeptOther(m)
    BY JobStays DEF KeptOther, CkptRows
  <1> QED  BY <1>1, <1>2, <1>3

LEMMA LinearKeeps ==
  ASSUME JobOK, AllPack, job' = job, ParamsOK(params), NEW m, NEW e, <<m, e>> \in Linears,
         NEW s \in SuffixesOf(m), LoadedLinear(m, e, s)
  PROVE  /\ ParamsOK(params)'
         /\ ~Exempt(s) => Kept(m, e, s)'
         /\ \A x, y, z : <<x, y>> \in Linears /\ z \in SuffixesOf(x) /\ ~Exempt(z) /\ Kept(x, y, z)
                           => Kept(x, y, z)'
         /\ \A x \in Others : KeptOther(x) => KeptOther(x)'
  <1> DEFINE target == <<Fused(m), e, s>>
  <1>1. PICK t : /\ t = params'[target] /\ ParamChanges(target)
                 /\ Shape(t, ParamRows(Fused(m), s), ParamCols(Fused(m), s))
                 /\ \A i \in 0 .. ParamRows(Fused(m), s) - 1, j \in 0 .. ParamCols(Fused(m), s) - 1 :
                      /\ InSlot(m, s, i, j) /\ ~Exempt(s) => t[i][j] = Expected(Fused(m), e, s)[i][j]
                      /\ ~InSlot(m, s, i, j) => t[i][j] = params[target][i][j]
    BY DEF LoadedLinear
  <1>2. /\ <<Fused(m), e>> \in FusedLinears /\ m \in LinearNames /\ Fused(m) \in FusedNames
        /\ s \in SuffixesOf(Fused(m))
    BY LinearNamed, SlotAlike
  <1>3. target \in DOMAIN params
    BY <1>2, LinearParamNames, FreshShapes DEF ParamsOK
  <1>4. /\ DOMAIN params' = DOMAIN params /\ params'[target] = t
        /\ \A n \in DOMAIN params : n # target => params'[n] = params[n]
    BY <1>1 DEF ParamChanges
  <1>5. \A x, y, z : <<x, y>> \in FusedLinears /\ z \in SuffixesOf(x) => <<x, y, z>> \in DOMAIN params
    BY LinearParamNames, FreshShapes DEF ParamsOK
  <1>6. \A x \in Others : <<x, 0, "weight">> \in DOMAIN params /\ <<x, 0, "weight">> # target
    BY <1>2, FreshShapes, OtherFacts DEF ParamsOK
  <1>7. ParamsOK(params)'
    <2>1. DOMAIN params' = DOMAIN FreshParams'
      BY <1>4, JobStays DEF ParamsOK
    <2>2. ASSUME NEW x, NEW y, NEW z, <<x, y>> \in FusedLinears, z \in SuffixesOf(x)
          PROVE  Shape(params'[<<x, y, z>>], StoreRows(z, Out(x), Groups(x)), StoreCols(z, Out(x), In(x)))
      <3>1. CASE <<x, y, z>> = target
        BY <1>1, <1>4, <3>1 DEF ParamRows, ParamCols
      <3>2. CASE <<x, y, z>> # target
        BY <1>4, <1>5, <2>2, <3>2 DEF ParamsOK
      <3> QED  BY <3>1, <3>2
    <2>3. \A x \in Others : Shape(params'[<<x, 0, "weight">>], Rows(x), 1)
      BY <1>4, <1>6 DEF ParamsOK
    <2> QED  BY <2>1, <2>2, <2>3, JobStays DEF ParamsOK
  <1>8. ASSUME ~Exempt(s)
        PROVE  /\ Kept(m, e, s)'
               /\ \A x, y, z : <<x, y>> \in Linears /\ z \in SuffixesOf(x) /\ Kept(x, y, z)
                                 /\ <<Fused(x), y, z>> = target => Kept(x, y, z)'
    <2>1. Kept(m, e, s)'
      BY <1>1, <1>4, <1>8, JobStays DEF Kept, ParamRows, ParamCols, InSlot
    <2>2. ASSUME NEW x, NEW y, NEW z, Kept(x, y, z), <<Fused(x), y, z>> = target
          PROVE  Kept(x, y, z)'
      <3>1. Fused(x) = Fused(m) /\ y = e /\ z = s
        BY <2>2
      <3>2. \A i \in 0 .. ParamRows(Fused(m), s) - 1, j \in 0 .. ParamCols(Fused(m), s) - 1 :
              InSlot(x, s, i, j) => t[i][j] = Expected(Fused(m), e, s)[i][j]
        BY <1>1, <1>8, <2>2, <3>1 DEF Kept
      <3> QED  BY <1>4, <3>1, <3>2, JobStays DEF Kept, ParamRows, ParamCols, InSlot
    <2> QED  BY <2>1, <2>2
  <1>9. ASSUME NEW x, NEW y, NEW z, <<x, y>> \in Linears, z \in SuffixesOf(x), ~Exempt(z), Kept(x, y, z)
        PROVE  Kept(x, y, z)'
    <2>1. CASE <<Fused(x), y, z>> = target
      BY <1>8, <1>9, <2>1
    <2>2. CASE <<Fused(x), y, z>> # target
      <3>1. <<Fused(x), y, z>> \in DOMAIN params
        BY <1>5, <1>9, LinearNamed, SlotAlike
      <3>2. params'[<<Fused(x), y, z>>] = params[<<Fused(x), y, z>>]
        BY <1>4, <2>2, <3>1
      <3> QED  BY <1>9, <3>2, JobStays DEF Kept, ParamRows, ParamCols, InSlot
    <2> QED  BY <2>1, <2>2
  <1>10. \A x \in Others : KeptOther(x) => KeptOther(x)'
    BY <1>4, <1>6, JobStays DEF KeptOther, CkptRows
  <1> QED  BY <1>7, <1>8, <1>9, <1>10

LEMMA OtherKeeps ==
  ASSUME JobOK, AllPack, job' = job, ParamsOK(params), NEW m \in Others, LoadedOther(m)
  PROVE  /\ ParamsOK(params)'
         /\ KeptOther(m)'
         /\ \A x, y, z : <<x, y>> \in Linears /\ z \in SuffixesOf(x) /\ Kept(x, y, z) => Kept(x, y, z)'
         /\ \A x \in Others : KeptOther(x) => KeptOther(x)'
  <1> DEFINE target == <<m, 0, "weight">>
  <1>1. PICK t : /\ t = params'[target] /\ ParamChanges(target) /\ Shape(t, Rows(m), 1)
                 /\ \A i \in 0 .. Rows(m) - 1 : i < CkptRows(m) => t[i][0] = <<m, 0, i, 0>>
    BY DEF LoadedOther
  <1>2. target \in DOMAIN params
    BY FreshShapes DEF ParamsOK
  <1>3. /\ DOMAIN params' = DOMAIN params /\ params'[target] = t
        /\ \A n \in DOMAIN params : n # target => params'[n] = params[n]
    BY <1>1 DEF ParamChanges
  <1>4. \A x, y, z : <<x, y>> \in FusedLinears /\ z \in SuffixesOf(x) =>
                       <<x, y, z>> \in DOMAIN params /\ <<x, y, z>> # target
    BY LinearParamNames, FreshShapes, LinearNamed, OtherFacts DEF ParamsOK
  <1>5. \A x \in Others : <<x, 0, "weight">> \in DOMAIN params
    BY FreshShapes DEF ParamsOK
  <1>6. ParamsOK(params)'
    <2>1. DOMAIN params' = DOMAIN FreshParams'
      BY <1>3, JobStays DEF ParamsOK
    <2>2. \A x, y, z : <<x, y>> \in FusedLinears /\ z \in SuffixesOf(x) =>
            Shape(params'[<<x, y, z>>], StoreRows(z, Out(x), Groups(x)), StoreCols(z, Out(x), In(x)))
      BY <1>3, <1>4 DEF ParamsOK
    <2>3. \A x \in Others : Shape(params'[<<x, 0, "weight">>], Rows(x), 1)
      BY <1>1, <1>3, <1>5 DEF ParamsOK
    <2> QED  BY <2>1, <2>2, <2>3, JobStays DEF ParamsOK
  <1>7. KeptOther(m)'
    BY <1>1, <1>3, JobStays DEF KeptOther, CkptRows
  <1>8. ASSUME NEW x, NEW y, NEW z, <<x, y>> \in Linears, z \in SuffixesOf(x), Kept(x, y, z)
        PROVE  Kept(x, y, z)'
    <2>1. <<Fused(x), y, z>> \in DOMAIN params /\ <<Fused(x), y, z>> # target
      BY <1>4, <1>8, LinearNamed, SlotAlike
    <2>2. params'[<<Fused(x), y, z>>] = params[<<Fused(x), y, z>>]
      BY <1>3, <2>1
    <2> QED  BY <1>8, <2>2, JobStays DEF Kept, ParamRows, ParamCols, InSlot
  <1>9. ASSUME NEW x \in Others, KeptOther(x) PROVE KeptOther(x)'
    <2>1. CASE x = m
      BY <1>7, <2>1
    <2>2. CASE x # m
      BY <1>3, <1>5, <1>9, <2>2, JobStays DEF KeptOther, CkptRows
    <2> QED  BY <2>1, <2>2
  <1> QED  BY <1>6, <1>7, <1>8, <1>9

-----------------------------------------------------------------------------
(* The inductive invariant.                                                *)

(* The tensor is still to be read.                                         *)
Pending(n) == n \in current \/ \E f \in files : n[1] \in f.modules

Reading ==
  /\ \A m, e, s : <<m, e>> \in Linears /\ s \in SuffixesOf(m) /\ ~Exempt(s) =>
       Pending(<<m, e, s>>) \/ Skipped(<<m, e, s>>) \/ Kept(m, e, s)
  /\ \A m \in Others :
       Pending(<<m, 0, "weight">>) \/ Skipped(<<m, 0, "weight">>) \/ KeptOther(m)
  /\ current \subseteq DOMAIN ckpt
  /\ \A f \in files : f.modules \subseteq Modules

Conversion ==
  /\ phase = "convert" => /\ ckpt = TensorsOf(Linears \ todo) /\ \A l \in Linears \ todo : Packs(l[1])
                          /\ params = FreshParams
  /\ phase \in {"list", "load", "loaded"} => AllPack /\ CkptOK /\ ParamsOK(params)
  /\ phase = "raised" => params = FreshParams \/ (AllPack /\ ParamsOK(params))

LoadInv ==
  /\ JobOK /\ todo \subseteq Linears /\ phase \in {"convert", "list", "load", "loaded", "raised"}
  /\ Conversion
  /\ phase \in {"load", "loaded"} => Reading
  /\ phase \in {"convert", "list", "loaded"} => current = {}
  /\ phase = "loaded" => files = {}
  /\ OnlyOddSizesFail

LEMMA LoadInit ==
  ASSUME Init
  PROVE  LoadInv
  <1>1. JobOK
    BY DEF Init, JobOK, AllPack
  <1>2. job.model \notin Converted => AllPack
    <2>1. job.model = "w16a16" => AllPack
      BY DEF AllPack, Packs, Scheme
    <2> QED  BY <1>1, <2>1 DEF JobOK
  <1>3. CASE job.model \in Converted
    <2>1. /\ phase = "convert" /\ todo = Linears /\ ckpt = [n \in {} |-> 0] /\ params = FreshParams
          /\ current = {}
      BY <1>3 DEF Init
    <2>2. ckpt = TensorsOf(Linears \ todo)
      BY <2>1 DEF TensorsOf
    <2> QED  BY <1>1, <2>1, <2>2 DEF LoadInv, Conversion, OnlyOddSizesFail
  <1>4. CASE job.model \notin Converted
    <2>1. phase = "list" /\ todo = {} /\ CkptOK /\ params = FreshParams /\ current = {}
      BY <1>4 DEF Init, CkptOK
    <2> QED  BY <1>1, <1>2, <1>4, <2>1, FreshShapes DEF LoadInv, Conversion, OnlyOddSizesFail
  <1> QED  BY <1>3, <1>4

LEMMA SkippedStays ==
  ASSUME job' = job
  PROVE  \A n : Skipped(n)' <=> Skipped(n)
  BY DEF Skipped

LEMMA OddStays ==
  ASSUME job' = job, phase' = phase, OnlyOddSizesFail
  PROVE  OnlyOddSizesFail'
  BY JobStays DEF OnlyOddSizesFail

LEMMA ConvertStep ==
  ASSUME LoadInv, ConvertLinear
  PROVE  LoadInv'
  <1> DEFINE l == CHOOSE x \in todo : TRUE
  <1>1. l \in todo /\ l \in Linears
    BY DEF LoadInv, ConvertLinear
  <1>2. /\ phase = "convert" /\ job' = job /\ params' = params /\ JobOK /\ params = FreshParams
        /\ ckpt = TensorsOf(Linears \ todo) /\ \A x \in Linears \ todo : Packs(x[1])
        /\ current = {} /\ current' = {}
    BY DEF LoadInv, ConvertLinear, Conversion
  <1> HIDE DEF l
  <1>3. CASE Packs(l[1])
    <2>1. ckpt' = Joined(ckpt, FromLinear(l)) /\ todo' = todo \ {l} /\ phase' = phase
      BY <1>3 DEF ConvertLinear, l
    <2>2. (Linears \ todo) \cup {l} = Linears \ todo' /\ todo' \subseteq Linears
      BY <1>1, <2>1 DEF LoadInv
    <2>3. ckpt' = TensorsOf(Linears \ todo')
      BY <1>1, <1>2, <2>1, <2>2, OneMoreConverted
    <2>4. TensorsOf(Linears \ todo)' = TensorsOf(Linears \ todo')
      BY <1>2 DEF TensorsOf, Linears, FromLinear, SuffixesOf, Packed, Groups, Out, In, Hidden, Scheme, Tensor
    <2>5. \A x \in Linears \ todo' : Packs(x[1])
      BY <1>2, <1>3, <2>1
    <2>6. Conversion'
      BY <1>2, <2>1, <2>3, <2>4, <2>5, JobStays DEF Conversion
    <2> QED  BY <1>2, <2>1, <2>2, <2>6, JobStays DEF LoadInv, OnlyOddSizesFail
  <1>4. CASE ~Packs(l[1])
    <2>1. phase' = "raised" /\ todo' = todo
      BY <1>4 DEF ConvertLinear, l
    <2>2. OnlyOddSizesFail'
      BY <1>1, <1>2, <1>4, <2>1, JobStays DEF OnlyOddSizesFail
    <2>3. Conversion'
      BY <1>2, <2>1, JobStays DEF Conversion
    <2> QED  BY <1>2, <2>1, <2>2, <2>3, JobStays DEF LoadInv
  <1> QED  BY <1>3, <1>4

LEMMA SaveStep ==
  ASSUME LoadInv, SaveCheckpoint
  PROVE  LoadInv'
  <1>1. /\ phase = "convert" /\ todo = {} /\ phase' = "list" /\ job' = job /\ params' = params /\ todo' = todo
        /\ ckpt' = Joined(ckpt, OtherTensors) /\ JobOK /\ current' = {}
    BY DEF SaveCheckpoint, LoadInv
  <1>2. Linears \ todo = Linears
    BY <1>1
  <1>3. AllPack /\ ckpt' = Joined(TensorsOf(Linears), OtherTensors) /\ params = FreshParams
    BY <1>1, <1>2 DEF LoadInv, Conversion, AllPack
  <1>4. ParamsOK(params)
    BY <1>1, <1>3, FreshShapes
  <1>5. CkptOK' /\ AllPack' /\ ParamsOK(params)'
    BY <1>1, <1>3, <1>4, JobStays, KeptStays DEF CkptOK
  <1> QED  BY <1>1, <1>5, JobStays DEF LoadInv, Conversion, OnlyOddSizesFail

(* Every module is in a file that is read, and nothing else is.            *)
LEMMA FolderComplete ==
  ASSUME NEW folder \in Published \cup {{File("bin", All)}}
  PROVE  /\ \A f \in FilesToLoad(folder) : f.modules \subseteq Modules
         /\ \A m \in Modules : \E f \in FilesToLoad(folder) : m \in f.modules
  <1>1. CASE folder = {File("bin", All)}
    <2>1. \A f \in folder : f.ext = "bin" /\ f.modules = Modules
      BY <1>1 DEF File, All
    <2>2. FilesToLoad(folder) = folder
      BY <2>1 DEF FilesToLoad, Excluded
    <2> QED  BY <1>1, <2>1, <2>2
  <1>2. CASE folder = {File("safetensors", All \ Attention), File("safetensors", Attention)}
    <2>1. FilesToLoad(folder) = folder
      BY <1>2 DEF FilesToLoad, File
    <2>2. Attention \subseteq Modules
      BY DEF Attention, Modules
    <2>3. /\ \A f \in folder : f.modules = Modules \ Attention \/ f.modules = Attention
          /\ \E f \in folder : f.modules = Modules \ Attention
          /\ \E f \in folder : f.modules = Attention
      BY <1>2 DEF File, All
    <2> QED  BY <2>1, <2>2, <2>3
  <1>3. CASE folder = {File("safetensors", All), File("bin", All), File("optimizer.bin", {"optimizer"})}
    <2>1. File("safetensors", All) \in folder /\ File("safetensors", All).ext = "safetensors"
      BY <1>3 DEF File
    <2>2. \A f \in folder : f.ext = "safetensors" => f.modules = Modules
      BY <1>3 DEF File, All
    <2>3. FilesToLoad(folder) = {f \in folder : f.ext = "safetensors"}
      BY <2>1 DEF FilesToLoad
    <2> QED  BY <2>1, <2>2, <2>3
  <1>4. CASE folder = {File("bin", All \ {"lm_head"}), File("pt", {"lm_head"}),
                       File("optimizer.bin", {"optimizer"})}
    <2>1. FilesToLoad(folder) = {File("bin", All \ {"lm_head"}), File("pt", {"lm_head"})}
      BY <1>4 DEF FilesToLoad, File, Excluded
    <2>2. "lm_head" \in Modules
      BY DEF Modules
    <2> QED  BY <2>1, <2>2 DEF File, All
  <1> QED  BY <1>1, <1>2, <1>3, <1>4 DEF Published

LEMMA LinearModule ==
  ASSUME NEW m, NEW e, <<m, e>> \in Linears
  PROVE  m \in Modules
  BY DEF Linears, Attention, Modules

LEMMA ListStep ==
  ASSUME LoadInv, ListFiles
  PROVE  LoadInv'
  <1>1. /\ phase = "list" /\ phase' = "load" /\ job' = job /\ ckpt' = ckpt /\ todo' = todo
        /\ current' = current /\ params' = params /\ JobOK
    BY DEF ListFiles, LoadInv
  <1>2. /\ \A f \in files' : f.modules \subseteq Modules
        /\ \A m \in Modules : \E f \in files' : m \in f.modules
    <2>1. PICK folder \in Published \cup {{File("bin", All)}} : files' = FilesToLoad(folder)
      BY DEF ListFiles
    <2> QED  BY <2>1, FolderComplete
  <1>3. \A m, e, s : m \in Modules => Pending(<<m, e, s>>)'
    BY <1>2 DEF Pending
  <1>4. Conversion'
    BY <1>1, JobStays, KeptStays DEF LoadInv, Conversion, CkptOK
  <1>5. Reading'
    <2>1. \A m, e, s : <<m, e>> \in Linears => Pending(<<m, e, s>>)'
      BY <1>3, LinearModule
    <2>2. \A m \in Others : Pending(<<m, 0, "weight">>)'
      BY <1>1, <1>3, OtherFacts
    <2>3. current' = {}
      BY <1>1 DEF LoadInv
    <2> QED  BY <1>1, <1>2, <2>1, <2>2, <2>3, JobStays DEF Reading
  <1> QED  BY <1>1, <1>4, <1>5, JobStays DEF LoadInv, OnlyOddSizesFail

LEMMA FileStep ==
  ASSUME LoadInv, NextFile
  PROVE  LoadInv'
  <1>1. /\ phase = "load" /\ current = {} /\ phase' \in {"load", "loaded"} /\ job' = job /\ ckpt' = ckpt
        /\ todo' = todo /\ params' = params /\ JobOK /\ CkptOK /\ Reading
    BY DEF NextFile, LoadInv, Conversion
  <1>2. Conversion'
    BY <1>1, JobStays, KeptStays DEF LoadInv, Conversion, CkptOK
  <1>3. OnlyOddSizesFail'
    BY <1>1 DEF OnlyOddSizesFail
  <1>4. CASE phase' = "loaded"
    <2>1. files = {} /\ files' = {} /\ current' = {}
      BY <1>1, <1>4 DEF NextFile
    <2>2. \A n : ~Pending(n)
      BY <1>1, <2>1 DEF Pending
    <2>3. Reading'
      BY <1>1, <2>1, <2>2, JobStays, KeptStays, SkippedStays DEF Reading, Exempt
    <2> QED  BY <1>1, <1>2, <1>3, <1>4, <2>1, <2>3, JobStays DEF LoadInv
  <1>5. CASE phase' # "loaded"
    <2>1. PICK f \in files : files' = files \ {f} /\ current' = Names(f) /\ phase' = phase
      BY <1>5 DEF NextFile
    <2>2. current' = {n \in DOMAIN ckpt : n[1] \in f.modules}
      <3>1. "optimizer" \notin f.modules
        BY <1>1 DEF Reading, Modules
      <3> QED  BY <2>1, <3>1 DEF Names
    <2>3. \A n \in DOMAIN ckpt : Pending(n) => Pending(n)'
      BY <1>1, <2>1, <2>2 DEF Pending
    <2>4. \A m, e, s : <<m, e>> \in Linears /\ s \in SuffixesOf(m) => <<m, e, s>> \in DOMAIN ckpt
      BY <1>1, CkptFacts DEF CkptOK
    <2>5. \A m \in Others : <<m, 0, "weight">> \in DOMAIN ckpt
      BY <1>1, CkptFacts DEF CkptOK
    <2>6. current' \subseteq DOMAIN ckpt' /\ \A g \in files' : g.modules \subseteq Modules
      BY <1>1, <2>1, <2>2 DEF Reading
    <2>7. Reading'
      BY <1>1, <2>3, <2>4, <2>5, <2>6, JobStays, KeptStays, SkippedStays DEF Reading, Exempt
    <2> QED  BY <1>1, <1>2, <1>3, <2>1, <2>7, JobStays DEF LoadInv
  <1> QED  BY <1>4, <1>5

LEMMA TensorStep ==
  ASSUME LoadInv, LoadTensor
  PROVE  LoadInv'
  <1>1. /\ phase = "load" /\ job' = job /\ ckpt' = ckpt /\ todo' = todo /\ files' = files
        /\ JobOK /\ AllPack /\ CkptOK /\ ParamsOK(params) /\ Reading
    BY DEF LoadTensor, LoadInv, Conversion
  <1>2. PICK n \in current :
          /\ IF Skipped(n) THEN UNCHANGED <<params, phase>>
             ELSE IF n[1] \in Attention \cup {"gate_proj", "up_proj", "w1", "w2", "w3"} THEN LoadShard(n)
             ELSE IF n[1] \in {"embed_tokens", "lm_head"} THEN LoadVocab(n)
             ELSE LoadWhole(n)
          /\ current' = current \ {n}
    BY DEF LoadTensor
  <1>3. \A x : Pending(x) /\ x # n => Pending(x)'
    BY <1>1, <1>2 DEF Pending
  <1>4. /\ current' \subseteq DOMAIN ckpt' /\ \A f \in files' : f.modules \subseteq Modules
    BY <1>1, <1>2 DEF Reading
  (* A step that fails loads a shard with more groups than rows.           *)
  <1>5. ASSUME phase' = "raised", params' = params,
               \E m \in Attention \cup {"gate_proj"} : Scheme(m) = "group" /\ Groups(m) > Out(m)
        PROVE  LoadInv'
    <2>1. OnlyOddSizesFail'
      BY <1>1, <1>5, JobStays DEF OnlyOddSizesFail
    <2>2. Conversion'
      BY <1>1, <1>5, JobStays, KeptStays DEF Conversion
    <2> QED  BY <1>1, <1>5, <2>1, <2>2, JobStays DEF LoadInv
  (* One that does not leaves what was loaded.                             *)
  <1>6. ASSUME phase' = phase, ParamsOK(params)',
               \A x, y, z : <<x, y>> \in Linears /\ z \in SuffixesOf(x) /\ ~Exempt(z) /\ Kept(x, y, z)
                               => Kept(x, y, z)',
               \A x \in Others : KeptOther(x) => KeptOther(x)',
               \A x, y, z : <<x, y>> \in Linears /\ z \in SuffixesOf(x) /\ ~Exempt(z) /\ n = <<x, y, z>>
                               => Skipped(n) \/ Kept(x, y, z)',
               \A x \in Others : n = <<x, 0, "weight">> => Skipped(n) \/ KeptOther(x)'
        PROVE  LoadInv'
    <2>1. \A m, e, s : <<m, e>> \in Linears /\ s \in SuffixesOf(m) /\ ~Exempt(s) =>
            Pending(<<m, e, s>>)' \/ Skipped(<<m, e, s>>) \/ Kept(m, e, s)'
      BY <1>1, <1>3, <1>6 DEF Reading
    <2>2. \A m \in Others :
            Pending(<<m, 0, "weight">>)' \/ Skipped(<<m, 0, "weight">>) \/ KeptOther(m)'
      BY <1>1, <1>3, <1>6 DEF Reading
    <2>3. Reading'
      BY <1>1, <1>4, <2>1, <2>2, JobStays, SkippedStays DEF Reading, Exempt
    <2>4. Conversion'
      BY <1>1, <1>6, JobStays DEF Conversion, CkptOK
    <2> QED  BY <1>1, <1>6, <2>3, <2>4, JobStays DEF LoadInv, OnlyOddSizesFail
  <1>7. CASE Skipped(n)
    <2>1. params' = params /\ phase' = phase
      BY <1>2, <1>7
    <2> QED  BY <1>1, <1>6, <1>7, <2>1, KeptStays
  <1>8. ASSUME NEW m, NEW e, NEW s \in SuffixesOf(m), n = <<m, e, s>>, <<m, e>> \in Linears, ~Skipped(n)
        PROVE  LoadInv'
    <2>1. m \in LinearNames
      BY <1>1, <1>8, LinearNamed
    <2>2. \/ phase' = phase /\ LoadedLinear(m, e, s)
          \/ /\ phase' = "raised" /\ params' = params /\ Scheme(m) = "group" /\ Groups(m) > Out(m)
             /\ m \notin {"o_proj", "down_proj"}
      <3>1. CASE m \in {"o_proj", "down_proj"}
        <4>1. LoadWhole(n)
          BY <1>2, <1>8, <3>1 DEF Attention
        <4> QED  BY <1>1, <1>8, <3>1, <4>1, WholeLoads
      <3>2. CASE m \notin {"o_proj", "down_proj"}
        <4>1. LoadShard(n)
          BY <1>2, <1>8, <2>1, <3>2 DEF LinearNames, Attention
        <4> QED  BY <1>1, <1>8, <3>2, <4>1, ShardLoads
      <3> QED  BY <3>1, <3>2
    <2>3. CASE phase' = phase /\ LoadedLinear(m, e, s)
      <3>1. /\ ParamsOK(params)'
            /\ ~Exempt(s) => Kept(m, e, s)'
            /\ \A x, y, z : <<x, y>> \in Linears /\ z \in SuffixesOf(x) /\ ~Exempt(z) /\ Kept(x, y, z)
                              => Kept(x, y, z)'
            /\ \A x \in Others : KeptOther(x) => KeptOther(x)'
        BY <1>1, <1>8, <2>3, LinearKeeps
      <3>2. \A x, y, z : n = <<x, y, z>> => x = m /\ y = e /\ z = s
        BY <1>8
      <3>3. \A x \in Others : n # <<x, 0, "weight">>
        BY <1>1, <2>1, <3>2, OtherFacts
      <3> QED  BY <1>6, <2>3, <3>1, <3>2, <3>3
    <2>4. CASE /\ phase' = "raised" /\ params' = params /\ Scheme(m) = "group" /\ Groups(m) > Out(m)
               /\ m \notin {"o_proj", "down_proj"}
      <3>1. m \in Attention \cup {"gate_proj", "up_proj"}
        <4>1. Scheme(m) = "group" => job.model = "w4a8-group" \/ m \notin {"w1", "w2", "w3"}
          BY <1>1, JobFacts DEF Scheme, Converted
        <4>2. job.model = "w4a8-group" => m \notin {"w1", "w2", "w3"}
          BY <1>8 DEF Linears, Attention
        <4> QED  BY <2>1, <2>4, <4>1, <4>2 DEF LinearNames, Attention
      <3>2. /\ Out("up_proj") = Out("gate_proj") /\ Groups("up_proj") = Groups("gate_proj")
            /\ job.model # "mixtral" => Scheme("up_proj") = Scheme("gate_proj")
        BY <1>1, JobFacts DEF Out, Groups, In, Scheme, Converted
      <3>3. m \in {"gate_proj", "up_proj"} => job.model # "mixtral"
        BY <1>8 DEF Linears, Attention
      <3>4. \E x \in Attention \cup {"gate_proj"} : Scheme(x) = "group" /\ Groups(x) > Out(x)
        <4>1. CASE m = "up_proj"
          BY <2>4, <3>2, <3>3, <4>1
        <4>2. CASE m # "up_proj"
          BY <2>4, <3>1, <4>2
        <4> QED  BY <4>1, <4>2
      <3> QED  BY <1>5, <2>4, <3>4
    <2> QED  BY <2>2, <2>3, <2>4
  <1>9. ASSUME NEW m \in Others, n = <<m, 0, "weight">>, ~Skipped(n)
        PROVE  LoadInv'
    <2>1. m \notin LinearNames
      BY <1>1, OtherFacts
    <2>2. IF m \in {"embed_tokens", "lm_head"} THEN LoadVocab(n) ELSE LoadWhole(n)
      BY <1>2, <1>9, <2>1 DEF LinearNames, Attention
    <2>3. phase' = phase /\ LoadedOther(m)
      BY <1>1, <1>9, <2>2, OtherLoads
    <2>4. /\ ParamsOK(params)'
          /\ KeptOther(m)'
          /\ \A x, y, z : <<x, y>> \in Linears /\ z \in SuffixesOf(x) /\ Kept(x, y, z) => Kept(x, y, z)'
          /\ \A x \in Others : KeptOther(x) => KeptOther(x)'
      BY <1>1, <2>3, OtherKeeps
    <2>5. \A x, y, z : n = <<x, y, z>> => x = m
      BY <1>9
    <2>6. \A x, y, z : <<x, y>> \in Linears => n # <<x, y, z>>
      BY <1>1, <2>1, <2>5, LinearNamed
    <2> QED  BY <1>6, <2>3, <2>4, <2>5, <2>6
  <1>10. n \in OtherNames \/ \E m, e, s : n = <<m, e, s>> /\ <<m, e>> \in Linears /\ s \in SuffixesOf(m)
    BY <1>1, CkptFacts DEF CkptOK, Reading
  <1>11. n = <<"rotary_emb", 0, "inv_freq">> => Skipped(n)
    BY DEF Skipped
  <1>12. CASE n \in OtherNames
    BY <1>7, <1>9, <1>11, <1>12 DEF OtherNames
  <1> QED  BY <1>7, <1>8, <1>10, <1>12

LEMMA LoadIsInvariant == Spec => []LoadInv
  <1>1. Init => LoadInv
    BY LoadInit
  <1>2. LoadInv /\ [Next]_vars => LoadInv'
    <2> SUFFICES ASSUME LoadInv, [Next]_vars PROVE LoadInv'
      OBVIOUS
    <2>1. CASE UNCHANGED vars
      <3>1. /\ job' = job /\ ckpt' = ckpt /\ todo' = todo /\ files' = files /\ current' = current
            /\ params' = params /\ phase' = phase
        BY <2>1 DEF vars
      <3>2. \A n : Pending(n)' <=> Pending(n)
        BY <3>1 DEF Pending
      <3>3. Reading => Reading'
        BY <3>1, <3>2, JobStays, KeptStays, SkippedStays DEF Reading, Exempt
      <3>4. TensorsOf(Linears \ todo)' = TensorsOf(Linears \ todo)
        BY <3>1 DEF TensorsOf, Linears, FromLinear, SuffixesOf, Packed, Groups, Out, In, Hidden, Scheme, Tensor
      <3>5. Conversion'
        BY <3>1, <3>4, JobStays, KeptStays DEF LoadInv, Conversion, CkptOK
      <3>6. OnlyOddSizesFail'
        BY <3>1, OddStays DEF LoadInv
      <3> QED  BY <3>1, <3>3, <3>5, <3>6, JobStays DEF LoadInv
    <2>2. CASE ConvertLinear
      BY <2>2, ConvertStep
    <2>3. CASE SaveCheckpoint
      BY <2>3, SaveStep
    <2>4. CASE ListFiles
      BY <2>4, ListStep
    <2>5. CASE LoadTensor
      BY <2>5, TensorStep
    <2>6. CASE NextFile
      BY <2>6, FileStep
    <2> QED  BY <2>1, <2>2, <2>3, <2>4, <2>5, <2>6 DEF Next
  <1> QED  BY <1>1, <1>2, PTL DEF Spec

-----------------------------------------------------------------------------
(* Every fused layer of a loaded model holds what packing its whole matrix *)
(* would have given, for every size of layers, groups and tiles, and every *)
(* order of files and tensors.                                             *)
THEOREM FusedLayersAsPacked == Spec => []FusedAsPacked
  <1>1. LoadInv => FusedAsPacked
    <2> SUFFICES ASSUME LoadInv, phase = "loaded", NEW n \in LinearParams,
                        ~(n[3] = "bias" /\ job.model \in Converted)
                 PROVE  params[n] = Store(n[3], Out(n[1]), In(n[1]), Groups(n[1]),
                                          Tensor(Out(n[1]), In(n[1]), LAMBDA i, j : FusedElement(n[1], n[2], i, j)))
      BY DEF FusedAsPacked
    <2>1. JobOK /\ AllPack /\ ParamsOK(params) /\ Reading /\ \A x : ~Pending(x)
      BY DEF LoadInv, Conversion, Pending
    <2>2. PICK m, e, s : n = <<m, e, s>> /\ <<m, e>> \in FusedLinears /\ s \in SuffixesOf(m)
      BY LinearParamNames
    <2>3. ~Exempt(s)
      BY <2>2 DEF Exempt
    <2>4. PICK R, C : R = ParamRows(m, s) /\ C = ParamCols(m, s)
      OBVIOUS
    <2>5. Shape(params[<<m, e, s>>], R, C) /\ Shape(Expected(m, e, s), R, C)
      BY <2>1, <2>2, <2>4, PackedShape DEF ParamsOK, ParamRows, ParamCols
    <2>6. \A i \in 0 .. R - 1, j \in 0 .. C - 1 : params[<<m, e, s>>][i][j] = Expected(m, e, s)[i][j]
      <3> SUFFICES ASSUME NEW i \in 0 .. R - 1, NEW j \in 0 .. C - 1
                   PROVE  params[<<m, e, s>>][i][j] = Expected(m, e, s)[i][j]
        OBVIOUS
      <3>1. PICK k : k = IF s \in ByGroup THEN j ELSE i
        OBVIOUS
      <3>2. k \in 0 .. Out(m) - 1
        <4>1. CASE s \in ByGroup
          BY <2>4, <3>1, <4>1 DEF ParamCols, StoreCols, ByGroup
        <4>2. CASE s \notin ByGroup
          BY <2>4, <3>1, <4>2 DEF ParamRows, StoreRows
        <4> QED  BY <4>1, <4>2
      <3>3. PICK x \in LinearNames : /\ <<x, e>> \in Linears /\ Fused(x) = m
                                     /\ k \in Offset(x) .. Offset(x) + Out(x) - 1
        BY <2>1, <2>2, <3>2, SlotsCover
      <3>4. s \in SuffixesOf(x) /\ InSlot(x, s, i, j)
        BY <2>1, <2>2, <3>1, <3>3, SlotAlike DEF InSlot
      <3>5. ~Skipped(<<x, e, s>>)
        BY <2>3, <3>3 DEF Skipped, LinearNames, Attention, Exempt, Converted
      <3>6. Kept(x, e, s)
        BY <2>1, <2>3, <3>3, <3>4, <3>5 DEF Reading
      <3> QED  BY <2>4, <3>3, <3>4, <3>6 DEF Kept
    <2>7. params[<<m, e, s>>] = Expected(m, e, s)
      BY <2>5, <2>6, ShapeEqual
    <2> QED  BY <2>2, <2>7 DEF Expected, FusedTensor, Tensor
  <1> QED  BY <1>1, LoadIsInvariant, PTL

(* Embeddings, head, router and norms are loaded too, but for the norms of *)
(* a 4-bit model and the rows of tokens that the checkpoint does not have. *)
THEOREM NothingElseLeftOut == Spec => []OthersLoaded
  <1>1. LoadInv => OthersLoaded
    <2> SUFFICES ASSUME LoadInv, phase = "loaded", NEW m \in Others, NEW i \in 0 .. Rows(m) - 1
                 PROVE  \/ params[<<m, 0, "weight">>][i][0] = <<m, 0, i, 0>>
                        \/ (m = "norm" /\ job.model \in FourBit)
                        \/ (m \in {"embed_tokens", "lm_head"} /\ i >= CkptVocabSize)
      BY DEF OthersLoaded
    <2>1. JobOK /\ Reading /\ \A x : ~Pending(x)
      BY DEF LoadInv, Pending
    <2>2. Skipped(<<m, 0, "weight">>) => m = "norm" /\ job.model \in FourBit
      BY <2>1, OtherFacts DEF Skipped
    <2>3. Skipped(<<m, 0, "weight">>) \/ KeptOther(m)
      BY <2>1 DEF Reading
    <2>4. PICK r \in Nat, k \in Nat : r = Rows(m) /\ k = CkptRows(m)
      BY <2>1, OtherFacts
    <2>5. ~(i < k) => m \in {"embed_tokens", "lm_head"} /\ i >= CkptVocabSize
      BY <2>4 DEF CkptRows
    <2> QED  BY <2>2, <2>3, <2>4, <2>5 DEF KeptOther
  <1> QED  BY <1>1, LoadIsInvariant, PTL

(* Only widths that are not whole tiles or groups, or a shard of fewer     *)
(* rows than groups, make the conversion or the loading fail.              *)
THEOREM OddSizesOnlyFail == Spec => []OnlyOddSizesFail
  <1>1. LoadInv => OnlyOddSizesFail
    BY DEF LoadInv
  <1> QED  BY <1>1, LoadIsInvariant, PTL

(* Loading changes no parameter's shape.                                   *)
THEOREM LoadingTypeCorrect == Spec => []TypeOK
  <1>1. LoadInv => TypeOK
    <2> SUFFICES ASSUME LoadInv PROVE TypeOK
      OBVIOUS
    <2>1. JobOK /\ todo \subseteq Linears /\ phase \in {"convert", "list", "load", "loaded", "raised"}
      BY DEF LoadInv
    <2>2. CASE params = FreshParams
      BY <2>1, <2>2 DEF TypeOK
    <2>3. CASE AllPack /\ ParamsOK(params)
      <3>1. ParamsOK(FreshParams) /\ DOMAIN params = DOMAIN FreshParams
        BY <2>1, <2>3, FreshShapes DEF ParamsOK
      <3>2. ASSUME NEW n \in DOMAIN params
            PROVE  NumRows(params[n]) = NumRows(FreshParams[n]) /\ NumCols(params[n]) = NumCols(FreshParams[n])
        <4>1. ASSUME NEW m, NEW e, NEW s, n = <<m, e, s>>, <<m, e>> \in FusedLinears, s \in SuffixesOf(m)
              PROVE  NumRows(params[n]) = NumRows(FreshParams[n]) /\ NumCols(params[n]) = NumCols(FreshParams[n])
          <5>1. PICK R \in Nat \ {0}, C \in Nat :
                     R = StoreRows(s, Out(m), Groups(m)) /\ C = StoreCols(s, Out(m), In(m))
            BY <2>1, <2>3, <4>1, FusedSizes
          <5>2. Shape(params[n], R, C) /\ Shape(FreshParams[n], R, C)
            BY <2>3, <3>1, <4>1, <5>1 DEF ParamsOK
          <5> QED  BY <5>1, <5>2, ShapeSizes
        <4>2. ASSUME NEW m \in Others, n = <<m, 0, "weight">>
              PROVE  NumRows(params[n]) = NumRows(FreshParams[n]) /\ NumCols(params[n]) = NumCols(FreshParams[n])
          <5>1. PICK R \in Nat \ {0} : R = Rows(m)
            BY <2>1, OtherFacts
          <5>2. Shape(params[n], R, 1) /\ Shape(FreshParams[n], R, 1)
            BY <2>3, <3>1, <4>2, <5>1 DEF ParamsOK
          <5> QED  BY <5>1, <5>2, ShapeSizes
        <4>3. n \in LinearParams \/ n \in {<<m, 0, "weight">> : m \in Others}
          BY <2>1, <2>3, <3>1, FreshShapes
        <4> QED  BY <4>1, <4>2, <4>3, LinearParamNames
      <3> QED  BY <2>1, <3>1, <3>2 DEF TypeOK
    <2> QED  BY <2>1, <2>2, <2>3 DEF LoadInv, Conversion
  <1> QED  BY <1>1, LoadIsInvariant, PTL
=============================================================================
