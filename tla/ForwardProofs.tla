---------------------------- MODULE ForwardProofs ----------------------------
(***************************************************************************)
(* The forward pass, for batches, models, images and tables of every size: *)
(* every kernel finds in the shared buffers and in the KV cache what the   *)
(* model means it to, the rows of a pass are the positions of its          *)
(* sequences, and the next token is sampled from the last one.             *)
(*                                                                         *)
(* The buffers are sized by the queries, keys and values and by the MLP;   *)
(* that the output of the attention fits too is left to the fact that the  *)
(* queries are as wide as hidden_states, which is so if the number of      *)
(* heads divides hidden_size.  Nothing in the constructors asserts it.     *)
(*                                                                         *)
(* The library's induction principles take a predicate as a parameter,     *)
(* which the provers cannot instantiate.  That every non-empty set of      *)
(* naturals has a least element follows from its theorem on well-founded   *)
(* relations, which takes sets only, and is all the inductions below need. *)
(***************************************************************************)
EXTENDS ModelForward, FiniteSetTheorems, WellFoundedInduction, TLAPS

LEMMA LeastNatural ==
  ASSUME NEW S \in SUBSET Nat, S # {}
  PROVE  \E x \in S : \A y \in S : x <= y
  <1>1. IsWellFoundedOn(OpToRel(<, Nat), Nat)
    BY NatLessThanWellFounded
  <1>2. PICK x \in S : \A y \in S : ~ (<<y, x>> \in OpToRel(<, Nat))
    BY <1>1, WFMin
  <1>3. \A y \in Nat : y < x => <<y, x>> \in OpToRel(<, Nat)
    BY DEF OpToRel
  <1>4. \A y \in S : ~ (y < x)
    BY <1>2, <1>3
  <1>5. \A y \in S : x <= y
    <2> SUFFICES ASSUME NEW y \in S PROVE x <= y
      OBVIOUS
    <2>1. x \in Nat /\ y \in Nat /\ ~ (y < x)
      BY <1>4
    <2> QED  BY <2>1
  <1> QED  BY <1>5

LEMMA Induction ==
  ASSUME NEW S \in SUBSET Nat, 0 \in S, \A n \in S : n + 1 \in S
  PROVE  S = Nat
  <1> SUFFICES ASSUME Nat \ S # {} PROVE FALSE
    OBVIOUS
  <1>1. PICK x \in Nat \ S : \A y \in Nat \ S : x <= y
    <2>1. Nat \ S \in SUBSET Nat
      OBVIOUS
    <2> QED  BY <2>1, LeastNatural
  <1>2. x # 0 /\ x - 1 \in Nat /\ ~ (x <= x - 1)
    BY <1>1
  <1>3. x - 1 \in S
    BY <1>1, <1>2
  <1>4. (x - 1) + 1 = x
    BY <1>1
  <1> QED  BY <1>1, <1>3, <1>4

-----------------------------------------------------------------------------
(* Arithmetic.                                                             *)

LEMMA Times ==
  ASSUME NEW a \in Nat, NEW b \in Nat
  PROVE  a * b \in Nat /\ b * a = a * b /\ (a + 1) * b = a * b + b
  OBVIOUS

LEMMA TimesAtMost ==
  ASSUME NEW a \in Nat, NEW b \in Nat, NEW d \in Nat, a <= b
  PROVE  a * d \in Nat /\ b * d \in Nat /\ a * d <= b * d
  <1>1. PICK k \in Nat : b = a + k
    <2>1. b - a \in Nat /\ b = a + (b - a)
      OBVIOUS
    <2> QED  BY <2>1
  <1>2. k * d \in Nat /\ a * d \in Nat /\ b * d = a * d + k * d
    BY <1>1
  <1> QED  BY <1>2

LEMMA DivMod ==
  ASSUME NEW v \in Nat, NEW d \in Nat \ {0}
  PROVE  v \div d \in Nat /\ v % d \in 0 .. d - 1 /\ v = (v \div d) * d + (v % d)
  <1>1. v \div d \in Nat /\ v % d \in 0 .. d - 1
    BY SMTT(30)
  <1>2. v = d * (v \div d) + (v % d)
    BY SMTT(30)
  <1>q. PICK q \in Nat : q = v \div d
    BY <1>1
  <1>3. d * q = q * d
    BY <1>q, Times
  <1> QED  BY <1>1, <1>2, <1>3, <1>q

LEMMA DivUnique ==
  ASSUME NEW a \in Nat, NEW c \in Nat, NEW d \in Nat \ {0},
         NEW r \in 0 .. d - 1, NEW s \in 0 .. d - 1, a * d + s = c * d + r
  PROVE  a = c /\ r = s
  <1>1. ASSUME NEW x \in Nat, NEW y \in Nat, NEW u \in 0 .. d - 1, NEW v \in 0 .. d - 1,
               x * d + u = y * d + v, x < y
        PROVE  FALSE
    <2>1. x + 1 <= y /\ x + 1 \in Nat
      BY <1>1
    <2>2. (x + 1) * d <= y * d /\ (x + 1) * d = x * d + d /\ x * d \in Nat /\ y * d \in Nat
      BY <2>1, TimesAtMost, Times
    <2> QED  BY <1>1, <2>2
  <1>2. a = c
    BY <1>1
  <1>3. a * d \in Nat
    BY Times
  <1> QED  BY <1>2, <1>3

(* Quotient and remainder of a number that is written with them.           *)
LEMMA DivOf ==
  ASSUME NEW a \in Nat, NEW d \in Nat \ {0}, NEW r \in 0 .. d - 1
  PROVE  (a * d + r) \div d = a /\ (a * d + r) % d = r
  <1>1. PICK v \in Nat : v = a * d + r
    BY Times
  <1>2. PICK q \in Nat, s \in 0 .. d - 1 : q = v \div d /\ s = v % d /\ v = q * d + s
    BY DivMod
  <1>3. q = a /\ s = r
    BY <1>1, <1>2, DivUnique
  <1> QED  BY <1>1, <1>2, <1>3

(* Quotients grow with the number, and are below a bound that is a product.*)
LEMMA DivBelow ==
  ASSUME NEW v \in Nat, NEW d \in Nat \ {0}, NEW n \in Nat, v < n * d
  PROVE  v \div d \in 0 .. n - 1
  <1>1. PICK q \in Nat : q = v \div d /\ q * d <= v /\ q * d \in Nat
    <2>1. v \div d \in Nat /\ v % d \in 0 .. d - 1 /\ v = (v \div d) * d + (v % d)
      BY DivMod
    <2>2. PICK q \in Nat : q = v \div d
      BY <2>1
    <2>3. q * d \in Nat /\ v % d \in Nat /\ v = q * d + (v % d)
      BY <2>1, <2>2, Times
    <2> QED  BY <2>2, <2>3
  <1>2. n <= q => n * d <= q * d
    BY <1>1, TimesAtMost
  <1>3. n * d \in Nat
    BY Times
  <1> QED  BY <1>1, <1>2, <1>3

-----------------------------------------------------------------------------
(* Sums of lengths: where each of n things begins.                         *)

Starts(start, n, size) ==
  /\ start \in [1 .. n + 1 -> Nat] /\ start[1] = 0
  /\ \A b \in 1 .. n : start[b + 1] = start[b] + size[b]

LEMMA Monotone ==
  ASSUME NEW n \in Nat, NEW size, \A b \in 1 .. n : size[b] \in Nat,
         NEW start, Starts(start, n, size), NEW a \in 1 .. n + 1, NEW c \in a .. n + 1
  PROVE  start[a] <= start[c]
  <1> DEFINE S == {k \in Nat : k <= n => \A b \in 1 .. k + 1 : start[b] <= start[k + 1]}
  <1>1. 0 \in S
    BY DEF Starts
  <1>2. ASSUME NEW k \in S, k + 1 <= n
        PROVE  \A b \in 1 .. k + 2 : start[b] <= start[k + 2]
    <2>1. start[k + 2] = start[k + 1] + size[k + 1] /\ k + 1 \in 1 .. n
      BY <1>2 DEF Starts
    <2>2. start[k + 1] \in Nat /\ start[k + 2] \in Nat /\ size[k + 1] \in Nat
      BY <1>2, <2>1 DEF Starts
    <2>3. ASSUME NEW b \in 1 .. k + 1
          PROVE  start[b] <= start[k + 2]
      <3>1. start[b] <= start[k + 1] /\ start[b] \in Nat
        BY <1>2 DEF Starts
      <3> QED  BY <2>1, <2>2, <3>1
    <2>4. \A b \in 1 .. k + 2 : b \in 1 .. k + 1 \/ b = k + 2
      BY <1>2
    <2>5. start[k + 2] <= start[k + 2]
      BY <2>2
    <2> QED  BY <2>3, <2>4, <2>5
  <1>3. \A k \in S : k + 1 \in S
    <2> SUFFICES ASSUME NEW k \in S, k + 1 <= n
                 PROVE  \A b \in 1 .. (k + 1) + 1 : start[b] <= start[(k + 1) + 1]
      OBVIOUS
    <2>1. (k + 1) + 1 = k + 2
      OBVIOUS
    <2> QED  BY <1>2, <2>1
  <1> HIDE DEF S
  <1>4. S = Nat
    <2>1. S \in SUBSET Nat
      BY DEF S
    <2> QED  BY <1>1, <1>3, <2>1, Induction
  <1>5. c - 1 \in S /\ c - 1 <= n /\ a \in 1 .. (c - 1) + 1 /\ (c - 1) + 1 = c
    BY <1>4
  <1> QED  BY <1>5 DEF S

LEMMA Covered ==
  ASSUME NEW n \in Nat, NEW size, \A b \in 1 .. n : size[b] \in Nat,
         NEW start, Starts(start, n, size), NEW r \in 0 .. start[n + 1] - 1
  PROVE  \E b \in 1 .. n : start[b] <= r /\ r < start[b + 1]
  <1> DEFINE S == {k \in 1 .. n + 1 : r < start[k]}
  <1>1. start[n + 1] \in Nat /\ start[1] = 0
    BY DEF Starts
  <1>2. S \in SUBSET Nat /\ n + 1 \in S
    BY <1>1
  <1>3. PICK k \in S : \A y \in S : k <= y
    BY <1>2, LeastNatural
  <1>4. k \in 1 .. n + 1 /\ r < start[k] /\ k # 1
    BY <1>1, <1>3
  <1>5. k - 1 \in 1 .. n /\ k - 1 \notin S /\ (k - 1) + 1 = k
    BY <1>3, <1>4
  <1>6. start[k - 1] <= r
    <2>1. k - 1 \in 1 .. n + 1
      BY <1>5
    <2>2. start[k - 1] \in Nat
      BY <2>1 DEF Starts
    <2>3. ~ (r < start[k - 1])
      BY <1>5, <2>1
    <2>4. r \in Nat
      BY <1>1
    <2> QED  BY <2>2, <2>3, <2>4
  <1> QED  BY <1>4, <1>5, <1>6

LEMMA Alone ==
  ASSUME NEW n \in Nat, NEW size, \A b \in 1 .. n : size[b] \in Nat,
         NEW start, Starts(start, n, size), NEW r \in Nat, NEW b \in 1 .. n, NEW c \in 1 .. n,
         start[b] <= r, r < start[b + 1], start[c] <= r, r < start[c + 1]
  PROVE  b = c
  <1>1. ASSUME NEW x \in 1 .. n, NEW y \in 1 .. n, r < start[x + 1], start[y] <= r, x < y
        PROVE  FALSE
    <2>1. x + 1 \in 1 .. n + 1 /\ y \in (x + 1) .. n + 1
      BY <1>1
    <2>2. start[x + 1] <= start[y]
      BY <2>1, Monotone
    <2>3. start[x + 1] \in Nat /\ start[y] \in Nat
      BY <2>1 DEF Starts
    <2> QED  BY <1>1, <2>2, <2>3
  <1> QED  BY <1>1

(* cumsum and pad.                                                         *)
LEMMA CuSeqlensFacts ==
  ASSUME NEW n \in Nat, NEW lens \in [1 .. n -> Nat]
  PROVE  Starts(CuSeqlens(lens), n, lens)
  <1>1. Len(lens) = n
    OBVIOUS
  <1> DEFINE Sum(g, k) == [b \in 0 .. k |-> IF b = 0 THEN 0 ELSE g[b - 1] + lens[b]]
             S == {k \in Nat : k <= n => \E g : g = Sum(g, k)}
  <1>2. 0 \in S
    <2>1. [b \in {0} |-> 0] = Sum([b \in {0} |-> 0], 0)
      OBVIOUS
    <2> QED  BY <2>1
  <1>3. \A k \in S : k + 1 \in S
    <2> SUFFICES ASSUME NEW k \in S, k + 1 <= n
                 PROVE  \E g : g = Sum(g, k + 1)
      <3> HIDE DEF Sum
      <3> QED  OBVIOUS
    <2>1. PICK g : g = Sum(g, k)
      <3> HIDE DEF Sum
      <3> QED  OBVIOUS
    <2> DEFINE h == [b \in 0 .. k + 1 |-> IF b = k + 1 THEN g[k] + lens[k + 1] ELSE g[b]]
    <2>2. ASSUME NEW b \in 0 .. k + 1
          PROVE  h[b] = IF b = 0 THEN 0 ELSE h[b - 1] + lens[b]
      <3>1. CASE b = 0
        BY <2>1, <3>1
      <3>2. CASE b \in 1 .. k
        <4>1. h[b] = g[b] /\ h[b - 1] = g[b - 1] /\ b \in 0 .. k /\ b # 0
          BY <3>2
        <4>2. g[b] = g[b - 1] + lens[b]
          BY <2>1, <4>1
        <4> QED  BY <4>1, <4>2
      <3>3. CASE b = k + 1
        BY <3>3
      <3> QED  BY <3>1, <3>2, <3>3
    <2>3. h = Sum(h, k + 1)
      BY <2>2
    <2> QED  BY <2>3
  <1>4. n \in S
    <2> HIDE DEF S
    <2>1. S \in SUBSET Nat
      BY DEF S
    <2>2. S = Nat
      BY <1>2, <1>3, <2>1, Induction
    <2> QED  BY <2>2
  <1> DEFINE cu == CHOOSE g : g = Sum(g, n)
  <1>5. cu = Sum(cu, n)
    <2> HIDE DEF Sum
    <2>1. \E g : g = Sum(g, n)
      BY <1>4
    <2> QED  BY <2>1
  <1>6. CuSeqlens(lens) = [b \in 1 .. n + 1 |-> cu[b - 1]]
    BY <1>1 DEF CuSeqlens
  <1> HIDE DEF cu, S
  <1>7. cu[0] = 0 /\ \A b \in 1 .. n : cu[b] = cu[b - 1] + lens[b]
    BY <1>5
  <1>8. \A k \in 0 .. n : cu[k] \in Nat
    <2> DEFINE N == {k \in Nat : k <= n => cu[k] \in Nat}
    <2>1. 0 \in N
      BY <1>7
    <2>2. \A k \in N : k + 1 \in N
      <3> SUFFICES ASSUME NEW k \in N, k + 1 <= n PROVE cu[k + 1] \in Nat
        OBVIOUS
      <3>1. cu[k + 1] = cu[k] + lens[k + 1] /\ lens[k + 1] \in Nat /\ cu[k] \in Nat
        <4>1. k + 1 \in 1 .. n /\ (k + 1) - 1 = k
          OBVIOUS
        <4> QED  BY <1>7, <4>1
      <3> QED  BY <3>1
    <2> HIDE DEF N
    <2>3. N = Nat
      <3>1. N \in SUBSET Nat
        BY DEF N
      <3> QED  BY <2>1, <2>2, <3>1, Induction
    <2> QED  BY <2>3 DEF N
  <1>9. CuSeqlens(lens) \in [1 .. n + 1 -> Nat] /\ CuSeqlens(lens)[1] = 0
    BY <1>6, <1>7, <1>8
  <1>10. ASSUME NEW b \in 1 .. n
         PROVE  CuSeqlens(lens)[b + 1] = CuSeqlens(lens)[b] + lens[b]
    <2>1. b + 1 \in 1 .. n + 1 /\ b \in 1 .. n + 1 /\ (b + 1) - 1 = b
      OBVIOUS
    <2> QED  BY <1>6, <1>7, <2>1
  <1> QED  BY <1>9, <1>10 DEF Starts

LEMMA ConcatFacts ==
  ASSUME NEW V, NEW s \in Seq(V), NEW t \in Seq(V)
  PROVE  /\ s \o t \in Seq(V) /\ Len(s \o t) = Len(s) + Len(t) /\ Len(s) \in Nat /\ Len(t) \in Nat
         /\ \A i \in 1 .. Len(s) : (s \o t)[i] = s[i]
         /\ \A i \in 1 .. Len(t) : (s \o t)[Len(s) + i] = t[i]
  <1>1. Len(s) \in Nat /\ Len(t) \in Nat /\ s \o t \in Seq(V) /\ Len(s \o t) = Len(s) + Len(t)
    OBVIOUS
  <1>2. \A i \in 1 .. Len(s) : (s \o t)[i] = s[i]
    BY <1>1
  <1>3. ASSUME NEW i \in 1 .. Len(t)
        PROVE  (s \o t)[Len(s) + i] = t[i]
    <2>1. Len(s) + i \in 1 .. Len(s) + Len(t) /\ ~ (Len(s) + i <= Len(s)) /\ (Len(s) + i) - Len(s) = i
      BY <1>1
    <2> QED  BY <1>1, <2>1
  <1> QED  BY <1>1, <1>2, <1>3

(* One sequence after the other: element p of the b-th is where the b-th   *)
(* begins plus p.                                                          *)
Flattened(V, n, seqs, start) ==
  /\ FlattenSeq(seqs) \in Seq(V) /\ Len(FlattenSeq(seqs)) = start[n + 1]
  /\ \A b \in 1 .. n : \A p \in 1 .. Len(seqs[b]) : FlattenSeq(seqs)[start[b] + p] = seqs[b][p]

LEMMA FlattenFacts ==
  ASSUME NEW V, NEW n \in Nat \ {0}, NEW seqs \in [1 .. n -> Seq(V)],
         NEW size, \A b \in 1 .. n : size[b] = Len(seqs[b]),
         NEW start, Starts(start, n, size)
  PROVE  Flattened(V, n, seqs, start)
  <1>1. Len(seqs) = n
    OBVIOUS
  <1>0. \A b \in 1 .. n : seqs[b] \in Seq(V) /\ Len(seqs[b]) \in Nat
    OBVIOUS
  <1> DEFINE Flat(g, k) == [i \in 1 .. k |-> IF i = 1 THEN seqs[i] ELSE g[i - 1] \o seqs[i]]
             S == {k \in Nat : k < n => \E g : g = Flat(g, k + 1)}
  <1>2. 0 \in S
    <2>1. [i \in 1 .. 1 |-> seqs[1]] = Flat([i \in 1 .. 1 |-> seqs[1]], 1)
      OBVIOUS
    <2> HIDE DEF Flat
    <2> QED  BY <2>1
  <1>3. \A k \in S : k + 1 \in S
    <2> SUFFICES ASSUME NEW k \in Nat, k + 1 < n, \E g : g = Flat(g, k + 1)
                 PROVE  \E g : g = Flat(g, (k + 1) + 1)
      <3> HIDE DEF Flat
      <3>1. ASSUME NEW k \in S
            PROVE  k \in Nat /\ k + 1 \in Nat /\ (k + 1 < n => k < n /\ \E g : g = Flat(g, k + 1))
        OBVIOUS
      <3> QED  BY <3>1
    <2>1. PICK g : g = Flat(g, k + 1)
      <3> HIDE DEF Flat
      <3> QED  OBVIOUS
    <2> DEFINE h == [i \in 1 .. k + 2 |-> IF i = k + 2 THEN g[k + 1] \o seqs[k + 2] ELSE g[i]]
    <2>2. ASSUME NEW i \in 1 .. k + 2
          PROVE  h[i] = IF i = 1 THEN seqs[i] ELSE h[i - 1] \o seqs[i]
      <3>1. CASE i = 1
        BY <2>1, <3>1
      <3>2. CASE i \in 2 .. k + 1
        <4>1. h[i] = g[i] /\ h[i - 1] = g[i - 1] /\ i \in 1 .. k + 1 /\ i # 1
          BY <3>2
        <4>2. g[i] = g[i - 1] \o seqs[i]
          BY <2>1, <4>1
        <4> QED  BY <4>1, <4>2
      <3>3. CASE i = k + 2
        <4>1. i - 1 = k + 1 /\ k + 1 \in 1 .. k + 2 /\ k + 1 # k + 2 /\ i # 1 /\ i \in 1 .. k + 2
          BY <3>3
        <4>2. h[i - 1] = g[k + 1] /\ h[i] = g[k + 1] \o seqs[k + 2]
          BY <3>3, <4>1
        <4> QED  BY <3>3, <4>1, <4>2
      <3> QED  BY <3>1, <3>2, <3>3
    <2>3. h = Flat(h, k + 2)
      BY <2>2
    <2>4. (k + 1) + 1 = k + 2
      OBVIOUS
    <2> HIDE DEF Flat, h
    <2> QED  BY <2>3, <2>4
  <1>4. n - 1 \in S
    <2> HIDE DEF S
    <2>1. S \in SUBSET Nat
      BY DEF S
    <2>2. S = Nat
      BY <1>2, <1>3, <2>1, Induction
    <2> QED  BY <2>2
  <1> DEFINE f == CHOOSE g : g = Flat(g, n)
  <1>5. f = Flat(f, n)
    <2> HIDE DEF Flat
    <2>1. (n - 1) + 1 = n /\ n - 1 < n
      OBVIOUS
    <2>2. \E g : g = Flat(g, n)
      BY <1>4, <2>1
    <2> QED  BY <2>2
  <1>6. FlattenSeq(seqs) = f[n]
    BY <1>1 DEF FlattenSeq
  <1> HIDE DEF f, S
  <1>7. f[1] = seqs[1] /\ \A i \in 2 .. n : f[i] = f[i - 1] \o seqs[i]
    <2>1. ASSUME NEW i \in 1 .. n
          PROVE  f[i] = IF i = 1 THEN seqs[i] ELSE f[i - 1] \o seqs[i]
      <3>1. f[i] = Flat(f, n)[i]
        <4> HIDE DEF Flat
        <4> QED  BY <1>5
      <3>2. Flat(f, n)[i] = IF i = 1 THEN seqs[i] ELSE f[i - 1] \o seqs[i]
        OBVIOUS
      <3> QED  BY <3>1, <3>2
    <2>2. 1 \in 1 .. n /\ \A i \in 2 .. n : i \in 1 .. n /\ i # 1
      OBVIOUS
    <2> QED  BY <2>1, <2>2
  <1> HIDE DEF Flat
  <1>8. /\ start \in [1 .. n + 1 -> Nat] /\ start[1] = 0
        /\ \A b \in 1 .. n : start[b + 1] = start[b] + Len(seqs[b])
    BY DEF Starts
  <1>m. \A b \in 1 .. n, a \in 1 .. n + 1 : a <= b => start[a] <= start[b]
    <2>1. \A b \in 1 .. n : size[b] \in Nat
      BY <1>0
    <2> SUFFICES ASSUME NEW b \in 1 .. n, NEW a \in 1 .. n + 1, a <= b PROVE start[a] <= start[b]
      OBVIOUS
    <2>2. b \in a .. n + 1
      OBVIOUS
    <2> QED  BY <2>1, <2>2, Monotone
  <1> DEFINE Good(k) == /\ f[k] \in Seq(V) /\ Len(f[k]) = start[k + 1]
                        /\ \A b \in 1 .. k : \A p \in 1 .. Len(seqs[b]) : f[k][start[b] + p] = seqs[b][p]
             G == {k \in Nat : k < n => Good(k + 1)}
  <1>9. 0 \in G
    <2>1. Good(1)
      <3>1. f[1] \in Seq(V) /\ Len(f[1]) = start[2] /\ start[1] = 0
        BY <1>7, <1>8
      <3>2. ASSUME NEW b \in 1 .. 1, NEW p \in 1 .. Len(seqs[b])
            PROVE  f[1][start[b] + p] = seqs[b][p]
        <4>1. b = 1 /\ start[b] + p = p
          BY <3>1
        <4> QED  BY <1>7, <4>1
      <3> QED  BY <3>1, <3>2
    <2> HIDE DEF Good
    <2> QED  BY <2>1
  <1>10. ASSUME NEW k \in 1 .. n - 1, Good(k)
         PROVE  Good(k + 1)
    <2>1. k + 1 \in 2 .. n /\ (k + 1) - 1 = k
      OBVIOUS
    <2>2. f[k + 1] = f[k] \o seqs[k + 1]
      BY <1>7, <2>1
    <2>3. f[k] \in Seq(V) /\ seqs[k + 1] \in Seq(V) /\ Len(f[k]) = start[k + 1]
      BY <1>10, <2>1
    <2> DEFINE x == f[k]
               y == seqs[k + 1]
    <2>c. /\ x \o y \in Seq(V) /\ Len(x \o y) = Len(x) + Len(y) /\ Len(x) \in Nat /\ Len(y) \in Nat
          /\ \A i \in 1 .. Len(x) : (x \o y)[i] = x[i]
          /\ \A i \in 1 .. Len(y) : (x \o y)[Len(x) + i] = y[i]
      <3>1. x \in Seq(V) /\ y \in Seq(V)
        BY <2>3
      <3> HIDE DEF x, y
      <3> QED  BY <3>1, ConcatFacts
    <2>4. f[k + 1] \in Seq(V) /\ Len(f[k + 1]) = start[(k + 1) + 1]
      <3>1. f[k + 1] \in Seq(V) /\ Len(f[k + 1]) = Len(f[k]) + Len(seqs[k + 1])
        BY <2>2, <2>c
      <3>2. start[(k + 1) + 1] = start[k + 1] + Len(seqs[k + 1])
        BY <1>8, <2>1
      <3> QED  BY <2>3, <3>1, <3>2
    <2>5. ASSUME NEW b \in 1 .. k + 1, NEW p \in 1 .. Len(seqs[b])
          PROVE  f[k + 1][start[b] + p] = seqs[b][p]
      <3>0. b \in 1 .. n /\ b \in 1 .. n + 1
        OBVIOUS
      <3>1. start[b] \in Nat /\ Len(seqs[b]) \in Nat
        BY <1>0, <1>8, <3>0
      <3>2. CASE b \in 1 .. k
        <4>1. b + 1 \in 1 .. n + 1 /\ b + 1 <= k + 1 /\ k + 1 \in 1 .. n
          BY <3>2
        <4>2. start[b + 1] = start[b] + Len(seqs[b]) /\ start[b + 1] <= start[k + 1]
          BY <1>8, <1>m, <3>0, <4>1
        <4>3. start[b] + p \in 1 .. start[k + 1]
          <5>0. k + 1 \in 1 .. n + 1
            BY <4>1
          <5>1. start[b + 1] \in Nat /\ start[k + 1] \in Nat
            BY <1>8, <4>1, <5>0
          <5>2. start[b] + p \in Nat /\ p <= Len(seqs[b]) /\ start[b] + Len(seqs[b]) <= start[k + 1]
            BY <3>1, <4>2, <5>1
          <5> QED  BY <3>1, <5>1, <5>2
        <4>4. f[k][start[b] + p] = seqs[b][p]
          BY <1>10, <3>2
        <4>5. f[k + 1][start[b] + p] = f[k][start[b] + p]
          BY <2>2, <2>3, <2>c, <4>3
        <4> QED  BY <4>4, <4>5
      <3>3. CASE b = k + 1
        <4>1. Len(f[k]) = start[b]
          BY <2>3, <3>3
        <4>2. p \in 1 .. Len(seqs[k + 1])
          BY <3>3
        <4>3. (f[k] \o seqs[k + 1])[Len(f[k]) + p] = seqs[k + 1][p]
          BY <2>c, <4>2
        <4> QED  BY <2>2, <3>3, <4>1, <4>3
      <3> QED  BY <3>2, <3>3
    <2> QED  BY <2>4, <2>5
  <1>11. \A k \in G : k + 1 \in G
    <2> HIDE DEF Good
    <2> SUFFICES ASSUME NEW k \in G, k + 1 < n PROVE Good((k + 1) + 1)
      OBVIOUS
    <2>1. k + 1 \in 1 .. n - 1 /\ Good(k + 1)
      OBVIOUS
    <2> QED  BY <1>10, <2>1
  <1>12. Good(n)
    <2> HIDE DEF G, Good
    <2>1. G \in SUBSET Nat
      BY DEF G
    <2>2. G = Nat
      BY <1>9, <1>11, <2>1, Induction
    <2>3. n - 1 \in G /\ (n - 1) + 1 = n /\ n - 1 < n
      BY <2>2
    <2> QED  BY <2>3 DEF G
  <1> QED  BY <1>6, <1>12 DEF Flattened

LEMMA MaxInFacts ==
  ASSUME NEW n \in Nat \ {0}, NEW lens \in [1 .. n -> Nat]
  PROVE  MaxIn(lens) \in Nat /\ \A b \in 1 .. n : lens[b] <= MaxIn(lens)
  <1> DEFINE S == {k \in Nat : k < n => \E x \in 1 .. k + 1 : \A b \in 1 .. k + 1 : lens[b] <= lens[x]}
  <1>1. 0 \in S
    OBVIOUS
  <1>2. \A k \in S : k + 1 \in S
    <2> SUFFICES ASSUME NEW k \in S, k + 1 < n
                 PROVE  \E x \in 1 .. (k + 1) + 1 : \A b \in 1 .. (k + 1) + 1 : lens[b] <= lens[x]
      OBVIOUS
    <2>1. PICK x \in 1 .. k + 1 : \A b \in 1 .. k + 1 : lens[b] <= lens[x]
      OBVIOUS
    <2>2. k + 2 \in 1 .. n /\ x \in 1 .. n /\ lens[k + 2] \in Nat /\ lens[x] \in Nat
      OBVIOUS
    <2>3. \A b \in 1 .. k + 2 : lens[b] \in Nat /\ (b \in 1 .. k + 1 \/ b = k + 2)
      OBVIOUS
    <2>4. CASE lens[k + 2] <= lens[x]
      <3>1. \A b \in 1 .. k + 2 : lens[b] <= lens[x]
        BY <2>1, <2>3, <2>4
      <3> QED  BY <3>1
    <2>5. CASE lens[x] < lens[k + 2]
      <3>1. \A b \in 1 .. k + 2 : lens[b] <= lens[k + 2]
        BY <2>1, <2>2, <2>3, <2>5
      <3> QED  BY <3>1
    <2> QED  BY <2>2, <2>4, <2>5
  <1> HIDE DEF S
  <1>3. S = Nat
    <2>1. S \in SUBSET Nat
      BY DEF S
    <2> QED  BY <1>1, <1>2, <2>1, Induction
  <1>4. PICK x \in 1 .. n : \A b \in 1 .. n : lens[b] <= lens[x]
    <2>1. n - 1 \in S /\ (n - 1) + 1 = n /\ n - 1 < n
      BY <1>3
    <2> QED  BY <2>1 DEF S
  <1>5. \E y \in {lens[b] : b \in DOMAIN lens} : \A b \in DOMAIN lens : lens[b] <= y
    BY <1>4
  <1>6. /\ MaxIn(lens) \in {lens[b] : b \in DOMAIN lens}
        /\ \A b \in DOMAIN lens : lens[b] <= MaxIn(lens)
    BY <1>5 DEF MaxIn
  <1> QED  BY <1>6

-----------------------------------------------------------------------------
(* Positions of a sequence and its tokens.                                 *)

JobOK ==
  /\ job.precision \in {"w4a8-channel", "w4a8-group", "w8a8", "w16a16"} /\ job.vlm \in BOOLEAN
  /\ job.images \in Images /\ job.imgPerSeq \in ImagesPerSeq
  /\ job.prompt \in [SeqIds -> Prompts] /\ job.sz \in Sizes
  /\ ~ job.vlm => job.images = 0

(* What InputMetadata asserts.                                             *)
AllImages == job.vlm => job.images = job.imgPerSeq

Before(s) == job.prompt[s].before
After(s)  == job.prompt[s].after
Wide      == job.images * TokensPerImage

(* Input id j's first position, and how many it has.                       *)
Begins(s, j) ==
  IF j <= Before(s) THEN j
  ELSE IF j <= Before(s) + job.images THEN Before(s) + (j - Before(s)) * TokensPerImage
  ELSE j + (Wide - job.images)
Width(s, j) == IF IsImage(s, j) THEN TokensPerImage ELSE 1

LEMMA TextFacts ==
  ASSUME JobOK, NEW s \in SeqIds
  PROVE  /\ Before(s) \in Nat /\ After(s) \in Nat /\ Before(s) + After(s) > 0
         /\ job.images \in Nat /\ TokensPerImage \in Nat \ {0}
         /\ Wide \in Nat /\ job.images <= Wide /\ job.images * (TokensPerImage - 1) = Wide - job.images
         /\ PromptLen(s) = Before(s) + job.images + After(s) /\ PromptLen(s) \in Nat \ {0}
         /\ AllImages => ImageExtra = Wide - job.images
  <1>1. job.prompt[s] \in Prompts /\ job.images \in Nat /\ TokensPerImage \in Nat \ {0} /\ job.imgPerSeq \in Nat
    BY ForwardAssumption DEF JobOK
  <1>2. Before(s) \in Nat /\ After(s) \in Nat /\ Before(s) + After(s) > 0
    BY <1>1, ForwardAssumption DEF Before, After
  <1>3. Wide \in Nat /\ job.images <= Wide /\ job.images * (TokensPerImage - 1) = Wide - job.images
    <2>1. PICK i \in Nat, t \in Nat : i = job.images /\ TokensPerImage = t + 1
      <3>1. TokensPerImage - 1 \in Nat /\ TokensPerImage = (TokensPerImage - 1) + 1
        BY <1>1
      <3> QED  BY <1>1, <3>1
    <2>2. i * t \in Nat /\ i * (t + 1) = i * t + i /\ (t + 1) - 1 = t
      OBVIOUS
    <2> QED  BY <2>1, <2>2 DEF Wide
  <1>4. PromptLen(s) = Before(s) + job.images + After(s)
    BY DEF PromptLen, Before, After
  <1>5. AllImages => ImageExtra = Wide - job.images
    <2>1. CASE job.vlm
      BY <1>3, <2>1 DEF AllImages, ImageExtra
    <2>2. CASE ~ job.vlm
      <3>1. job.images = 0
        BY <2>2 DEF JobOK
      <3>2. Wide = 0
        BY <1>1, <3>1 DEF Wide
      <3> QED  BY <2>2, <3>1, <3>2 DEF ImageExtra
    <2> QED  BY <2>1, <2>2 DEF JobOK
  <1> QED  BY <1>1, <1>2, <1>3, <1>4, <1>5

LEMMA BeginsFacts ==
  ASSUME JobOK, NEW s \in SeqIds
  PROVE  /\ Begins(s, 0) = 0 /\ Begins(s, PromptLen(s)) = PromptLen(s) + (Wide - job.images)
         /\ \A j \in 0 .. PromptLen(s) - 1 :
              /\ Begins(s, j) \in Nat /\ Width(s, j) \in Nat \ {0}
              /\ Begins(s, j + 1) = Begins(s, j) + Width(s, j)
  <1>1. PICK b \in Nat, a \in Nat, i \in Nat, t \in Nat \ {0}, w \in Nat :
             /\ b = Before(s) /\ a = After(s) /\ i = job.images /\ t = TokensPerImage /\ w = Wide
             /\ b + a > 0 /\ w = i * t /\ i <= w /\ PromptLen(s) = b + i + a
    BY TextFacts DEF Wide
  <1>2. \A j : Begins(s, j) = IF j <= b THEN j
                              ELSE IF j <= b + i THEN b + (j - b) * t ELSE j + (w - i)
    BY <1>1 DEF Begins
  <1>3. \A j : Width(s, j) = IF j \in b .. b + i - 1 THEN t ELSE 1
    BY <1>1 DEF Width, IsImage, Before
  <1>4. Begins(s, 0) = 0
    BY <1>2
  <1>5. Begins(s, PromptLen(s)) = PromptLen(s) + (w - i)
    <2>1. CASE a > 0
      BY <1>1, <1>2, <2>1
    <2>2. CASE a = 0 /\ i > 0
      <3>1. PromptLen(s) = b + i /\ (b + i) - b = i /\ ~ (b + i <= b)
        BY <1>1, <2>2
      <3> QED  BY <1>1, <1>2, <3>1
    <2>3. CASE a = 0 /\ i = 0
      <3>1. w = 0
        BY <1>1, <2>3
      <3> QED  BY <1>1, <1>2, <2>3, <3>1
    <2> QED  BY <2>1, <2>2, <2>3
  <1>6. ASSUME NEW j \in 0 .. PromptLen(s) - 1
        PROVE  /\ Begins(s, j) \in Nat /\ Width(s, j) \in Nat \ {0}
               /\ Begins(s, j + 1) = Begins(s, j) + Width(s, j)
    <2>0. j \in Nat
      BY <1>1
    <2>1. CASE j < b
      BY <1>2, <1>3, <2>0, <2>1
    <2>2. CASE j \in b .. b + i - 1
      <3>1. PICK k \in Nat : j = b + k /\ k + 1 <= i
        <4>1. j - b \in Nat /\ j = b + (j - b) /\ (j - b) + 1 <= i
          BY <2>0, <2>2
        <4> QED  BY <4>1
      <3>2. k * t \in Nat /\ (k + 1) * t = k * t + t
        BY Times
      <3>3. Begins(s, j) = b + k * t
        <4>1. CASE k = 0
          BY <1>2, <3>1, <4>1
        <4>2. CASE k # 0
          <5>1. ~ (j <= b) /\ j <= b + i /\ j - b = k
            BY <3>1, <4>2
          <5> QED  BY <1>2, <5>1
        <4> QED  BY <4>1, <4>2
      <3>4. Begins(s, j + 1) = b + (k + 1) * t
        <4>1. ~ (j + 1 <= b) /\ j + 1 <= b + i /\ (j + 1) - b = k + 1
          BY <3>1
        <4> QED  BY <1>2, <4>1
      <3> QED  BY <1>3, <2>2, <3>2, <3>3, <3>4
    <2>3. CASE j >= b + i
      <3>1. Width(s, j) = 1
        BY <1>3, <2>3
      <3>2. Begins(s, j + 1) = (j + 1) + (w - i)
        BY <1>2, <2>0, <2>3
      <3>3. Begins(s, j) = j + (w - i)
        <4>1. CASE j > b + i
          BY <1>2, <2>0, <4>1
        <4>2. CASE j = b + i /\ i > 0
          <5>1. ~ (j <= b) /\ j <= b + i /\ j - b = i
            BY <4>2
          <5> QED  BY <1>1, <1>2, <4>2, <5>1
        <4>3. CASE j = b + i /\ i = 0
          <5>1. w = 0
            BY <1>1, <4>3
          <5> QED  BY <1>2, <4>3, <5>1
        <4> QED  BY <2>0, <2>3, <4>1, <4>2, <4>3
      <3>4. PICK d \in Nat : d = w - i
        BY <1>1
      <3> QED  BY <2>0, <3>1, <3>2, <3>3, <3>4
    <2> QED  BY <2>0, <2>1, <2>2, <2>3
  <1> QED  BY <1>1, <1>4, <1>5, <1>6

LEMMA TokenOf ==
  ASSUME JobOK, NEW s \in SeqIds, NEW j \in 0 .. PromptLen(s) - 1, NEW k \in 0 .. Width(s, j) - 1
  PROVE  TokenAt(s, Begins(s, j) + k) = IF IsImage(s, j) THEN <<s, j, k + 1>> ELSE <<s, j, 0>>
  <1>1. PICK b \in Nat, a \in Nat, i \in Nat, t \in Nat \ {0}, w \in Nat :
             /\ b = Before(s) /\ a = After(s) /\ i = job.images /\ t = TokensPerImage /\ w = Wide
             /\ w = i * t /\ i <= w /\ PromptLen(s) = b + i + a /\ job.images * (TokensPerImage - 1) = w - i
    BY TextFacts DEF Wide
  <1>2. \A x : TokenAt(s, x) = IF x < b THEN <<s, x, 0>>
                               ELSE IF x < b + w THEN <<s, b + (x - b) \div t, ((x - b) % t) + 1>>
                               ELSE <<s, x - (w - i), 0>>
    BY <1>1 DEF TokenAt, Before, Wide
  <1>3. Begins(s, j) = IF j <= b THEN j
                       ELSE IF j <= b + i THEN b + (j - b) * t ELSE j + (w - i)
    BY <1>1 DEF Begins
  <1>4. IsImage(s, j) <=> j \in b .. b + i - 1
    BY <1>1 DEF IsImage, Before
  <1>5. Width(s, j) = IF IsImage(s, j) THEN t ELSE 1
    BY <1>1 DEF Width
  <1>6. j \in Nat
    BY <1>1
  <1>7. CASE j < b
    <2>1. ~ IsImage(s, j) /\ k = 0 /\ Begins(s, j) + k = j
      BY <1>3, <1>4, <1>5, <1>6, <1>7
    <2> QED  BY <1>2, <1>7, <2>1
  <1>8. CASE j \in b .. b + i - 1
    <2>1. PICK d \in Nat : j = b + d /\ d + 1 <= i
      <3>1. j - b \in Nat /\ j = b + (j - b) /\ (j - b) + 1 <= i
        BY <1>6, <1>8
      <3> QED  BY <3>1
    <2>2. d * t \in Nat /\ (d + 1) * t = d * t + t /\ (d + 1) * t <= i * t
      BY <2>1, Times, TimesAtMost
    <2>3. Begins(s, j) = b + d * t
      <3>1. CASE d = 0
        BY <1>3, <2>1, <3>1
      <3>2. CASE d # 0
        <4>1. ~ (j <= b) /\ j <= b + i /\ j - b = d
          BY <2>1, <3>2
        <4> QED  BY <1>3, <4>1
      <3> QED  BY <3>1, <3>2
    <2>4. k \in 0 .. t - 1 /\ IsImage(s, j)
      BY <1>4, <1>5, <1>8
    <2>5. PICK x \in Nat : x = Begins(s, j) + k /\ x - b = d * t + k /\ ~ (x < b) /\ x < b + w
      <3>1. PICK m \in Nat : m = d * t
        BY <2>2
      <3>2. m + t <= w
        BY <1>1, <2>2, <3>1
      <3>3. b + m + k \in Nat /\ (b + m + k) - b = m + k /\ ~ (b + m + k < b) /\ b + m + k < b + w
        BY <2>4, <3>1, <3>2
      <3> QED  BY <2>3, <3>1, <3>3
    <2>6. (x - b) \div t = d /\ (x - b) % t = k
      <3>1. PICK y : y = x - b /\ y = d * t + k
        BY <2>5
      <3>2. (d * t + k) \div t = d /\ (d * t + k) % t = k
        BY <2>4, DivOf
      <3> QED  BY <3>1, <3>2
    <2> QED  BY <1>2, <2>1, <2>4, <2>5, <2>6
  <1>9. CASE j >= b + i
    <2>1. ~ IsImage(s, j) /\ k = 0
      BY <1>4, <1>5, <1>6, <1>9
    <2>2. Begins(s, j) = j + (w - i)
      <4>1. CASE j > b + i
        BY <1>3, <1>6, <4>1
      <4>2. CASE j = b + i /\ i > 0
        <5>1. ~ (j <= b) /\ j <= b + i /\ j - b = i
          BY <4>2
        <5> QED  BY <1>1, <1>3, <4>2, <5>1
      <4>3. CASE j = b + i /\ i = 0
        <5>1. w = 0
          BY <1>1, <4>3
        <5> QED  BY <1>3, <4>3, <5>1
      <4> QED  BY <1>6, <1>9, <4>1, <4>2, <4>3
    <2>3. PICK d \in Nat : d = w - i /\ w = i + d
      BY <1>1
    <2>4. /\ Begins(s, j) + k = j + d /\ ~ (j + d < b) /\ ~ (j + d < b + w) /\ (j + d) - (w - i) = j
      BY <1>6, <1>9, <2>1, <2>2, <2>3
    <2> QED  BY <1>2, <2>1, <2>4
  <1> QED  BY <1>6, <1>7, <1>8, <1>9

(* Different positions hold different tokens.                              *)
LEMMA TokensDiffer ==
  ASSUME JobOK, NEW s \in SeqIds, NEW x \in Nat, NEW y \in Nat, TokenAt(s, x) = TokenAt(s, y)
  PROVE  x = y
  <1>1. PICK b \in Nat, i \in Nat, t \in Nat \ {0}, w \in Nat :
             /\ b = Before(s) /\ i = job.images /\ t = TokensPerImage /\ w = Wide
             /\ w = i * t /\ i <= w /\ job.images * (TokensPerImage - 1) = w - i
    BY TextFacts DEF Wide
  <1>2. \A z : TokenAt(s, z) = IF z < b THEN <<s, z, 0>>
                               ELSE IF z < b + w THEN <<s, b + (z - b) \div t, ((z - b) % t) + 1>>
                               ELSE <<s, z - (w - i), 0>>
    BY <1>1 DEF TokenAt, Before, Wide
  <1> DEFINE Text(z)  == z < b /\ TokenAt(s, z) = <<s, z, 0>>
             Photo(z) == \E q \in 0 .. i - 1, r \in 0 .. t - 1 :
                           z = b + (q * t + r) /\ TokenAt(s, z) = <<s, b + q, r + 1>>
             Rest(z)  == z >= b + w /\ TokenAt(s, z) = <<s, z - (w - i), 0>>
  <1>3. ASSUME NEW z \in Nat
        PROVE  Text(z) \/ Photo(z) \/ Rest(z)
    <2>1. CASE z < b
      BY <1>2, <2>1
    <2>2. CASE z >= b /\ z < b + w
      <3>1. PICK d \in Nat : d = z - b /\ z = b + d /\ d < i * t
        BY <1>1, <2>2
      <3>2. d \div t \in 0 .. i - 1
        BY <3>1, DivBelow
      <3>3. PICK q \in 0 .. i - 1, r \in 0 .. t - 1 : q = d \div t /\ r = d % t /\ d = q * t + r
        BY <3>2, DivMod
      <3>4. TokenAt(s, z) = <<s, b + q, r + 1>>
        BY <1>2, <2>2, <3>1, <3>3
      <3>5. z = b + (q * t + r)
        BY <3>1, <3>3
      <3> QED  BY <3>4, <3>5
    <2>3. CASE z >= b + w
      BY <1>1, <1>2, <2>3
    <2> QED  BY <1>1, <2>1, <2>2, <2>3
  <1>4. PICK d \in Nat : d = w - i /\ w = i + d
    BY <1>1
  <1>t. \A u, v : <<s, u, 0>> = <<s, v, 0>> => u = v
    OBVIOUS
  <1>5. CASE Text(x) /\ Text(y)
    <2>1. <<s, x, 0>> = <<s, y, 0>>
      <3>1. TokenAt(s, x) = <<s, x, 0>> /\ TokenAt(s, y) = <<s, y, 0>>
        BY <1>5
      <3> QED  BY <3>1
    <2> QED  BY <1>t, <2>1
  <1>6. CASE Rest(x) /\ Rest(y)
    <2>1. <<s, x - (w - i), 0>> = <<s, y - (w - i), 0>>
      <3>1. TokenAt(s, x) = <<s, x - (w - i), 0>> /\ TokenAt(s, y) = <<s, y - (w - i), 0>>
        BY <1>6
      <3> QED  BY <3>1
    <2>2. x - (w - i) = y - (w - i)
      <3> HIDE <1>2
      <3> QED  BY <1>t, <2>1
    <2> QED  BY <1>1, <2>2
  <1>7. CASE Photo(x) /\ Photo(y)
    <2>1. PICK q \in 0 .. i - 1, r \in 0 .. t - 1 :
               x = b + (q * t + r) /\ TokenAt(s, x) = <<s, b + q, r + 1>>
      BY <1>7
    <2>2. PICK u \in 0 .. i - 1, v \in 0 .. t - 1 :
               y = b + (u * t + v) /\ TokenAt(s, y) = <<s, b + u, v + 1>>
      BY <1>7
    <2>3. b + q = b + u /\ r + 1 = v + 1
      BY <2>1, <2>2
    <2>4. q = u /\ r = v
      BY <1>1, <2>3
    <2> QED  BY <2>1, <2>2, <2>4
  <1>8. ASSUME NEW p \in Nat, NEW q \in Nat, Photo(p), Text(q) \/ Rest(q)
        PROVE  TokenAt(s, p) # TokenAt(s, q)
    <2>1. PICK u \in 0 .. i - 1, r \in 0 .. t - 1 :
               p = b + (u * t + r) /\ TokenAt(s, p) = <<s, b + u, r + 1>>
      BY <1>8
    <2>2. PICK v : TokenAt(s, q) = <<s, v, 0>>
      <3>1. TokenAt(s, q) = <<s, q, 0>> \/ TokenAt(s, q) = <<s, q - (w - i), 0>>
        BY <1>8
      <3> QED  BY <3>1
    <2>3. r + 1 # 0
      BY <1>1
    <2> QED  BY <2>1, <2>2, <2>3
  <1>9. ASSUME NEW p \in Nat, NEW q \in Nat, Text(p), Rest(q)
        PROVE  TokenAt(s, p) # TokenAt(s, q)
    <2>1. TokenAt(s, p) = <<s, p, 0>> /\ TokenAt(s, q) = <<s, q - d, 0>> /\ p < b /\ q >= b + w
      BY <1>4, <1>9
    <2>2. p # q - d
      BY <1>4, <2>1
    <2> QED  BY <2>1, <2>2
  <1> HIDE DEF Text, Photo, Rest
  <1> QED  BY <1>3, <1>5, <1>6, <1>7, <1>8, <1>9

LEMMA TokensOwner ==
  ASSUME NEW s, NEW x
  PROVE  TokenAt(s, x)[1] = s
  BY DEF TokenAt

-----------------------------------------------------------------------------
(* The rows of a prompt.                                                   *)

LEMMA ExtraIsNatural ==
  ASSUME JobOK
  PROVE  ImageExtra \in Nat
  <1>1. job.imgPerSeq \in Nat /\ TokensPerImage \in Nat \ {0} /\ job.vlm \in BOOLEAN
    BY ForwardAssumption DEF JobOK
  <1>2. PICK i \in Nat, t \in Nat : i = job.imgPerSeq /\ t = TokensPerImage - 1
    <2>1. TokensPerImage - 1 \in Nat
      BY <1>1
    <2> QED  BY <1>1, <2>1
  <1>3. i * t \in Nat
    BY Times
  <1> QED  BY <1>1, <1>2, <1>3 DEF ImageExtra

LEMMA SeqOfFunction ==
  ASSUME NEW V, NEW m \in Nat, NEW f \in [1 .. m -> V]
  PROVE  f \in Seq(V) /\ Len(f) = m
  OBVIOUS

(* Every prompt's ids stand where it begins.                               *)
LaidOut(n, seqs, st) ==
  /\ InputTokens(seqs) \in Seq(SeqIds \X Nat) /\ Len(InputTokens(seqs)) = st[n + 1]
  /\ \A b \in 1 .. n : \A j \in 0 .. PromptLen(seqs[b]) - 1 :
       InputTokens(seqs)[st[b] + j + 1] = <<seqs[b], j>>

LEMMA InputFacts ==
  ASSUME JobOK, NEW n \in Nat \ {0}, NEW seqs \in [1 .. n -> SeqIds],
         NEW st, Starts(st, n, [b \in 1 .. n |-> PromptLen(seqs[b])])
  PROVE  LaidOut(n, seqs, st)
  <1> DEFINE ids == [b \in 1 .. n |-> [j \in 1 .. PromptLen(seqs[b]) |-> <<seqs[b], j - 1>>]]
  <1>1. \A b \in 1 .. n : PromptLen(seqs[b]) \in Nat
    BY TextFacts
  <1>2. ASSUME NEW b \in 1 .. n
        PROVE  ids[b] \in Seq(SeqIds \X Nat) /\ Len(ids[b]) = PromptLen(seqs[b])
    <2>1. ids[b] \in [1 .. PromptLen(seqs[b]) -> SeqIds \X Nat]
      OBVIOUS
    <2> HIDE DEF ids
    <2> QED  BY <1>1, <2>1, SeqOfFunction
  <1>3. InputTokens(seqs) = FlattenSeq(ids)
    <2>1. DOMAIN seqs = 1 .. n
      OBVIOUS
    <2> QED  BY <2>1 DEF InputTokens
  <1>4. \A b \in 1 .. n : \A j \in 1 .. PromptLen(seqs[b]) : ids[b][j] = <<seqs[b], j - 1>>
    OBVIOUS
  <1>5. ids \in [1 .. n -> Seq(SeqIds \X Nat)]
    BY <1>2
  <1> HIDE DEF ids
  <1> DEFINE size == [b \in 1 .. n |-> PromptLen(seqs[b])]
  <1>6. Starts(st, n, size) /\ \A b \in 1 .. n : size[b] = Len(ids[b])
    BY <1>2
  <1>7. /\ FlattenSeq(ids) \in Seq(SeqIds \X Nat) /\ Len(FlattenSeq(ids)) = st[n + 1]
        /\ \A b \in 1 .. n : \A p \in 1 .. Len(ids[b]) : FlattenSeq(ids)[st[b] + p] = ids[b][p]
    <2>1. PICK V, q, z : V = SeqIds \X Nat /\ q = ids /\ z = size
      OBVIOUS
    <2> HIDE DEF size
    <2>2. q \in [1 .. n -> Seq(V)] /\ Starts(st, n, z) /\ \A b \in 1 .. n : z[b] = Len(q[b])
      BY <1>5, <1>6, <2>1
    <2>3. Flattened(V, n, q, st)
      BY <2>2, FlattenFacts, Zenon
    <2> QED  BY <2>1, <2>3 DEF Flattened
  <1>8. ASSUME NEW b \in 1 .. n, NEW j \in 0 .. PromptLen(seqs[b]) - 1
        PROVE  FlattenSeq(ids)[st[b] + j + 1] = <<seqs[b], j>>
    <2>1. j + 1 \in 1 .. PromptLen(seqs[b]) /\ (j + 1) - 1 = j
      BY <1>1
    <2>2. st[b] \in Nat /\ j \in Nat
      BY <1>1 DEF Starts
    <2>3. st[b] + j + 1 = st[b] + (j + 1)
      BY <2>2
    <2>4. FlattenSeq(ids)[st[b] + (j + 1)] = ids[b][j + 1]
      BY <1>2, <1>7, <2>1
    <2> QED  BY <1>4, <2>1, <2>3, <2>4
  <1> QED  BY <1>3, <1>7, <1>8 DEF LaidOut

(* Every prompt's images make it longer by as much.                        *)
LEMMA RowStarts ==
  ASSUME JobOK, NEW n \in Nat, NEW seqs \in [1 .. n -> SeqIds],
         NEW st, Starts(st, n, [b \in 1 .. n |-> PromptLen(seqs[b])]),
         NEW cu, Starts(cu, n, [b \in 1 .. n |-> PromptLen(seqs[b]) + ImageExtra])
  PROVE  \A b \in 1 .. n + 1 : cu[b] = st[b] + (b - 1) * ImageExtra
  <1>1. PICK e \in Nat : e = ImageExtra
    BY ExtraIsNatural
  <1> DEFINE S == {k \in Nat : k <= n => cu[k + 1] = st[k + 1] + k * e}
  <1>2. 0 \in S
    <2>1. cu[1] = 0 /\ st[1] = 0 /\ 0 * e = 0
      BY DEF Starts
    <2> QED  BY <2>1
  <1>3. \A k \in S : k + 1 \in S
    <2> SUFFICES ASSUME NEW k \in S, k + 1 <= n
                 PROVE  cu[(k + 1) + 1] = st[(k + 1) + 1] + (k + 1) * e
      OBVIOUS
    <2>1. k + 1 \in 1 .. n /\ k + 1 \in 1 .. n + 1 /\ (k + 1) + 1 \in 1 .. n + 1
      OBVIOUS
    <2>2. PICK p \in Nat : p = PromptLen(seqs[k + 1])
      BY <2>1, TextFacts
    <2>3. /\ cu[(k + 1) + 1] = cu[k + 1] + (p + e) /\ st[(k + 1) + 1] = st[k + 1] + p
          /\ cu[k + 1] \in Nat /\ st[k + 1] \in Nat
      BY <1>1, <2>1, <2>2 DEF Starts
    <2>4. cu[k + 1] = st[k + 1] + k * e /\ k \in Nat
      OBVIOUS
    <2>5. PICK m \in Nat : m = k * e /\ (k + 1) * e = m + e
      BY Times
    <2> QED  BY <2>3, <2>4, <2>5
  <1> HIDE DEF S
  <1>4. S = Nat
    <2>1. S \in SUBSET Nat
      BY DEF S
    <2> QED  BY <1>2, <1>3, <2>1, Induction
  <1>5. ASSUME NEW b \in 1 .. n + 1
        PROVE  cu[b] = st[b] + (b - 1) * e
    <2>1. b - 1 \in S /\ b - 1 <= n /\ (b - 1) + 1 = b
      BY <1>4
    <2> QED  BY <2>1 DEF S
  <1> QED  BY <1>1, <1>5

LEMMA PromptRowsFacts ==
  ASSUME JobOK, NEW n \in Nat \ {0}, NEW seqs \in [1 .. n -> SeqIds],
         NEW lens, lens = [b \in 1 .. n |-> PromptLen(seqs[b]) + ImageExtra]
  PROVE  Starts(CuSeqlens(lens), n, lens) /\ PromptRows(seqs) = CuSeqlens(lens)[n + 1]
  <1> DEFINE ps == [b \in 1 .. n |-> PromptLen(seqs[b])]
  <1>1. ps \in [1 .. n -> Nat] /\ lens \in [1 .. n -> Nat]
    <2>1. \A b \in 1 .. n : PromptLen(seqs[b]) \in Nat
      BY TextFacts
    <2>2. PICK e \in Nat : e = ImageExtra
      BY ExtraIsNatural
    <2> QED  BY <2>1, <2>2
  <1>2. Starts(CuSeqlens(ps), n, ps) /\ Starts(CuSeqlens(lens), n, lens)
    <2> HIDE DEF ps
    <2> QED  BY <1>1, CuSeqlensFacts
  <1>3. Len(InputTokens(seqs)) = CuSeqlens(ps)[n + 1]
    BY <1>2, InputFacts DEF LaidOut
  <1>4. n + 1 \in 1 .. n + 1 /\ (n + 1) - 1 = n /\ Len(seqs) = n
    OBVIOUS
  <1>5. CuSeqlens(lens)[n + 1] = CuSeqlens(ps)[n + 1] + n * ImageExtra
    <2>1. \A b \in 1 .. n + 1 : CuSeqlens(lens)[b] = CuSeqlens(ps)[b] + (b - 1) * ImageExtra
      BY <1>2, RowStarts
    <2> HIDE DEF ps
    <2> QED  BY <1>4, <2>1
  <1> QED  BY <1>2, <1>3, <1>4, <1>5 DEF PromptRows

-----------------------------------------------------------------------------
(* The batch of a pass.                                                    *)

NB        == Len(batch.seqs)
BatchSeqs == {batch.seqs[b] : b \in 1 .. NB}

(* The pass a batch is for.                                                *)
PassOK ==
  /\ batch.prompt \in BOOLEAN
  /\ NB \in Nat \ {0} /\ batch.seqs \in [1 .. NB -> SeqIds] /\ IsInjective(batch.seqs)
  /\ batch.context = [b \in 1 .. NB |-> ContextLen(batch.seqs[b])]
  /\ batch.maxSeqLen = MaxIn(batch.context)
  /\ \A b \in 1 .. NB : IF batch.prompt THEN done[batch.seqs[b]] = 0
                        ELSE done[batch.seqs[b]] \in 1 .. MaxGenerated - 1
  /\ batch.cuSeqlens = IF batch.prompt THEN CuSeqlens(batch.context) ELSE <<0>>
  /\ batch.rows = IF batch.prompt THEN batch.cuSeqlens[NB + 1] ELSE NB

(* The pass, and every request that has been run, had its images.          *)
Started == pc \notin {"idle", "raised"}

LEMMA PassFacts ==
  ASSUME JobOK, PassOK, done \in [SeqIds -> 0 .. MaxGenerated]
  PROVE  /\ NB \in Nat \ {0} /\ batch.seqs \in [1 .. NB -> SeqIds] /\ DOMAIN batch.seqs = 1 .. NB
         /\ \A b \in 1 .. NB : batch.seqs[b] \in SeqIds
         /\ \A b, c \in 1 .. NB : batch.seqs[b] = batch.seqs[c] => b = c
         /\ batch.context \in [1 .. NB -> Nat]
         /\ \A b \in 1 .. NB : /\ batch.context[b] = ContextLen(batch.seqs[b])
                               /\ batch.context[b] \in Nat \ {0}
         /\ batch.maxSeqLen \in Nat \ {0} /\ \A b \in 1 .. NB : batch.context[b] <= batch.maxSeqLen
  <1>1. NB \in Nat \ {0} /\ batch.seqs \in [1 .. NB -> SeqIds] /\ DOMAIN batch.seqs = 1 .. NB
    BY DEF PassOK
  <1>2. \A b \in 1 .. NB : batch.seqs[b] \in SeqIds
    BY <1>1
  <1>3. \A b, c \in 1 .. NB : batch.seqs[b] = batch.seqs[c] => b = c
    BY <1>1 DEF PassOK, IsInjective
  <1>4. ASSUME NEW s \in SeqIds
        PROVE  ContextLen(s) \in Nat \ {0}
    <2>1. PromptLen(s) \in Nat \ {0} /\ ImageExtra \in Nat
      BY TextFacts, ExtraIsNatural
    <2>2. done[s] \in Nat
      BY ForwardAssumption
    <2> QED  BY <2>1, <2>2 DEF ContextLen
  <1>5. /\ batch.context \in [1 .. NB -> Nat]
        /\ \A b \in 1 .. NB : /\ batch.context[b] = ContextLen(batch.seqs[b])
                              /\ batch.context[b] \in Nat \ {0}
    <2>1. batch.context = [b \in 1 .. NB |-> ContextLen(batch.seqs[b])]
      BY DEF PassOK
    <2> QED  BY <1>2, <1>4, <2>1
  <1>6. batch.maxSeqLen \in Nat /\ \A b \in 1 .. NB : batch.context[b] <= batch.maxSeqLen
    <2>1. batch.maxSeqLen = MaxIn(batch.context)
      BY DEF PassOK
    <2> QED  BY <1>1, <1>5, <2>1, MaxInFacts
  <1>7. batch.maxSeqLen # 0
    <2>1. 1 \in 1 .. NB
      BY <1>1
    <2> QED  BY <1>5, <1>6, <2>1
  <1> QED  BY <1>1, <1>2, <1>3, <1>5, <1>6, <1>7

(* Where each prompt begins among the input ids, and among the rows.       *)
InputStart == CuSeqlens([b \in 1 .. NB |-> PromptLen(batch.seqs[b])])

LEMMA PromptFacts ==
  ASSUME JobOK, PassOK, done \in [SeqIds -> 0 .. MaxGenerated], batch.prompt
  PROVE  /\ \A b \in 1 .. NB : /\ PromptLen(batch.seqs[b]) \in Nat \ {0}
                               /\ batch.context[b] = PromptLen(batch.seqs[b]) + ImageExtra
         /\ Starts(InputStart, NB, [b \in 1 .. NB |-> PromptLen(batch.seqs[b])])
         /\ InputIds \in Seq(SeqIds \X Nat) /\ Len(InputIds) = InputStart[NB + 1]
         /\ \A b \in 1 .. NB : \A j \in 0 .. PromptLen(batch.seqs[b]) - 1 :
              InputIds[InputStart[b] + j + 1] = <<batch.seqs[b], j>>
         /\ Starts(batch.cuSeqlens, NB, batch.context) /\ batch.rows = batch.cuSeqlens[NB + 1]
  <1>1. /\ NB \in Nat \ {0} /\ batch.seqs \in [1 .. NB -> SeqIds]
        /\ batch.context \in [1 .. NB -> Nat]
        /\ \A b \in 1 .. NB : batch.seqs[b] \in SeqIds /\ batch.context[b] = ContextLen(batch.seqs[b])
    BY PassFacts
  <1>2. ASSUME NEW b \in 1 .. NB
        PROVE  /\ PromptLen(batch.seqs[b]) \in Nat \ {0}
               /\ batch.context[b] = PromptLen(batch.seqs[b]) + ImageExtra
    <2>1. PromptLen(batch.seqs[b]) \in Nat \ {0} /\ ImageExtra \in Nat
      BY <1>1, TextFacts, ExtraIsNatural
    <2>2. done[batch.seqs[b]] = 0
      BY DEF PassOK
    <2> QED  BY <1>1, <2>1, <2>2 DEF ContextLen
  <1> DEFINE ps == [b \in 1 .. NB |-> PromptLen(batch.seqs[b])]
  <1>3. Starts(InputStart, NB, ps)
    <2>1. ps \in [1 .. NB -> Nat]
      BY <1>2
    <2>2. InputStart = CuSeqlens(ps)
      BY DEF InputStart
    <2> HIDE DEF ps
    <2> QED  BY <1>1, <2>1, <2>2, CuSeqlensFacts
  <1>4. /\ InputIds \in Seq(SeqIds \X Nat) /\ Len(InputIds) = InputStart[NB + 1]
        /\ \A b \in 1 .. NB : \A j \in 0 .. PromptLen(batch.seqs[b]) - 1 :
             InputIds[InputStart[b] + j + 1] = <<batch.seqs[b], j>>
    <2>1. LaidOut(NB, batch.seqs, InputStart)
      BY <1>1, <1>3, InputFacts, Zenon
    <2> QED  BY <2>1 DEF InputIds, LaidOut
  <1>5. Starts(batch.cuSeqlens, NB, batch.context)
    <2>1. batch.cuSeqlens = CuSeqlens(batch.context)
      BY DEF PassOK
    <2> QED  BY <1>1, <2>1, CuSeqlensFacts
  <1>6. batch.rows = batch.cuSeqlens[NB + 1]
    BY DEF PassOK
  <1> QED  BY <1>2, <1>3, <1>4, <1>5, <1>6

-----------------------------------------------------------------------------
(* The number of the image a placeholder stands for.                       *)

LEMMA Counted ==
  ASSUME NEW P, NEW n \in Nat
  PROVE  /\ Cardinality({i \in 1 .. n : i \in P}) \in Nat
         /\ Cardinality({i \in 1 .. n + 1 : i \in P})
              = Cardinality({i \in 1 .. n : i \in P}) + (IF n + 1 \in P THEN 1 ELSE 0)
  <1> DEFINE T == {i \in 1 .. n : i \in P}
  <1>1. IsFiniteSet(1 .. n)
    BY FS_Interval
  <1>2. IsFiniteSet(T) /\ Cardinality(T) \in Nat
    <2>1. T \subseteq 1 .. n
      OBVIOUS
    <2> QED  BY <1>1, <2>1, FS_Subset, FS_CardinalityType
  <1>3. CASE n + 1 \in P
    <2>1. {i \in 1 .. n + 1 : i \in P} = T \cup {n + 1} /\ n + 1 \notin T
      BY <1>3
    <2> QED  BY <1>2, <1>3, <2>1, FS_AddElement
  <1>4. CASE n + 1 \notin P
    <2>1. {i \in 1 .. n + 1 : i \in P} = T
      BY <1>4
    <2> QED  BY <1>2, <1>4, <2>1
  <1> QED  BY <1>2, <1>3, <1>4

LEMMA NextNumber ==
  ASSUME NEW n \in Nat
  PROVE  /\ ImageNumber(0) = 0 /\ ImageNumber(n) \in Nat
         /\ ImageNumber(n + 1)
              = ImageNumber(n) + (IF IsImage(InputIds[n + 1][1], InputIds[n + 1][2]) THEN 1 ELSE 0)
  <1> DEFINE P == {i \in Nat : IsImage(InputIds[i][1], InputIds[i][2])}
  <1>1. \A m \in Nat : ImageNumber(m) = Cardinality({i \in 1 .. m : i \in P})
    <2> SUFFICES ASSUME NEW m \in Nat PROVE ImageNumber(m) = Cardinality({i \in 1 .. m : i \in P})
      OBVIOUS
    <2>1. {i \in 1 .. m : IsImage(InputIds[i][1], InputIds[i][2])} = {i \in 1 .. m : i \in P}
      OBVIOUS
    <2> QED  BY <2>1 DEF ImageNumber
  <1>2. n + 1 \in P <=> IsImage(InputIds[n + 1][1], InputIds[n + 1][2])
    OBVIOUS
  <1>3. {i \in 1 .. 0 : i \in P} = {}
    OBVIOUS
  <1> HIDE DEF P
  <1>4. ImageNumber(0) = 0
    BY <1>1, <1>3, FS_EmptySet
  <1>5. n + 1 \in Nat
    OBVIOUS
  <1>6. /\ Cardinality({i \in 1 .. n : i \in P}) \in Nat
        /\ Cardinality({i \in 1 .. n + 1 : i \in P})
             = Cardinality({i \in 1 .. n : i \in P}) + (IF n + 1 \in P THEN 1 ELSE 0)
    BY Counted
  <1>7. ImageNumber(n) \in Nat /\ ImageNumber(n + 1) = ImageNumber(n) + (IF n + 1 \in P THEN 1 ELSE 0)
    BY <1>1, <1>5, <1>6
  <1> QED  BY <1>2, <1>4, <1>7

(* Images among the first j input ids of a sequence.                       *)
Seen(s, j) ==
  IF j <= Before(s) THEN 0 ELSE IF j <= Before(s) + job.images THEN j - Before(s) ELSE job.images

LEMMA SeenFacts ==
  ASSUME JobOK, NEW s \in SeqIds
  PROVE  /\ Seen(s, 0) = 0 /\ Seen(s, PromptLen(s)) = job.images
         /\ \A j \in 0 .. PromptLen(s) - 1 :
              /\ Seen(s, j) \in Nat /\ Seen(s, j + 1) = Seen(s, j) + (IF IsImage(s, j) THEN 1 ELSE 0)
              /\ IsImage(s, j) => /\ j - Before(s) \in 0 .. job.images - 1 /\ job.images \in Nat \ {0}
                                  /\ Seen(s, j + 1) = (j - Before(s)) + 1
                                  /\ j = Before(s) + (j - Before(s))
  <1>1. PICK b \in Nat, a \in Nat, i \in Nat :
             b = Before(s) /\ a = After(s) /\ i = job.images /\ PromptLen(s) = b + i + a
    BY TextFacts
  <1>2. \A j : Seen(s, j) = IF j <= b THEN 0 ELSE IF j <= b + i THEN j - b ELSE i
    BY <1>1 DEF Seen
  <1>3. \A j : IsImage(s, j) <=> j \in b .. b + i - 1
    BY <1>1 DEF IsImage, Before
  <1>4. Seen(s, 0) = 0 /\ Seen(s, PromptLen(s)) = i
    BY <1>1, <1>2
  <1>5. ASSUME NEW j \in 0 .. PromptLen(s) - 1
        PROVE  /\ Seen(s, j) \in Nat /\ Seen(s, j + 1) = Seen(s, j) + (IF IsImage(s, j) THEN 1 ELSE 0)
               /\ IsImage(s, j) => /\ j - b \in 0 .. i - 1 /\ i \in Nat \ {0}
                                   /\ Seen(s, j + 1) = (j - b) + 1
                                   /\ j = b + (j - b)
    BY <1>1, <1>2, <1>3
  <1> QED  BY <1>1, <1>4, <1>5

LEMMA NumberOf ==
  ASSUME JobOK, PassOK, done \in [SeqIds -> 0 .. MaxGenerated], batch.prompt,
         NEW b \in 1 .. NB, NEW j \in 0 .. PromptLen(batch.seqs[b])
  PROVE  ImageNumber(InputStart[b] + j) = (b - 1) * job.images + Seen(batch.seqs[b], j)
  <1>0. /\ NB \in Nat \ {0} /\ \A c \in 1 .. NB : batch.seqs[c] \in SeqIds
        /\ \A c \in 1 .. NB : PromptLen(batch.seqs[c]) \in Nat \ {0}
        /\ \A c \in 1 .. NB : \A k \in 0 .. PromptLen(batch.seqs[c]) - 1 :
             InputIds[InputStart[c] + k + 1] = <<batch.seqs[c], k>>
    BY PassFacts, PromptFacts
  <1>1. /\ InputStart[1] = 0 /\ \A c \in 1 .. NB + 1 : InputStart[c] \in Nat
        /\ \A c \in 1 .. NB : InputStart[c + 1] = InputStart[c] + PromptLen(batch.seqs[c])
    BY PromptFacts DEF Starts
  <1>2. job.images \in Nat
    BY ForwardAssumption DEF JobOK
  <1>3. ASSUME NEW c \in 1 .. NB, NEW m \in 0 .. PromptLen(batch.seqs[c])
        PROVE  ImageNumber(InputStart[c] + m) = ImageNumber(InputStart[c]) + Seen(batch.seqs[c], m)
    <2> DEFINE s == batch.seqs[c]
               S == {k \in Nat : k <= PromptLen(s) =>
                       ImageNumber(InputStart[c] + k) = ImageNumber(InputStart[c]) + Seen(s, k)}
    <2>0. s \in SeqIds /\ PromptLen(s) \in Nat /\ InputStart[c] \in Nat
      BY <1>0, <1>1
    <2>1. 0 \in S
      <3>1. InputStart[c] + 0 = InputStart[c] /\ Seen(s, 0) = 0 /\ ImageNumber(InputStart[c]) \in Nat
        BY <2>0, SeenFacts, NextNumber
      <3> QED  BY <3>1
    <2>2. \A k \in S : k + 1 \in S
      <3> SUFFICES ASSUME NEW k \in S, k + 1 <= PromptLen(s)
                   PROVE  ImageNumber(InputStart[c] + (k + 1))
                            = ImageNumber(InputStart[c]) + Seen(s, k + 1)
        OBVIOUS
      <3>1. k \in 0 .. PromptLen(s) - 1
        BY <2>0
      <3>2. ImageNumber(InputStart[c] + k) = ImageNumber(InputStart[c]) + Seen(s, k)
        BY <2>0
      <3> HIDE DEF S
      <3>3. PICK n \in Nat : n = InputStart[c] + k
        BY <2>0, <3>1
      <3>4. n + 1 = InputStart[c] + (k + 1) /\ n + 1 = InputStart[c] + k + 1
        BY <2>0, <3>1, <3>3
      <3>5. InputIds[n + 1] = <<s, k>>
        BY <1>0, <3>1, <3>4
      <3>6. ImageNumber(n + 1) = ImageNumber(n) + (IF IsImage(s, k) THEN 1 ELSE 0)
        BY <3>5, NextNumber
      <3>7. Seen(s, k + 1) = Seen(s, k) + (IF IsImage(s, k) THEN 1 ELSE 0) /\ Seen(s, k) \in Nat
        BY <2>0, <3>1, SeenFacts
      <3>8. ImageNumber(InputStart[c]) \in Nat
        BY <2>0, NextNumber
      <3> QED  BY <3>2, <3>3, <3>4, <3>6, <3>7, <3>8
    <2> HIDE DEF S
    <2>3. S = Nat
      <3>1. S \in SUBSET Nat
        BY DEF S
      <3> QED  BY <2>1, <2>2, <3>1, Induction
    <2>4. m \in S /\ m <= PromptLen(s)
      BY <2>0, <2>3
    <2> QED  BY <2>4 DEF S
  <1>4. \A c \in 1 .. NB : ImageNumber(InputStart[c]) = (c - 1) * job.images
    <2> DEFINE S == {k \in Nat : k < NB => ImageNumber(InputStart[k + 1]) = k * job.images}
    <2>1. 0 \in S
      <3>1. 0 * job.images = 0
        BY <1>2
      <3> QED  BY <1>1, <3>1, NextNumber
    <2>2. \A k \in S : k + 1 \in S
      <3> SUFFICES ASSUME NEW k \in S, k + 1 < NB
                   PROVE  ImageNumber(InputStart[(k + 1) + 1]) = (k + 1) * job.images
        OBVIOUS
      <3>1. k + 1 \in 1 .. NB /\ k \in Nat
        BY <1>0
      <3>2. ImageNumber(InputStart[k + 1]) = k * job.images
        BY <1>0
      <3>3. InputStart[(k + 1) + 1] = InputStart[k + 1] + PromptLen(batch.seqs[k + 1])
        BY <1>1, <3>1
      <3>4. /\ PromptLen(batch.seqs[k + 1]) \in 0 .. PromptLen(batch.seqs[k + 1])
            /\ Seen(batch.seqs[k + 1], PromptLen(batch.seqs[k + 1])) = job.images
        BY <1>0, <3>1, SeenFacts
      <3>5. ImageNumber(InputStart[(k + 1) + 1]) = k * job.images + job.images
        BY <1>3, <3>1, <3>2, <3>3, <3>4
      <3> QED  BY <1>2, <3>1, <3>5, Times
    <2> HIDE DEF S
    <2>3. S = Nat
      <3>1. S \in SUBSET Nat
        BY DEF S
      <3> QED  BY <2>1, <2>2, <3>1, Induction
    <2> SUFFICES ASSUME NEW c \in 1 .. NB PROVE ImageNumber(InputStart[c]) = (c - 1) * job.images
      OBVIOUS
    <2>4. c - 1 \in S /\ c - 1 < NB /\ (c - 1) + 1 = c
      BY <1>0, <2>3
    <2> QED  BY <2>4 DEF S
  <1> QED  BY <1>3, <1>4

(* A placeholder gives way to its own image.                               *)
LEMMA ImageOf ==
  ASSUME JobOK, PassOK, done \in [SeqIds -> 0 .. MaxGenerated], batch.prompt,
         NEW b \in 1 .. NB, NEW j \in 0 .. PromptLen(batch.seqs[b]) - 1, IsImage(batch.seqs[b], j)
  PROVE  Image(ImageNumber(InputStart[b] + j + 1)) = <<batch.seqs[b], j>>
  <1> DEFINE s == batch.seqs[b]
  <1>1. NB \in Nat /\ s \in SeqIds /\ PromptLen(s) \in Nat /\ InputStart[b] \in Nat
    <2>1. NB \in Nat /\ s \in SeqIds /\ PromptLen(s) \in Nat
      BY PassFacts, PromptFacts
    <2>2. InputStart \in [1 .. NB + 1 -> Nat] 
      BY PromptFacts DEF Starts
    <2>3. b \in 1 .. NB + 1
      BY <2>1
    <2> QED  BY <2>1, <2>2, <2>3
  <1>2. /\ j - Before(s) \in 0 .. job.images - 1 /\ job.images \in Nat \ {0}
        /\ Seen(s, j + 1) = (j - Before(s)) + 1 /\ j = Before(s) + (j - Before(s))
    BY <1>1, SeenFacts
  <1>3. PICK k \in 0 .. job.images - 1, c \in Nat : k = j - Before(s) /\ c = b - 1
    BY <1>2
  <1>4. PICK m \in Nat : m = c * job.images
    BY <1>2, Times
  <1>5. ImageNumber(InputStart[b] + j + 1) = m + (k + 1)
    <2>1. j + 1 \in 0 .. PromptLen(s) /\ InputStart[b] + (j + 1) = InputStart[b] + j + 1
      BY <1>1
    <2>2. ImageNumber(InputStart[b] + (j + 1)) = (b - 1) * job.images + Seen(s, j + 1)
      BY <2>1, NumberOf
    <2> QED  BY <1>2, <1>3, <1>4, <2>1, <2>2
  <1>6. (m + (k + 1)) - 1 = c * job.images + k
    BY <1>2, <1>4
  <1>7. (c * job.images + k) \div job.images = c /\ (c * job.images + k) % job.images = k
    BY <1>2, <1>3, DivOf
  <1>8. 1 + c = b
    BY <1>3
  <1> HIDE DEF s
  <1>9. Image(m + (k + 1)) = <<batch.seqs[b], job.prompt[batch.seqs[b]].before + k>>
    BY <1>6, <1>7, <1>8 DEF Image
  <1>10. job.prompt[s].before + k = j
    BY <1>2, <1>3 DEF Before
  <1> QED  BY <1>5, <1>9, <1>10 DEF s

-----------------------------------------------------------------------------
(* The embeddings: the rows of a prompt are the positions of its           *)
(* sequences, whatever texts and images they are made of.                  *)

LEMMA Appended ==
  ASSUME NEW a, NEW b, NEW c
  PROVE  <<a, b>> \o <<c>> = <<a, b, c>>
  <1> DEFINE V == {a, b, c}
  <1>1. <<a, b>> \in Seq(V) /\ <<c>> \in Seq(V) /\ Len(<<a, b>>) = 2 /\ Len(<<c>>) = 1
    OBVIOUS
  <1>2. PICK s, t : s = <<a, b>> /\ t = <<c>> /\ s \in Seq(V) /\ t \in Seq(V) /\ Len(s) = 2 /\ Len(t) = 1
    BY <1>1
  <1>3. PICK u : u = s \o t
    OBVIOUS
  <1> HIDE DEF V
  <1>4. /\ u \in Seq(V) /\ Len(u) = 3 /\ \A i \in 1 .. 2 : u[i] = s[i]
        /\ \A i \in 1 .. 1 : u[2 + i] = t[i]
    BY <1>2, <1>3, ConcatFacts
  <1>5. u[1] = a /\ u[2] = b /\ u[3] = c
    <2>1. s[1] = a /\ s[2] = b /\ t[1] = c
      BY <1>2
    <2>2. u[2 + 1] = t[1] /\ 2 + 1 = 3
      BY <1>4
    <2> QED  BY <1>4, <2>1, <2>2
  <1>6. u = <<a, b, c>>
    BY <1>4, <1>5
  <1> QED  BY <1>2, <1>3, <1>6

Tokens == {TokenAt(s, x) : s \in SeqIds, x \in Nat}

LEMMA RowsLaidOut ==
  ASSUME JobOK, PassOK, done \in [SeqIds -> 0 .. MaxGenerated], batch.prompt
  PROVE  /\ RowTokens \in Seq(Tokens) /\ Len(RowTokens) = batch.rows
         /\ \A b \in 1 .. NB : \A p \in 0 .. batch.context[b] - 1 :
              RowTokens[batch.cuSeqlens[b] + p + 1] = TokenAt(batch.seqs[b], p)
  <1> DEFINE rows == [b \in 1 .. NB |-> [p \in 1 .. ContextLen(batch.seqs[b]) |->
                                           TokenAt(batch.seqs[b], p - 1)]]
  <1>1. /\ NB \in Nat \ {0} /\ DOMAIN batch.seqs = 1 .. NB
        /\ \A b \in 1 .. NB : batch.seqs[b] \in SeqIds /\ batch.context[b] = ContextLen(batch.seqs[b])
        /\ \A b \in 1 .. NB : batch.context[b] \in Nat
    BY PassFacts
  <1>2. ASSUME NEW b \in 1 .. NB
        PROVE  rows[b] \in Seq(Tokens) /\ Len(rows[b]) = batch.context[b]
    <2>1. PICK m \in Nat : m = batch.context[b] /\ m = ContextLen(batch.seqs[b])
      BY <1>1
    <2>2. \A p \in 1 .. m : TokenAt(batch.seqs[b], p - 1) \in Tokens
      <3> SUFFICES ASSUME NEW p \in 1 .. m PROVE TokenAt(batch.seqs[b], p - 1) \in Tokens
        OBVIOUS
      <3>1. p - 1 \in Nat /\ batch.seqs[b] \in SeqIds
        BY <1>1
      <3> QED  BY <3>1 DEF Tokens
    <2>3. rows[b] = [p \in 1 .. m |-> TokenAt(batch.seqs[b], p - 1)]
      BY <2>1
    <2>4. rows[b] \in [1 .. m -> Tokens]
      BY <2>2, <2>3
    <2> HIDE DEF rows
    <2> QED  BY <2>1, <2>4, SeqOfFunction
  <1>3. \A b \in 1 .. NB : \A p \in 1 .. batch.context[b] : rows[b][p] = TokenAt(batch.seqs[b], p - 1)
    BY <1>1
  <1>4. RowTokens = FlattenSeq(rows)
    BY <1>1 DEF RowTokens
  <1>5. rows \in [1 .. NB -> Seq(Tokens)]
    BY <1>2
  <1> HIDE DEF rows
  <1>6. Starts(batch.cuSeqlens, NB, batch.context) /\ batch.rows = batch.cuSeqlens[NB + 1]
    BY PromptFacts
  <1>7. Flattened(Tokens, NB, rows, batch.cuSeqlens)
    <2>1. \A b \in 1 .. NB : batch.context[b] = Len(rows[b])
      BY <1>2
    <2> QED  BY <1>1, <1>5, <1>6, <2>1, FlattenFacts, Zenon
  <1>8. ASSUME NEW b \in 1 .. NB, NEW p \in 0 .. batch.context[b] - 1
        PROVE  RowTokens[batch.cuSeqlens[b] + p + 1] = TokenAt(batch.seqs[b], p)
    <2>1. batch.cuSeqlens \in [1 .. NB + 1 -> Nat]
      BY <1>6 DEF Starts
    <2>2. b \in 1 .. NB + 1
      BY <1>1
    <2>3. PICK c \in Nat, m \in Nat : c = batch.cuSeqlens[b] /\ m = batch.context[b]
      BY <1>1, <2>1, <2>2
    <2>4. p + 1 \in 1 .. m /\ c + p + 1 = c + (p + 1) /\ (p + 1) - 1 = p
      BY <2>3
    <2>5. FlattenSeq(rows)[c + (p + 1)] = rows[b][p + 1]
      BY <1>2, <1>7, <2>3, <2>4 DEF Flattened
    <2> QED  BY <1>3, <1>4, <2>3, <2>4, <2>5
  <1> QED  BY <1>4, <1>6, <1>7, <1>8 DEF Flattened

LEMMA SpliceIsRows ==
  ASSUME JobOK, PassOK, done \in [SeqIds -> 0 .. MaxGenerated], batch.prompt, AllImages
  PROVE  Splice = RowTokens
  <1> DEFINE st     == InputStart
             cu     == batch.cuSeqlens
             seq(b) == batch.seqs[b]
             N      == Len(InputIds)
             Of(i)  == CHOOSE b \in 1 .. NB : st[b] <= i - 1 /\ i - 1 < st[b + 1]
             At(i)  == (i - 1) - st[Of(i)]
             place  == [i \in 1 .. N + 1 |-> IF i = N + 1 THEN cu[NB + 1]
                                            ELSE cu[Of(i)] + Begins(seq(Of(i)), At(i))]
             size   == [i \in 1 .. N |-> Width(seq(Of(i)), At(i))]
             ids(i) == InputIds[i]
             parts  == [i \in 1 .. N |->
                          IF IsImage(InputIds[i][1], InputIds[i][2])
                          THEN [k \in 1 .. TokensPerImage |-> Image(ImageNumber(i)) \o <<k>>]
                          ELSE <<InputIds[i] \o <<0>>>>]
  <1> HIDE DEF Of, At, place, size, parts
  <1>1. /\ NB \in Nat \ {0} /\ \A b \in 1 .. NB : seq(b) \in SeqIds
        /\ \A b \in 1 .. NB : /\ PromptLen(seq(b)) \in Nat \ {0} /\ batch.context[b] \in Nat
                              /\ batch.context[b] = PromptLen(seq(b)) + ImageExtra
    BY PassFacts, PromptFacts
  <1>2. /\ Starts(st, NB, [b \in 1 .. NB |-> PromptLen(seq(b))]) /\ N = st[NB + 1]
        /\ \A b \in 1 .. NB : \A j \in 0 .. PromptLen(seq(b)) - 1 : InputIds[st[b] + j + 1] = <<seq(b), j>>
        /\ Starts(cu, NB, batch.context) /\ batch.rows = cu[NB + 1] /\ InputIds \in Seq(SeqIds \X Nat)
    BY PromptFacts
  <1>3. /\ st \in [1 .. NB + 1 -> Nat] /\ st[1] = 0
        /\ \A b \in 1 .. NB : st[b + 1] = st[b] + PromptLen(seq(b))
        /\ cu \in [1 .. NB + 1 -> Nat] /\ cu[1] = 0
        /\ \A b \in 1 .. NB : cu[b + 1] = cu[b] + batch.context[b]
    BY <1>2 DEF Starts
  <1>4. \A b \in 1 .. NB : /\ b \in 1 .. NB + 1 /\ b + 1 \in 1 .. NB + 1
                           /\ st[b] \in Nat /\ st[b + 1] \in Nat /\ cu[b] \in Nat /\ cu[b + 1] \in Nat
    <2>1. \A b \in 1 .. NB : b \in 1 .. NB + 1 /\ b + 1 \in 1 .. NB + 1
      BY <1>1
    <2> QED  BY <1>3, <2>1
  <1>5. N \in Nat /\ st[NB + 1] = N
    BY <1>2
  \* Every input id is one sequence's, and the one position of it.
  <1>6. ASSUME NEW i \in 1 .. N
        PROVE  \E b \in 1 .. NB : \E j \in 0 .. PromptLen(seq(b)) - 1 : i = st[b] + j + 1
    <2>1. i - 1 \in 0 .. st[NB + 1] - 1 /\ \A b \in 1 .. NB : PromptLen(seq(b)) \in Nat
      BY <1>1, <1>5
    <2>2. PICK b \in 1 .. NB : st[b] <= i - 1 /\ i - 1 < st[b + 1]
      <3> DEFINE ps == [b \in 1 .. NB |-> PromptLen(seq(b))]
      <3>1. \A b \in 1 .. NB : ps[b] \in Nat
        BY <2>1
      <3>2. Starts(st, NB, ps)
        BY <1>2
      <3> HIDE DEF ps
      <3> QED  BY <1>1, <2>1, <3>1, <3>2, Covered
    <2>3. PICK s0 \in Nat, m \in Nat : s0 = st[b] /\ m = PromptLen(seq(b)) /\ st[b + 1] = s0 + m
      BY <1>1, <1>3, <1>4
    <2>4. (i - 1) - s0 \in 0 .. m - 1 /\ i = s0 + ((i - 1) - s0) + 1
      BY <1>5, <2>2, <2>3
    <2> QED  BY <2>3, <2>4
  <1>7. ASSUME NEW b \in 1 .. NB, NEW j \in 0 .. PromptLen(seq(b)) - 1
        PROVE  LET i == st[b] + j + 1
               IN  i \in 1 .. N /\ Of(i) = b /\ At(i) = j
    <2> DEFINE ps == [c \in 1 .. NB |-> PromptLen(seq(c))]
    <2>0. (\A c \in 1 .. NB : ps[c] \in Nat) /\ Starts(st, NB, ps)
      BY <1>1, <1>2
    <2> HIDE DEF ps
    <2>1. PICK i : i = st[b] + j + 1
      OBVIOUS
    <2>2. PICK s0 \in Nat, m \in Nat : s0 = st[b] /\ m = PromptLen(seq(b)) /\ st[b + 1] = s0 + m
      BY <1>1, <1>3, <1>4
    <2>3. i \in Nat /\ i - 1 \in Nat /\ st[b] <= i - 1 /\ i - 1 < st[b + 1] /\ (i - 1) - st[b] = j
      BY <2>1, <2>2
    <2>4. st[b + 1] <= st[NB + 1]
      <3>1. b + 1 \in 1 .. NB + 1 /\ NB + 1 \in (b + 1) .. NB + 1 /\ NB \in Nat
        BY <1>1
      <3> QED  BY <2>0, <3>1, Monotone
    <2>5. i \in 1 .. N
      <3>1. i - 1 < s0 + m /\ s0 + m <= N
        BY <1>5, <2>2, <2>3, <2>4
      <3>2. i # 0
        BY <2>3
      <3> QED  BY <1>5, <2>2, <2>3, <3>1, <3>2
    <2>6. \A c \in 1 .. NB : st[c] <= i - 1 /\ i - 1 < st[c + 1] => c = b
      BY <1>1, <2>0, <2>3, Alone
    <2>7. Of(i) = b
      BY <2>3, <2>6 DEF Of
    <2>8. At(i) = j
      BY <2>3, <2>7 DEF At
    <2> QED  BY <2>1, <2>5, <2>7, <2>8
  \* What an id is replaced by.
  <1>8. ASSUME NEW b \in 1 .. NB, NEW j \in 0 .. PromptLen(seq(b)) - 1, NEW i, i = st[b] + j + 1
        PROVE  /\ parts[i] \in Seq(Tokens) /\ Len(parts[i]) = Width(seq(b), j)
               /\ \A k \in 1 .. Width(seq(b), j) :
                    parts[i][k] = TokenAt(seq(b), Begins(seq(b), j) + (k - 1))
    <2>1. i \in 1 .. N /\ InputIds[i] = <<seq(b), j>>
      BY <1>2, <1>7, <1>8
    <2>2. parts[i] = IF IsImage(seq(b), j)
                     THEN [k \in 1 .. TokensPerImage |-> Image(ImageNumber(i)) \o <<k>>]
                     ELSE <<<<seq(b), j>> \o <<0>>>>
      <3>1. PICK t : t = InputIds[i] /\ t = <<seq(b), j>>
        BY <2>1
      <3>2. parts[i] = IF IsImage(t[1], t[2])
                       THEN [k \in 1 .. TokensPerImage |-> Image(ImageNumber(i)) \o <<k>>]
                       ELSE <<t \o <<0>>>>
        BY <2>1, <3>1 DEF parts
      <3>3. t[1] = seq(b) /\ t[2] = j
        BY <3>1
      <3> QED  BY <3>1, <3>2, <3>3
    <2>3. /\ Begins(seq(b), j) \in Nat /\ Width(seq(b), j) \in Nat \ {0}
          /\ \A k \in 0 .. Width(seq(b), j) - 1 : TokenAt(seq(b), Begins(seq(b), j) + k)
                = IF IsImage(seq(b), j) THEN <<seq(b), j, k + 1>> ELSE <<seq(b), j, 0>>
      BY <1>1, BeginsFacts, TokenOf
    <2>4. CASE IsImage(seq(b), j)
      <3>1. Image(ImageNumber(i)) = <<seq(b), j>>
        BY <1>8, <2>4, ImageOf
      <3>2. parts[i] = [k \in 1 .. TokensPerImage |-> <<seq(b), j>> \o <<k>>]
        BY <2>2, <2>4, <3>1
      <3>3. PICK w \in Nat : w = TokensPerImage /\ w = Width(seq(b), j)
        BY <2>3, <2>4 DEF Width
      <3>4. \A k \in 1 .. w : <<seq(b), j>> \o <<k>> = <<seq(b), j, k>>
        BY Appended, Zenon
      <3>5. ASSUME NEW k \in 1 .. w
            PROVE  /\ parts[i][k] = TokenAt(seq(b), Begins(seq(b), j) + (k - 1))
                   /\ parts[i][k] \in Tokens
        <4>1. k - 1 \in 0 .. w - 1 /\ (k - 1) + 1 = k
          BY <3>3
        <4>2. parts[i][k] = <<seq(b), j, k>>
          BY <3>2, <3>3, <3>4
        <4>3. parts[i][k] = TokenAt(seq(b), Begins(seq(b), j) + (k - 1))
          BY <2>3, <2>4, <3>3, <4>1, <4>2
        <4>4. Begins(seq(b), j) + (k - 1) \in Nat
          BY <2>3, <4>1
        <4> QED  BY <1>1, <4>3, <4>4 DEF Tokens
      <3>6. parts[i] \in [1 .. w -> Tokens]
        BY <3>2, <3>3, <3>5
      <3> QED  BY <3>3, <3>5, <3>6, SeqOfFunction
    <2>5. CASE ~ IsImage(seq(b), j)
      <3>1. parts[i] = <<<<seq(b), j, 0>>>> /\ Width(seq(b), j) = 1
        <4>1. <<seq(b), j>> \o <<0>> = <<seq(b), j, 0>>
          BY Appended, Zenon
        <4> QED  BY <2>2, <2>5, <4>1 DEF Width
      <3>2. TokenAt(seq(b), Begins(seq(b), j) + 0) = <<seq(b), j, 0>>
        BY <2>3, <2>5, <3>1
      <3>3. <<seq(b), j, 0>> \in Tokens
        <4>1. Begins(seq(b), j) + 0 \in Nat
          BY <2>3
        <4> QED  BY <1>1, <3>2, <4>1 DEF Tokens
      <3>4. \A k \in 1 .. 1 : k = 1 /\ k - 1 = 0
        OBVIOUS
      <3>5. parts[i] \in Seq(Tokens) /\ Len(parts[i]) = 1 /\ parts[i][1] = <<seq(b), j, 0>>
        BY <3>1, <3>3
      <3> QED  BY <3>1, <3>2, <3>4, <3>5
    <2> QED  BY <2>4, <2>5
  <1>9. ImageExtra = Wide - job.images /\ \A b \in 1 .. NB : Begins(seq(b), PromptLen(seq(b))) = batch.context[b]
    <2>1. \A b \in 1 .. NB : Begins(seq(b), PromptLen(seq(b))) = PromptLen(seq(b)) + (Wide - job.images)
      BY <1>1, BeginsFacts
    <2>2. 1 \in 1 .. NB
      BY <1>1
    <2>3. ImageExtra = Wide - job.images
      BY <1>1, <2>2, TextFacts
    <2> QED  BY <1>1, <2>1, <2>3
  \* Where its replacement goes.
  <1>10. ASSUME NEW b \in 1 .. NB, NEW j \in 0 .. PromptLen(seq(b))
         PROVE  /\ Begins(seq(b), j) \in Nat /\ st[b] + j + 1 \in 1 .. N + 1
                /\ place[st[b] + j + 1] = cu[b] + Begins(seq(b), j)
    <2>0. PICK s0 \in Nat, m \in Nat \ {0} : s0 = st[b] /\ m = PromptLen(seq(b)) /\ st[b + 1] = s0 + m
      BY <1>1, <1>3, <1>4
    <2>1. CASE j < m
      <3>1. j \in 0 .. PromptLen(seq(b)) - 1
        BY <2>0, <2>1
      <3>2. PICK i : i = st[b] + j + 1 /\ i \in 1 .. N /\ Of(i) = b /\ At(i) = j
        BY <1>7, <3>1
      <3>3. i \in 1 .. N + 1 /\ i # N + 1
        BY <1>5, <3>2
      <3>4. place[i] = cu[b] + Begins(seq(b), j)
        BY <3>2, <3>3 DEF place
      <3>5. Begins(seq(b), j) \in Nat
        BY <1>1, <3>1, BeginsFacts
      <3> QED  BY <3>2, <3>3, <3>4, <3>5
    <2>2. CASE j = m
      <3>1. Begins(seq(b), j) = batch.context[b] /\ cu[b] + Begins(seq(b), j) = cu[b + 1]
        BY <1>3, <1>9, <2>0, <2>2
      <3>2. st[b] + j + 1 = st[b + 1] + 1
        BY <2>0, <2>2
      <3>3. CASE b = NB
        <4>1. st[b + 1] + 1 = N + 1 /\ N + 1 \in 1 .. N + 1
          BY <1>5, <3>3
        <4>2. place[N + 1] = cu[NB + 1]
          BY <4>1 DEF place
        <4> QED  BY <1>1, <3>1, <3>2, <3>3, <4>1, <4>2
      <3>4. CASE b < NB
        <4>1. b + 1 \in 1 .. NB
          BY <1>1, <3>4
        <4>2. 0 \in 0 .. PromptLen(seq(b + 1)) - 1 /\ st[b + 1] + 0 + 1 = st[b + 1] + 1
          BY <1>1, <1>4, <4>1
        <4>3. PICK i : i = st[b + 1] + 1 /\ i \in 1 .. N /\ Of(i) = b + 1 /\ At(i) = 0
          BY <1>7, <4>1, <4>2
        <4>4. i \in 1 .. N + 1 /\ i # N + 1
          BY <1>5, <4>3
        <4>5. place[i] = cu[b + 1] + Begins(seq(b + 1), 0)
          BY <4>3, <4>4 DEF place
        <4>6. Begins(seq(b + 1), 0) = 0 /\ cu[b + 1] \in Nat
          BY <1>1, <1>4, <4>1, BeginsFacts
        <4>7. cu[b + 1] + 0 = cu[b + 1]
          BY <4>6
        <4> QED  BY <1>1, <3>1, <3>2, <4>3, <4>4, <4>5, <4>6, <4>7
      <3> QED  BY <1>1, <3>3, <3>4
    <2> QED  BY <2>0, <2>1, <2>2
  <1>11. Starts(place, N, size) /\ \A i \in 1 .. N : size[i] \in Nat /\ size[i] = Len(parts[i])
    <2>1. ASSUME NEW i \in 1 .. N
          PROVE  /\ place[i] \in Nat /\ place[i + 1] \in Nat /\ place[i + 1] = place[i] + size[i]
                 /\ size[i] \in Nat /\ size[i] = Len(parts[i])
      <3>1. PICK b \in 1 .. NB : \E j \in 0 .. PromptLen(seq(b)) - 1 : i = st[b] + j + 1
        BY <1>6
      <3>2. PICK j \in 0 .. PromptLen(seq(b)) - 1 : i = st[b] + j + 1
        BY <3>1
      <3>3. PICK s0 \in Nat, m \in Nat \ {0} : s0 = st[b] /\ m = PromptLen(seq(b))
        BY <1>1, <1>4
      <3>4. j \in 0 .. PromptLen(seq(b)) /\ j + 1 \in 0 .. PromptLen(seq(b)) /\ i + 1 = st[b] + (j + 1) + 1
        <4>1. j \in 0 .. m - 1 /\ i = s0 + j + 1
          BY <3>2, <3>3
        <4>2. PICK y \in Nat : y = j /\ y + 1 <= m
          BY <4>1
        <4>3. i = s0 + y + 1 /\ i + 1 = s0 + (y + 1) + 1
          BY <4>1, <4>2
        <4>4. y \in 0 .. m /\ y + 1 \in 0 .. m
          BY <4>2
        <4> QED  BY <3>3, <4>2, <4>3, <4>4
      <3>5. /\ place[i] = cu[b] + Begins(seq(b), j) /\ place[i + 1] = cu[b] + Begins(seq(b), j + 1)
            /\ Begins(seq(b), j) \in Nat /\ Begins(seq(b), j + 1) \in Nat
        BY <1>10, <3>2, <3>4
      <3>6. size[i] = Width(seq(b), j)
        BY <1>7, <3>2 DEF size
      <3>7. Begins(seq(b), j + 1) = Begins(seq(b), j) + Width(seq(b), j) /\ Width(seq(b), j) \in Nat
        BY <1>1, BeginsFacts
      <3>8. Len(parts[i]) = Width(seq(b), j)
        BY <1>8, <3>2
      <3> QED  BY <1>4, <3>5, <3>6, <3>7, <3>8
    <2>2. place[1] = 0
      <3>1. 1 \in 1 .. NB /\ 0 \in 0 .. PromptLen(seq(1)) /\ seq(1) \in SeqIds
        BY <1>1
      <3>2. place[st[1] + 0 + 1] = cu[1] + Begins(seq(1), 0)
        BY <1>10, <3>1
      <3>3. Begins(seq(1), 0) = 0
        BY <3>1, BeginsFacts
      <3> QED  BY <1>3, <3>2, <3>3
    <2>3. place \in [1 .. N + 1 -> Nat]
      <3>1. \A i \in 1 .. N + 1 : place[i] \in Nat
        <4>1. place[N + 1] = cu[NB + 1]
          BY <1>5 DEF place
        <4>2. cu[NB + 1] \in Nat
          BY <1>1, <1>4
        <4>3. \A i \in 1 .. N + 1 : i \in 1 .. N \/ i = N + 1
          BY <1>5
        <4> QED  BY <2>1, <4>1, <4>2, <4>3
      <3> QED  BY <3>1 DEF place
    <2> QED  BY <2>1, <2>2, <2>3 DEF Starts
  <1>12. parts \in [1 .. N -> Seq(Tokens)]
    <2>1. \A i \in 1 .. N : parts[i] \in Seq(Tokens)
      BY <1>6, <1>8
    <2>2. parts = [i \in 1 .. N |-> parts[i]]
      BY DEF parts
    <2> QED  BY <2>1, <2>2
  <1>13. Splice = FlattenSeq(parts)
    <2>1. DOMAIN InputIds = 1 .. N
      BY <1>2
    <2> QED  BY <2>1 DEF Splice, parts
  <1>14. N \in Nat \ {0}
    <2>1. NB \in 1 .. NB /\ st[NB + 1] = st[NB] + PromptLen(seq(NB))
      BY <1>1, <1>3
    <2> QED  BY <1>1, <1>4, <1>5, <2>1
  <1>15. Flattened(Tokens, N, parts, place)
    <2>1. \A i \in 1 .. N : size[i] = Len(parts[i])
      BY <1>11
    <2> HIDE DEF N
    <2> QED  BY <1>11, <1>12, <1>14, <2>1, FlattenFacts, Zenon
  <1>16. place[N + 1] = batch.rows
    BY <1>2, <1>14 DEF place
  <1>17. Splice \in Seq(Tokens) /\ Len(Splice) = batch.rows
    BY <1>13, <1>15, <1>16 DEF Flattened
  <1>18. ASSUME NEW r \in 1 .. batch.rows
         PROVE  Splice[r] = RowTokens[r]
    <2>0. batch.rows \in Nat /\ r - 1 \in 0 .. place[N + 1] - 1
      BY <1>2, <1>4, <1>16, <1>17
    <2>1. PICK i \in 1 .. N : place[i] <= r - 1 /\ r - 1 < place[i + 1]
      <3>1. \A i \in 1 .. N : size[i] \in Nat
        BY <1>11
      <3> HIDE DEF N
      <3> QED  BY <1>11, <1>14, <2>0, <3>1, Covered
    <2>2. PICK b \in 1 .. NB : \E j \in 0 .. PromptLen(seq(b)) - 1 : i = st[b] + j + 1
      BY <1>6
    <2>3. PICK j \in 0 .. PromptLen(seq(b)) - 1 : i = st[b] + j + 1
      BY <2>2
    <2>4. /\ parts[i] \in Seq(Tokens) /\ Len(parts[i]) = Width(seq(b), j)
          /\ \A k \in 1 .. Width(seq(b), j) :
               parts[i][k] = TokenAt(seq(b), Begins(seq(b), j) + (k - 1))
      BY <1>8, <2>3
    <2>5. PICK m \in Nat \ {0} : m = PromptLen(seq(b))
      BY <1>1
    <2>6. j \in 0 .. PromptLen(seq(b)) /\ PromptLen(seq(b)) \in 0 .. PromptLen(seq(b))
      BY <2>5
    <2>7. place[i] = cu[b] + Begins(seq(b), j) /\ Begins(seq(b), j) \in Nat
      BY <1>10, <2>3, <2>6
    <2>8. place[i + 1] = place[i] + size[i] /\ size[i] = Width(seq(b), j) /\ Width(seq(b), j) \in Nat
      BY <1>11, <2>4 DEF Starts
    <2>9. PICK c \in Nat, g \in Nat, w \in Nat :
                c = cu[b] /\ g = Begins(seq(b), j) /\ w = Width(seq(b), j)
      BY <1>4, <2>7, <2>8
    <2>n. c \in Nat /\ g \in Nat /\ w \in Nat
      BY <2>9
    <2>10. PICK k \in 1 .. w : r = (c + g) + k
      <3>1. r - (c + g) \in 1 .. w /\ r = (c + g) + (r - (c + g))
        <4>0. r \in Nat
          BY <2>0
        <4>1. place[i] = c + g /\ place[i + 1] = (c + g) + w
          BY <2>7, <2>8, <2>9
        <4>2. c + g <= r - 1 /\ r - 1 < (c + g) + w /\ r \in Nat
          BY <2>1, <2>n, <4>0, <4>1
        <4>3. r - (c + g) \in Nat /\ r - (c + g) # 0 /\ r - (c + g) <= w
          BY <2>n, <4>2
        <4>4. r - (c + g) \in 1 .. w
          BY <2>n, <4>3
        <4> QED  BY <2>n, <4>0, <4>4
      <3> QED  BY <3>1
    <2>11. Splice[r] = TokenAt(seq(b), g + (k - 1))
      <3>1. FlattenSeq(parts)[place[i] + k] = parts[i][k]
        <4>1. k \in 1 .. Len(parts[i])
          BY <2>4, <2>9
        <4> QED  BY <1>15, <4>1 DEF Flattened
      <3>2. place[i] + k = r
        BY <2>7, <2>9, <2>10
      <3> QED  BY <1>13, <2>4, <2>9, <3>1, <3>2
    <2>12. g + (k - 1) \in 0 .. batch.context[b] - 1
      <3>1. place[st[b] + PromptLen(seq(b)) + 1] = cu[b] + Begins(seq(b), PromptLen(seq(b)))
        BY <1>10, <2>6
      <3>2. place[i + 1] <= place[st[b] + PromptLen(seq(b)) + 1]
        <4>1. st[b] \in Nat /\ st[b] + PromptLen(seq(b)) + 1 \in 1 .. N + 1
          BY <1>4, <1>10, <2>6
        <4>2. i + 1 \in 1 .. N + 1 /\ st[b] + PromptLen(seq(b)) + 1 \in (i + 1) .. N + 1
          <5>1. PICK x \in Nat : x = st[b] /\ x + m + 1 \in 1 .. N + 1
            BY <2>5, <4>1
          <5>2. i = x + j + 1 /\ j \in 0 .. m - 1
            BY <2>3, <2>5, <5>1
          <5> HIDE DEF N
          <5>3. i + 1 \in 1 .. N + 1 /\ x + m + 1 \in (i + 1) .. N + 1
            BY <1>14, <2>5, <5>1, <5>2
          <5> QED  BY <2>5, <5>1, <5>3
        <4>3. \A y \in 1 .. N : size[y] \in Nat
          BY <1>11
        <4> HIDE DEF N
        <4> QED  BY <1>11, <1>14, <4>2, <4>3, Monotone
      <3>3. Begins(seq(b), PromptLen(seq(b))) = batch.context[b] /\ batch.context[b] \in Nat
        BY <1>1, <1>9
      <3>4. (c + g) + w <= c + batch.context[b]
        <4>1. place[i + 1] = (c + g) + w
          BY <2>7, <2>8, <2>9
        <4>2. place[st[b] + PromptLen(seq(b)) + 1] = c + batch.context[b]
          BY <2>9, <3>1, <3>3
        <4> QED  BY <3>2, <4>1, <4>2
      <3>5. PICK x \in Nat : x = batch.context[b]
        BY <3>3
      <3>6. g + w <= x /\ g + (k - 1) < g + w /\ g + (k - 1) \in Nat
        <4>1. (c + g) + w <= c + x /\ k \in 1 .. w
          BY <2>10, <3>4, <3>5
        <4> QED  BY <2>n, <4>1
      <3> QED  BY <3>5, <3>6
    <2>13. RowTokens[c + (g + (k - 1)) + 1] = TokenAt(seq(b), g + (k - 1))
      BY <2>9, <2>12, RowsLaidOut
    <2>14. c + (g + (k - 1)) + 1 = r
      BY <2>9, <2>10
    <2> QED  BY <2>11, <2>13, <2>14
  <1>19. RowTokens \in Seq(Tokens) /\ Len(RowTokens) = batch.rows
    BY RowsLaidOut
  <1> QED
    <2>1. PICK p, q, n : p = Splice /\ q = RowTokens /\ n = batch.rows
      OBVIOUS
    <2>2. p \in Seq(Tokens) /\ q \in Seq(Tokens) /\ Len(p) = n /\ Len(q) = n
      BY <1>17, <1>19, <2>1
    <2>3. \A r \in 1 .. n : p[r] = q[r]
      BY <1>18, <2>1
    <2> QED  BY <2>1, <2>2, <2>3

-----------------------------------------------------------------------------
(* The rows of a pass, and what the kernels make of their numbers.         *)

LEMMA RowFacts ==
  ASSUME JobOK, PassOK, done \in [SeqIds -> 0 .. MaxGenerated], batch.prompt, NEW r \in Rows
  PROVE  /\ SeqOfRow(r) \in 1 .. NB
         /\ \E p \in 0 .. batch.context[SeqOfRow(r)] - 1 :
              /\ r = batch.cuSeqlens[SeqOfRow(r)] + p
              /\ RowTokens[r + 1] = TokenAt(batch.seqs[SeqOfRow(r)], p)
              /\ BatchOf(r) = SeqOfRow(r) /\ PosOf(r) = p
  <1>1. /\ NB \in Nat \ {0} /\ DOMAIN batch.seqs = 1 .. NB /\ batch.maxSeqLen \in Nat \ {0}
        /\ \A b \in 1 .. NB : batch.context[b] \in Nat /\ batch.context[b] <= batch.maxSeqLen
    BY PassFacts
  <1>2. Starts(batch.cuSeqlens, NB, batch.context) /\ batch.rows = batch.cuSeqlens[NB + 1]
    BY PromptFacts
  <1>3. /\ batch.cuSeqlens \in [1 .. NB + 1 -> Nat]
        /\ \A b \in 1 .. NB : batch.cuSeqlens[b + 1] = batch.cuSeqlens[b] + batch.context[b]
    BY <1>2 DEF Starts
  <1>4. r \in 0 .. batch.cuSeqlens[NB + 1] - 1
    BY <1>2 DEF Rows
  <1>5. \E b \in 1 .. NB : batch.cuSeqlens[b] <= r /\ r < batch.cuSeqlens[b + 1]
    BY <1>1, <1>2, <1>4, Covered
  <1>6. PICK b : /\ b = SeqOfRow(r) /\ b \in 1 .. NB
                 /\ batch.cuSeqlens[b] <= r /\ r < batch.cuSeqlens[b + 1]
    <2>1. SeqOfRow(r) = CHOOSE c \in 1 .. NB : batch.cuSeqlens[c] <= r /\ r < batch.cuSeqlens[c + 1]
      BY <1>1 DEF SeqOfRow
    <2> QED  BY <1>5, <2>1
  <1>7. b \in 1 .. NB + 1
    BY <1>1, <1>6
  <1>8. PICK c \in Nat, x \in Nat, m \in Nat \ {0} :
             c = batch.cuSeqlens[b] /\ x = batch.context[b] /\ m = batch.maxSeqLen
    BY <1>1, <1>3, <1>6, <1>7
  <1>n. c \in Nat /\ x \in Nat /\ m \in Nat \ {0} /\ r \in Nat
    <2>1. batch.cuSeqlens[NB + 1] \in Nat
      <3>1. NB + 1 \in 1 .. NB + 1
        BY <1>1
      <3> QED  BY <1>3, <3>1
    <2> QED  BY <1>4, <1>8, <2>1
  <1>9. c <= r /\ r < c + x /\ x <= m
    BY <1>1, <1>3, <1>6, <1>8
  <1>10. PICK p \in 0 .. x - 1 : r = c + p
    <2>1. r - c \in 0 .. x - 1 /\ r = c + (r - c)
      BY <1>n, <1>9
    <2> QED  BY <2>1
  <1>11. p \in 0 .. m - 1 /\ p \in Nat
    BY <1>n, <1>9, <1>10
  <1>12. PICK a \in Nat : a = b - 1 /\ b = 1 + a
    BY <1>6
  <1>13. PICK k \in Nat : k = a * m
    BY <1>n, <1>12, Times
  <1>14. GlobalRow(r) = a * m + p
    <2>1. PaddingOffset(r) = k - c
      BY <1>6, <1>8, <1>12, <1>13 DEF PaddingOffset
    <2>2. k \in Nat
      BY <1>13
    <2>3. (c + p) + (k - c) = k + p
      BY <1>n, <1>11, <2>2
    <2> QED  BY <1>10, <1>13, <2>1, <2>3 DEF GlobalRow
  <1>15. (a * m + p) \div m = a /\ (a * m + p) % m = p
    BY <1>n, <1>11, <1>12, DivOf
  <1>16. BatchOf(r) = b /\ PosOf(r) = p
    BY <1>8, <1>12, <1>14, <1>15 DEF BatchOf, PosOf
  <1>17. RowTokens[c + p + 1] = TokenAt(batch.seqs[b], p)
    BY <1>6, <1>8, <1>10, RowsLaidOut
  <1>18. p \in 0 .. batch.context[b] - 1 /\ r = batch.cuSeqlens[b] + p /\ r + 1 = c + p + 1
    BY <1>8, <1>10
  <1>19. /\ r = batch.cuSeqlens[b] + p /\ RowTokens[r + 1] = TokenAt(batch.seqs[b], p)
         /\ BatchOf(r) = b /\ PosOf(r) = p
    BY <1>16, <1>17, <1>18
  <1> QED  BY <1>6, <1>18, <1>19

LEMMA RowAt ==
  ASSUME JobOK, PassOK, done \in [SeqIds -> 0 .. MaxGenerated], batch.prompt,
         NEW b \in 1 .. NB, NEW p \in 0 .. batch.context[b] - 1
  PROVE  /\ batch.cuSeqlens[b] \in Nat /\ batch.cuSeqlens[b] + p \in Rows
         /\ SeqOfRow(batch.cuSeqlens[b] + p) = b
         /\ RowTokens[batch.cuSeqlens[b] + p + 1] = TokenAt(batch.seqs[b], p)
  <1>1. /\ NB \in Nat \ {0} /\ DOMAIN batch.seqs = 1 .. NB
        /\ \A c \in 1 .. NB : batch.context[c] \in Nat
    BY PassFacts
  <1>2. Starts(batch.cuSeqlens, NB, batch.context) /\ batch.rows = batch.cuSeqlens[NB + 1]
    BY PromptFacts
  <1>3. /\ batch.cuSeqlens \in [1 .. NB + 1 -> Nat]
        /\ batch.cuSeqlens[b + 1] = batch.cuSeqlens[b] + batch.context[b]
    BY <1>2 DEF Starts
  <1>4. b \in 1 .. NB + 1 /\ b + 1 \in 1 .. NB + 1 /\ NB + 1 \in (b + 1) .. NB + 1 /\ NB + 1 \in 1 .. NB + 1
    BY <1>1
  <1>5. batch.cuSeqlens[b + 1] <= batch.cuSeqlens[NB + 1]
    BY <1>1, <1>2, <1>4, Monotone
  <1>6. PICK c \in Nat, x \in Nat, n \in Nat :
             c = batch.cuSeqlens[b] /\ x = batch.context[b] /\ n = batch.rows
    BY <1>1, <1>2, <1>3, <1>4
  <1>n. c \in Nat /\ x \in Nat /\ n \in Nat /\ p \in 0 .. x - 1 /\ c + x <= n
    BY <1>2, <1>3, <1>5, <1>6
  <1>7. c + p \in 0 .. n - 1 /\ c + p \in Nat /\ c <= c + p /\ c + p < c + x
    BY <1>n
  <1>8. SeqOfRow(c + p) = b
    <2>1. batch.cuSeqlens[b] <= c + p /\ c + p < batch.cuSeqlens[b + 1]
      BY <1>3, <1>6, <1>7
    <2>2. \A d \in 1 .. NB : batch.cuSeqlens[d] <= c + p /\ c + p < batch.cuSeqlens[d + 1] => d = b
      BY <1>1, <1>2, <1>7, <2>1, Alone
    <2>3. SeqOfRow(c + p) = CHOOSE d \in 1 .. NB : batch.cuSeqlens[d] <= c + p /\ c + p < batch.cuSeqlens[d + 1]
      BY <1>1 DEF SeqOfRow
    <2> QED  BY <2>1, <2>2, <2>3
  <1>9. RowTokens[batch.cuSeqlens[b] + p + 1] = TokenAt(batch.seqs[b], p)
    BY RowsLaidOut
  <1> QED  BY <1>6, <1>7, <1>8, <1>9 DEF Rows

LEMMA DecodeRows ==
  ASSUME JobOK, PassOK, done \in [SeqIds -> 0 .. MaxGenerated], ~ batch.prompt
  PROVE  /\ Rows = 0 .. NB - 1
         /\ RowTokens = [b \in 1 .. NB |-> TokenAt(batch.seqs[b], batch.context[b] - 1)]
         /\ \A r \in Rows : /\ r + 1 \in 1 .. NB
                            /\ RowTokens[r + 1] = TokenAt(batch.seqs[r + 1], batch.context[r + 1] - 1)
         /\ \A b \in 1 .. NB : b - 1 \in Rows /\ (b - 1) + 1 = b
  <1>1. /\ NB \in Nat \ {0} /\ DOMAIN batch.seqs = 1 .. NB
        /\ \A b \in 1 .. NB : batch.context[b] = ContextLen(batch.seqs[b])
    BY PassFacts
  <1>2. Rows = 0 .. NB - 1
    <2>1. batch.rows = NB
      BY DEF PassOK
    <2> QED  BY <2>1 DEF Rows
  <1>3. RowTokens = [b \in 1 .. NB |-> TokenAt(batch.seqs[b], batch.context[b] - 1)]
    BY <1>1 DEF RowTokens
  <1>4. PICK n \in Nat : n = NB
    BY <1>1
  <1>5. (\A r \in 0 .. n - 1 : r + 1 \in 1 .. n) /\ \A b \in 1 .. n : b - 1 \in 0 .. n - 1 /\ (b - 1) + 1 = b
    BY <1>4
  <1> QED  BY <1>2, <1>3, <1>4, <1>5

-----------------------------------------------------------------------------
(* Where the cache keeps a position of a sequence.                         *)

Cell(s, pos) == <<Tables[s][1 + pos \div BlockSize], pos % BlockSize>>
Room(s)      == Len(Tables[s]) * BlockSize

LEMMA CellFacts ==
  ASSUME NEW s \in SeqIds, NEW pos \in Nat, pos < Room(s)
  PROVE  /\ 1 + pos \div BlockSize \in DOMAIN Tables[s]
         /\ Cell(s, pos)[1] \in Blocks /\ Cell(s, pos)[2] \in 0 .. BlockSize - 1
  <1>1. BlockSize \in Nat \ {0}
    BY ForwardAssumption
  <1>2. PICK n \in Nat : n = Len(Tables[s]) /\ DOMAIN Tables[s] = 1 .. n
    BY TablesAssumption
  <1>3. pos \div BlockSize \in 0 .. n - 1
    BY <1>1, <1>2, DivBelow DEF Room
  <1>4. 1 + pos \div BlockSize \in DOMAIN Tables[s]
    BY <1>2, <1>3
  <1>5. pos % BlockSize \in 0 .. BlockSize - 1
    BY <1>1, DivMod
  <1> QED  BY <1>4, <1>5 DEF Cell, Blocks

(* No two positions, of one sequence or of two, share a cell.              *)
LEMMA CellsDiffer ==
  ASSUME NEW s \in SeqIds, NEW t \in SeqIds, NEW p \in Nat, NEW q \in Nat,
         p < Room(s), q < Room(t), Cell(s, p) = Cell(t, q)
  PROVE  s = t /\ p = q
  <1>1. BlockSize \in Nat \ {0}
    BY ForwardAssumption
  <1>2. PICK a \in Nat, c \in 0 .. BlockSize - 1 :
             a = p \div BlockSize /\ c = p % BlockSize /\ p = a * BlockSize + c
    BY <1>1, DivMod
  <1>3. PICK b \in Nat, d \in 0 .. BlockSize - 1 :
             b = q \div BlockSize /\ d = q % BlockSize /\ q = b * BlockSize + d
    BY <1>1, DivMod
  <1>4. 1 + a \in DOMAIN Tables[s] /\ 1 + b \in DOMAIN Tables[t]
    BY <1>2, <1>3, CellFacts
  <1>5. Tables[s][1 + a] = Tables[t][1 + b] /\ c = d
    BY <1>2, <1>3 DEF Cell
  <1>6. s = t /\ 1 + a = 1 + b
    BY <1>4, <1>5, TablesAssumption
  <1>7. a = b
    BY <1>6
  <1> QED  BY <1>2, <1>3, <1>5, <1>6, <1>7

LEMMA RoomForAll ==
  ASSUME JobOK, AllImages, NEW s \in SeqIds, done \in [SeqIds -> 0 .. MaxGenerated]
  PROVE  /\ ContextLen(s) \in Nat \ {0} /\ ContextLen(s) - 1 <= Room(s) /\ Room(s) \in Nat
         /\ done[s] < MaxGenerated => ContextLen(s) <= Room(s)
  <1>1. /\ PromptLen(s) = Before(s) + job.images + After(s) /\ Before(s) \in Nat /\ After(s) \in Nat
        /\ job.images \in Nat /\ Wide \in Nat /\ ImageExtra = Wide - job.images /\ job.images <= Wide
        /\ PromptLen(s) \in Nat \ {0}
    BY TextFacts
  <1>2. PICK d \in Nat, g \in Nat : d = done[s] /\ g = MaxGenerated /\ d <= g
    BY ForwardAssumption
  <1>3. PICK n \in Nat, z \in Nat \ {0} : n = Len(Tables[s]) /\ z = BlockSize
    BY TablesAssumption, ForwardAssumption
  <1>4. PICK room \in Nat : room = Room(s)
    BY <1>3, Times DEF Room
  <1>5. Before(s) + Wide + After(s) + g - 1 <= room
    <2>1. job.prompt[s] \in Prompts /\ job.images \in Images
      BY DEF JobOK
    <2>2. job.prompt[s].before + job.images * TokensPerImage + job.prompt[s].after + MaxGenerated - 1
            <= Len(Tables[s]) * BlockSize
      BY <2>1, TablesAssumption
    <2> QED  BY <1>2, <1>4, <2>2 DEF Before, After, Wide, Room
  <1>6. PICK x \in Nat, y \in Nat, i \in Nat, w \in Nat :
             x = Before(s) /\ y = After(s) /\ i = job.images /\ w = Wide
    BY <1>1
  <1>7. ContextLen(s) = x + i + y + d + (w - i)
    BY <1>1, <1>2, <1>6 DEF ContextLen
  <1>8. x + w + y + g - 1 <= room /\ i <= w /\ x + i + y > 0
    BY <1>1, <1>5, <1>6
  <1>9. x + i + y + d + (w - i) = x + y + w + d /\ x + y + w > 0
    BY <1>6, <1>8
  <1>10. d < g => x + y + w + d <= room
    BY <1>8
  <1>11. x + y + w + d - 1 <= room
    BY <1>2, <1>8
  <1> QED  BY <1>2, <1>4, <1>7, <1>9, <1>10, <1>11

(* The table a kernel is given names the block of every position.          *)
LEMMA SlotIsCell ==
  ASSUME JobOK, PassOK, done \in [SeqIds -> 0 .. MaxGenerated],
         NEW b \in 1 .. NB, NEW pos \in 0 .. batch.context[b] - 1
  PROVE  Slot(b, pos) = Cell(batch.seqs[b], pos)
  <1>1. PICK z \in Nat \ {0} : z = BlockSize
    BY ForwardAssumption
  <1>2. PICK x \in Nat \ {0} : x = batch.context[b]
    BY PassFacts
  <1>n. z \in Nat \ {0} /\ x \in Nat \ {0} /\ pos \in Nat /\ pos <= x - 1
    BY <1>1, <1>2
  <1>3. PICK a \in Nat, c \in 0 .. z - 1 : a = pos \div z /\ pos = a * z + c
    BY <1>n, DivMod
  <1>4. PICK v \in Nat : v = x + z - 1
    <2>1. x + z - 1 \in Nat
      BY <1>n
    <2> QED  BY <2>1
  <1>5. PICK q \in Nat, r \in 0 .. z - 1 : q = v \div z /\ v = q * z + r
    BY <1>4, <1>n, DivMod
  <1>6. PICK qz \in Nat, az \in Nat : qz = q * z /\ az = a * z /\ (q + 1) * z = qz + z /\ (a + 1) * z = az + z
    BY <1>n, Times
  <1>7. 1 + a <= q
    <2> SUFFICES ASSUME ~ (1 + a <= q) PROVE FALSE
      OBVIOUS
    <2>1. q + 1 <= a + 1 /\ q + 1 \in Nat /\ a + 1 \in Nat
      BY <1>3, <1>5
    <2>2. (q + 1) * z <= (a + 1) * z
      BY <1>n, <2>1, TimesAtMost
    <2>3. qz + z <= az + z
      BY <1>6, <2>2
    <2>4. x + z - 1 = qz + r /\ pos = az + c
      BY <1>3, <1>4, <1>5, <1>6
    <2> QED  BY <1>n, <1>3, <1>5, <1>6, <2>3, <2>4
  <1>8. CeilDiv(x, z) = q
    BY <1>4, <1>5 DEF CeilDiv
  <1>9. Entry(b, 1 + a) = Tables[batch.seqs[b]][1 + a]
    BY <1>1, <1>2, <1>7, <1>8 DEF Entry
  <1> QED  BY <1>1, <1>3, <1>9 DEF Slot, Cell

-----------------------------------------------------------------------------
(* The views of the activation buffers.                                    *)

ViewType == [in : {"act", "quant", "scale", "sum"}, width : Nat]

LEMMA LargerFacts ==
  ASSUME NEW a \in Nat, NEW b \in Nat
  PROVE  Larger(a, b) \in Nat /\ a <= Larger(a, b) /\ b <= Larger(a, b)
  BY DEF Larger

LEMMA TimesMonotonic ==
  ASSUME NEW n \in Nat, NEW r \in 0 .. n - 1, NEW w \in Nat, NEW x \in Nat, w <= x
  PROVE  r * w \in Nat /\ (r + 1) * w <= n * x
  <1>1. (r + 1) * w <= n * w
    <2>1. PICK d \in Nat : n = (r + 1) + d
      <3>1. n - (r + 1) \in Nat /\ n = (r + 1) + (n - (r + 1))
        OBVIOUS
      <3> QED  BY <3>1
    <2>2. n * w = (r + 1) * w + d * w /\ d * w \in Nat
      BY <2>1
    <2> QED  BY <2>2
  <1>2. n * w <= n * x
    <2>1. PICK d \in Nat : x = w + d
      <3>1. x - w \in Nat /\ x = w + (x - w)
        OBVIOUS
      <3> QED  BY <3>1
    <2>2. n * x = n * w + n * d /\ n * d \in Nat
      BY <2>1
    <2> QED  BY <2>2
  <1>3. r * w \in Nat /\ (r + 1) * w \in Nat /\ n * w \in Nat /\ n * x \in Nat
    OBVIOUS
  <1> QED  BY <1>1, <1>2, <1>3

LEMMA RowFits ==
  ASSUME NEW n \in Nat, NEW r \in 0 .. n - 1, NEW view \in ViewType,
         NEW x \in Nat, view.width <= x
  PROVE  RowCells(view, r) \subseteq 0 .. n * x - 1
  <1>1. r * view.width \in Nat /\ (r + 1) * view.width <= n * x
    BY TimesMonotonic DEF ViewType
  <1>2. (r + 1) * view.width \in Nat /\ n * x \in Nat
    BY DEF ViewType
  <1> QED  BY <1>1, <1>2 DEF RowCells, ViewType

(* If the heads divide hidden_size, the queries are as wide as a row of    *)
(* hidden_states, as LlamaAttention.__init__ takes for granted.            *)
THEOREM QueriesAreHidden ==
  ASSUME NEW heads \in Nat \ {0}, NEW kvHeads \in Nat, NEW size \in Nat, NEW inter \in Nat,
         NEW dim \in Nat, size = heads * dim
  PROVE  /\ SizesOf(heads, kvHeads, size, inter) \in ModelSizes
         /\ SizesOf(heads, kvHeads, size, inter).q = size
  <1>1. size \div heads = dim
    BY Z3
  <1>2. heads * dim \in Nat /\ kvHeads * dim \in Nat
    OBVIOUS
  <1> QED  BY <1>1, <1>2 DEF SizesOf, ModelSizes

(* __allocate_activation_buffer_llama: each row of each view lies inside   *)
(* the buffer the view is cut from.                                        *)
THEOREM ViewsFitBuffers ==
  ASSUME NEW sz \in ModelSizes, sz.hidden <= sz.q, NEW n \in Nat, NEW r \in 0 .. n - 1,
         NEW v \in DOMAIN Views(sz)
  PROVE  RowCells(Views(sz)[v], r) \subseteq 0 .. BufferSize(sz, n)[Views(sz)[v].in] - 1
  <1> DEFINE act   == Larger(sz.q + 2 * sz.kv, 2 * sz.inter)
             quant == Larger(sz.hidden, sz.inter)
  <1>1. sz.q \in Nat /\ sz.kv \in Nat /\ sz.hidden \in Nat /\ sz.inter \in Nat
    BY DEF ModelSizes
  <1>a. sz.q + 2 * sz.kv \in Nat /\ 2 * sz.inter \in Nat /\ sz.hidden <= sz.q + 2 * sz.kv
    BY <1>1
  <1>b. act \in Nat /\ sz.q + 2 * sz.kv <= act /\ 2 * sz.inter <= act
    BY <1>a, LargerFacts
  <1>c. quant \in Nat /\ sz.hidden <= quant /\ sz.inter <= quant
    BY <1>1, LargerFacts
  <1>2. sz.hidden <= act
    BY <1>1, <1>a, <1>b
  <1>3. /\ BufferSize(sz, n).act = n * act /\ BufferSize(sz, n).quant = n * quant
        /\ BufferSize(sz, n).scale = n * 1 /\ BufferSize(sz, n).sum = n * 1
    BY DEF BufferSize
  <1> HIDE DEF act, quant
  <1> DEFINE view == Views(sz)[v]
  <1>v. /\ v = "qkv"     => view = [in |-> "act", width |-> sz.q + 2 * sz.kv]
        /\ v = "outDown" => view = [in |-> "act", width |-> sz.hidden]
        /\ v = "gateUp"  => view = [in |-> "act", width |-> 2 * sz.inter]
        /\ v = "qHidden" => view = [in |-> "quant", width |-> sz.hidden]
        /\ v = "qMlp"    => view = [in |-> "quant", width |-> sz.inter]
        /\ v = "scale"   => view = [in |-> "scale", width |-> 1]
        /\ v = "sum"     => view = [in |-> "sum", width |-> 1]
    BY DEF Views
  <1> HIDE DEF view
  <1>4. PICK x \in Nat : /\ view \in ViewType /\ view.width <= x
                         /\ BufferSize(sz, n)[view.in] = n * x
    <2>1. CASE v \in {"qkv", "outDown", "gateUp"}
      <3>1. /\ view.in = "act" /\ view \in ViewType
            /\ view.width \in {sz.q + 2 * sz.kv, sz.hidden, 2 * sz.inter}
        BY <1>1, <1>a, <1>v, <2>1 DEF ViewType
      <3>2. view.width <= act
        BY <1>b, <1>2, <3>1
      <3> QED  BY <1>3, <1>b, <3>1, <3>2
    <2>2. CASE v \in {"qHidden", "qMlp"}
      <3>1. /\ view.in = "quant" /\ view \in ViewType
            /\ view.width \in {sz.hidden, sz.inter}
        BY <1>1, <1>v, <2>2 DEF ViewType
      <3>2. view.width <= quant
        BY <1>c, <3>1
      <3> QED  BY <1>3, <1>c, <3>1, <3>2
    <2>3. CASE v \in {"scale", "sum"}
      <3>1. /\ view.in \in {"scale", "sum"} /\ view \in ViewType
            /\ view.width = 1
        BY <1>v, <2>3 DEF ViewType
      <3> QED  BY <1>3, <3>1
    <2> QED  BY <2>1, <2>2, <2>3 DEF Views
  <1>7. RowCells(view, r) \subseteq 0 .. n * x - 1
    BY <1>4, RowFits
  <1> QED  BY <1>4, <1>7 DEF view

(* Two rows of a view share no cell: kernels that work on different rows   *)
(* at the same time do not disturb each other.                             *)
THEOREM RowsAreDisjoint ==
  ASSUME NEW view \in ViewType, NEW r \in Nat, NEW q \in Nat, r # q
  PROVE  RowCells(view, r) \cap RowCells(view, q) = {}
  <1>1. ASSUME NEW a \in Nat, NEW b \in Nat, a < b
        PROVE  (a + 1) * view.width <= b * view.width
    <2>1. a \in 0 .. b - 1 /\ view.width \in Nat
      BY <1>1 DEF ViewType
    <2> QED  BY <2>1, TimesMonotonic
  <1>2. /\ r * view.width \in Nat /\ (r + 1) * view.width \in Nat
        /\ q * view.width \in Nat /\ (q + 1) * view.width \in Nat
    BY DEF ViewType
  <1>3. CASE r < q
    BY <1>1, <1>2, <1>3 DEF RowCells, ViewType
  <1>4. CASE q < r
    BY <1>1, <1>2, <1>4 DEF RowCells, ViewType
  <1> QED  BY <1>3, <1>4

-----------------------------------------------------------------------------
(* The invariant.                                                          *)

JobPart ==
  /\ JobOK /\ done \in [SeqIds -> 0 .. MaxGenerated]
  /\ Started \/ (\E s \in SeqIds : done[s] > 0) => AllImages
  /\ Started => PassOK

(* The control: the kernels of a layer, in order.                          *)
KvKernels   == {"updateKv", "singleQuery"}
BeforeKv    == {"inputNorm", "qkvProj"} \cup KvKernels
AfterKv     == {"flashAttn", "quant", "oProj", "addAttn", "postNorm", "gateUp", "actFn",
                "downProj", "addMlp"}
InLayer     == BeforeKv \cup AfterKv
FirstHalf   == BeforeKv \cup {"flashAttn", "quant", "oProj", "addAttn", "lmHead", "sample"}
SecondHalf  == {"postNorm", "gateUp", "actFn", "downProj", "addMlp"}

ControlPart ==
  /\ pc \in {"idle", "raised", "embed", "lmHead", "sample"} \cup InLayer
  /\ pc \in {"idle", "raised", "embed"} => layer = 1
  /\ pc \in InLayer => layer \in Layers
  /\ pc \in {"lmHead", "sample"} => layer = NumLayers + 1
  /\ pc \in {"updateKv", "flashAttn"} => batch.prompt
  /\ pc = "singleQuery" => ~ batch.prompt

(* The buffers have room for the rows of the pass.                         *)
Names == IF job.precision = "w16a16" THEN {"qkv", "outDown", "gateUp", "qHidden", "qMlp"}
         ELSE {"qkv", "outDown", "gateUp", "qHidden", "qMlp", "scale", "sum"}

MemPart ==
  Started => \A v \in Names :
    /\ View(v).in \in DOMAIN mem
    /\ \A r \in Rows : RowCells(View(v), r) \subseteq DOMAIN mem[View(v).in]

(* The rows of hidden_states.                                              *)
HiddenPart ==
  /\ pc \in FirstHalf => hidden = [r \in Rows |-> Val("in", layer, RowTokens[r + 1])]
  /\ pc \in SecondHalf => hidden = [r \in Rows |-> Val("mid", layer, RowTokens[r + 1])]

(* What the next kernel finds in its views.                                *)
Holds(vs, of) == \A v \in vs, r \in Rows : Read(v, r) = Val(of, layer, RowTokens[r + 1])

BufferPart ==
  /\ pc = "qkvProj" => Holds(WithScales("qHidden"), "norm1")
  /\ pc \in KvKernels => Holds({"qkv"}, "qkv")
  /\ pc = "flashAttn" => Holds({"qkv"}, "rope")
  /\ pc = "quant" => attn = [r \in Rows |-> Val("attn", layer, RowTokens[r + 1])]
  /\ pc = "oProj" => Holds(WithScales("qHidden"), "quant")
  /\ pc = "addAttn" => Holds({"outDown"}, "o")
  /\ pc = "gateUp" => Holds(WithScales("qHidden"), "norm2")
  /\ pc = "actFn" => Holds({"gateUp"}, "gateUp")
  /\ pc = "downProj" => Holds(WithScales("qMlp"), "act")
  /\ pc = "addMlp" => Holds({"outDown"}, "down")

(* What is cached of a sequence in a layer: in the layers the pass has     *)
(* been through, the pass's tokens too.                                    *)
Passed(l) == l < layer \/ (l = layer /\ pc \in AfterKv)

CachedLen(l, s) ==
  IF Started /\ s \in BatchSeqs /\ Passed(l) THEN ContextLen(s)
  ELSE IF done[s] = 0 THEN 0 ELSE ContextLen(s) - 1

KvPart ==
  /\ kv = [l \in Layers |-> kv[l]]
  /\ \A l \in Layers, s \in SeqIds : \A pos \in 0 .. CachedLen(l, s) - 1 :
       kv[l][Tables[s][1 + pos \div BlockSize]][pos % BlockSize] = Val("rope", l, TokenAt(s, pos))

FwdInv ==
  /\ JobPart /\ ControlPart /\ MemPart /\ HiddenPart /\ BufferPart /\ KvPart
  /\ SampledFromLast

-----------------------------------------------------------------------------
(* Buffers, views and operands.                                            *)

LEMMA ViewFacts ==
  ASSUME JobOK, NEW v \in Names
  PROVE  View(v).width \in Nat \ {0}
  <1>1. CASE job.precision = "w16a16"
    BY <1>1 DEF View
  <1>2. CASE job.precision # "w16a16"
    <2>1. PICK sz : sz = job.sz /\ sz \in ModelSizes /\ sz.hidden > 0 /\ sz.inter > 0 /\ sz.hidden <= sz.q
      BY SizesAssumption DEF JobOK
    <2>2. sz.q \in Nat \ {0} /\ sz.kv \in Nat /\ sz.hidden \in Nat \ {0} /\ sz.inter \in Nat \ {0}
      BY <2>1 DEF ModelSizes
    <2>3. View(v) = Views(sz)[v] /\ v \in {"qkv", "outDown", "gateUp", "qHidden", "qMlp", "scale", "sum"}
      BY <1>2, <2>1 DEF View, Names
    <2> QED  BY <2>2, <2>3 DEF Views
  <1> QED  BY <1>1, <1>2

LEMMA ReadFacts ==
  ASSUME JobOK, NEW v \in Names, NEW r \in Nat, NEW tag,
         \A c \in RowCells(View(v), r) : mem[View(v).in][c] = tag
  PROVE  Read(v, r) = tag
  <1>1. PICK w \in Nat \ {0} : w = View(v).width
    BY ViewFacts
  <1>2. PICK a \in Nat : a = r * w /\ (r + 1) * w = a + w
    BY <1>1, Times
  <1>3. RowCells(View(v), r) = a .. a + w - 1 /\ a \in a .. a + w - 1
    <2>1. RowCells(View(v), r) = a .. a + w - 1
      BY <1>1, <1>2 DEF RowCells
    <2>2. w \in Nat \ {0} /\ a \in Nat
      BY <1>1, <1>2
    <2>3. a \in a .. a + w - 1
      BY <2>2
    <2> QED  BY <2>1, <2>3
  <1>4. mem[View(v).in][r * View(v).width] = tag
    BY <1>1, <1>2, <1>3
  <1> QED  BY <1>4 DEF Read

(* A cell of row r is in row r.                                            *)
LEMMA CellRow ==
  ASSUME JobOK, NEW v \in Names, NEW r \in Nat, NEW c \in RowCells(View(v), r)
  PROVE  c \div View(v).width = r
  <1>1. PICK w \in Nat \ {0} : w = View(v).width
    BY ViewFacts
  <1>2. PICK a \in Nat : a = r * w /\ (r + 1) * w = a + w
    BY <1>1, Times
  <1>n. w \in Nat \ {0} /\ a \in Nat
    BY <1>1, <1>2
  <1>3. c \in a .. a + w - 1
    BY <1>1, <1>2 DEF RowCells
  <1>4. PICK k \in 0 .. w - 1 : c = a + k
    <2>1. c - a \in 0 .. w - 1 /\ c = a + (c - a)
      BY <1>n, <1>3
    <2> QED  BY <2>1
  <1>5. (r * w + k) \div w = r
    BY <1>n, DivOf
  <1> QED  BY <1>1, <1>2, <1>4, <1>5

LEMMA WriteKeeps ==
  ASSUME NEW vs, NEW tags, Write(vs, tags)
  PROVE  DOMAIN mem' = DOMAIN mem /\ \A b \in DOMAIN mem : DOMAIN mem'[b] = DOMAIN mem[b]
  BY DEF Write

(* Each row of each view reads as it was written, if the views are of      *)
(* different buffers.                                                      *)
LEMMA WriteThenRead ==
  ASSUME JobOK, UNCHANGED <<job, batch>>, MemPart, Started, batch.rows \in Nat,
         NEW vs \in SUBSET Names, \A u, v \in vs : View(u).in = View(v).in => u = v,
         NEW tags, Write(vs, tags), NEW v \in vs, NEW r \in Rows
  PROVE  Read(v, r)' = tags[r]
  <1>1. v \in Names /\ r \in Nat /\ r < batch.rows
    BY DEF Rows
  <1>2. PICK b, w : b = View(v).in /\ w = View(v).width
    OBVIOUS
  <1>3. b \in DOMAIN mem /\ RowCells(View(v), r) \subseteq DOMAIN mem[b]
    BY <1>1, <1>2 DEF MemPart
  <1>4. (CHOOSE u \in vs : View(u).in = b) = v
    BY <1>2
  <1>5. mem'[b] = [c \in DOMAIN mem[b] |-> IF c \div w < batch.rows THEN tags[c \div w] ELSE mem[b][c]]
    <2>1. mem'[b] = IF \E u \in vs : View(u).in = b
                    THEN LET x == View(CHOOSE u \in vs : View(u).in = b).width
                         IN  [c \in DOMAIN mem[b] |->
                                IF c \div x < batch.rows THEN tags[c \div x] ELSE mem[b][c]]
                    ELSE mem[b]
      BY <1>3 DEF Write
    <2>2. \E u \in vs : View(u).in = b
      BY <1>2
    <2> QED  BY <1>2, <1>4, <2>1, <2>2
  <1>6. ASSUME NEW c \in RowCells(View(v), r)
        PROVE  mem'[b][c] = tags[r]
    <2>1. c \div w = r
      BY <1>1, <1>2, CellRow
    <2>2. c \in DOMAIN mem[b]
      BY <1>3
    <2> QED  BY <1>1, <1>5, <2>1, <2>2
  <1>7. View(v)' = View(v)
    BY DEF View
  <1>8. PICK n \in Nat \ {0} : n = w
    BY <1>1, <1>2, ViewFacts
  <1>9. PICK a \in Nat : a = r * n /\ (r + 1) * n = a + n
    BY <1>1, <1>8, Times
  <1>10. RowCells(View(v), r) = a .. a + n - 1 /\ a \in a .. a + n - 1
    BY <1>2, <1>8, <1>9 DEF RowCells
  <1>11. mem'[b][r * w] = tags[r]
    BY <1>6, <1>8, <1>9, <1>10
  <1> QED  BY <1>2, <1>6, <1>7, <1>11 DEF Read

LEMMA ComputeFacts ==
  ASSUME NEW of, NEW operands, NEW token, operands # {},
         \A o \in operands : o[1] = Val(o[2], layer, token)
  PROVE  Compute(of, operands) = Val(of, layer, token)
  <1>1. PICK x : x = (CHOOSE o \in operands : TRUE)
    OBVIOUS
  <1>2. x \in operands
    BY <1>1
  <1>3. x[1].token = token
    <2>1. x[1] = Val(x[2], layer, token)
      BY <1>2
    <2>2. \A y : Val(y, layer, token).token = token
      BY DEF Val
    <2> QED  BY <2>1, <2>2
  <1> QED  BY <1>1, <1>3 DEF Compute

(* What comes with a quantized tensor, each in a buffer of its own.        *)
LEMMA ScalesFacts ==
  ASSUME JobOK, NEW x \in {"qHidden", "qMlp"}
  PROVE  /\ WithScales(x) \in SUBSET Names /\ x \in WithScales(x)
         /\ \A u, v \in WithScales(x) : View(u).in = View(v).in => u = v
  <1>1. CASE job.precision = "w16a16"
    BY <1>1 DEF WithScales, Names, View
  <1>2. CASE job.precision # "w16a16"
    <2>1. WithScales(x) \in {{x, "scale"}, {x, "scale", "sum"}} /\ x \in {"qHidden", "qMlp"}
      BY <1>2 DEF WithScales, JobOK
    <2>2. Names = {"qkv", "outDown", "gateUp", "qHidden", "qMlp", "scale", "sum"}
      BY <1>2 DEF Names
    <2>3. /\ View("qHidden").in = "quant" /\ View("qMlp").in = "quant"
          /\ View("scale").in = "scale" /\ View("sum").in = "sum"
      BY <1>2 DEF View, Views
    <2> QED  BY <2>1, <2>2, <2>3
  <1> QED  BY <1>1, <1>2

LEMMA SameRows ==
  ASSUME UNCHANGED <<job, done, batch>>
  PROVE  /\ RowTokens' = RowTokens /\ Rows' = Rows /\ Names' = Names
         /\ JobOK' = JobOK /\ PassOK' = PassOK /\ AllImages' = AllImages
         /\ WithScales("qHidden")' = WithScales("qHidden") /\ WithScales("qMlp")' = WithScales("qMlp")
  <1>1. Rows' = Rows
    BY DEF Rows
  <1>2. Names' = Names
    BY DEF Names
  <1>3. WithScales("qHidden")' = WithScales("qHidden") /\ WithScales("qMlp")' = WithScales("qMlp")
    BY DEF WithScales
  <1>4. JobOK' = JobOK /\ AllImages' = AllImages
    BY DEF JobOK, AllImages
  <1>5. PassOK' = PassOK
    BY DEF PassOK, NB, ContextLen, PromptLen, ImageExtra
  <1>6. RowTokens' = RowTokens
    BY DEF RowTokens, ContextLen, PromptLen, ImageExtra, TokenAt
  <1> QED  BY <1>1, <1>2, <1>3, <1>4, <1>5, <1>6

-----------------------------------------------------------------------------
(* What kernels have in common.                                            *)

LEMMA RowsAreNatural ==
  ASSUME JobOK, PassOK, done \in [SeqIds -> 0 .. MaxGenerated]
  PROVE  batch.rows \in Nat \ {0}
  <1>1. NB \in Nat \ {0} /\ \A b \in 1 .. NB : batch.context[b] \in Nat \ {0}
    BY PassFacts
  <1>2. CASE batch.prompt
    <2>1. /\ batch.cuSeqlens \in [1 .. NB + 1 -> Nat] /\ batch.rows = batch.cuSeqlens[NB + 1]
          /\ batch.cuSeqlens[NB + 1] = batch.cuSeqlens[NB] + batch.context[NB]
      <3>1. Starts(batch.cuSeqlens, NB, batch.context) /\ batch.rows = batch.cuSeqlens[NB + 1]
        BY <1>2, PromptFacts
      <3>2. NB \in 1 .. NB
        BY <1>1
      <3> QED  BY <3>1, <3>2 DEF Starts
    <2>2. NB \in 1 .. NB + 1 /\ NB \in 1 .. NB
      BY <1>1
    <2>3. batch.cuSeqlens[NB] \in Nat /\ batch.context[NB] \in Nat \ {0}
      BY <1>1, <2>1, <2>2
    <2> QED  BY <2>1, <2>3
  <1>3. CASE ~ batch.prompt
    <2>1. batch.rows = NB
      BY <1>3 DEF PassOK
    <2> QED  BY <1>1, <2>1
  <1> QED  BY <1>2, <1>3

LEMMA PassOfInv ==
  ASSUME FwdInv, Started
  PROVE  /\ JobOK /\ PassOK /\ done \in [SeqIds -> 0 .. MaxGenerated] /\ AllImages
         /\ batch.rows \in Nat /\ MemPart
  <1>1. JobOK /\ PassOK /\ done \in [SeqIds -> 0 .. MaxGenerated] /\ AllImages /\ MemPart
    BY DEF FwdInv, JobPart
  <1>2. batch.rows \in Nat \ {0}
    BY <1>1, RowsAreNatural
  <1> QED  BY <1>1, <1>2

LEMMA SamePass ==
  ASSUME FwdInv, Started, Started', UNCHANGED <<job, done, batch>>,
         DOMAIN mem' = DOMAIN mem, \A b \in DOMAIN mem : DOMAIN mem'[b] = DOMAIN mem[b]
  PROVE  JobPart' /\ MemPart'
  <1>1. JobOK' /\ PassOK' /\ done' \in [SeqIds -> 0 .. MaxGenerated] /\ AllImages'
    BY PassOfInv, SameRows
  <1>2. JobPart'
    BY <1>1 DEF JobPart
  <1>3. ASSUME NEW v \in Names'
        PROVE  /\ View(v)'.in \in DOMAIN mem'
               /\ \A r \in Rows' : RowCells(View(v)', r) \subseteq DOMAIN mem'[View(v)'.in]
    <2>1. v \in Names /\ Rows' = Rows /\ View(v)' = View(v)
      BY <1>3, SameRows DEF View
    <2>2. /\ View(v).in \in DOMAIN mem
          /\ \A r \in Rows : RowCells(View(v), r) \subseteq DOMAIN mem[View(v).in]
      BY <2>1, PassOfInv DEF MemPart
    <2> QED  BY <2>1, <2>2
  <1>4. MemPart'
    BY <1>3 DEF MemPart
  <1> QED  BY <1>2, <1>4

LEMMA SameCache ==
  ASSUME FwdInv, Started, Started', UNCHANGED <<job, done, batch, kv>>,
         \A l \in Layers : Passed(l)' <=> Passed(l)
  PROVE  KvPart'
  <1>1. kv' = [l \in Layers |-> kv'[l]]
    BY DEF FwdInv, KvPart
  <1>2. ASSUME NEW l \in Layers, NEW s \in SeqIds, NEW pos \in 0 .. CachedLen(l, s)' - 1
        PROVE  kv'[l][Tables[s][1 + pos \div BlockSize]][pos % BlockSize] = Val("rope", l, TokenAt(s, pos)')
    <2>1. ContextLen(s)' = ContextLen(s) /\ BatchSeqs' = BatchSeqs /\ TokenAt(s, pos)' = TokenAt(s, pos)
      BY DEF ContextLen, PromptLen, ImageExtra, BatchSeqs, NB, TokenAt
    <2>2. CachedLen(l, s)' = CachedLen(l, s)
      BY <2>1 DEF CachedLen
    <2> QED  BY <2>1, <2>2 DEF FwdInv, KvPart
  <1> QED  BY <1>1, <1>2 DEF KvPart

(* A kernel that writes views, of one tensor.                              *)
LEMMA WriteStep ==
  ASSUME FwdInv, pc \in InLayer, pc' \in InLayer, UNCHANGED <<job, done, batch, hidden, kv, layer>>,
         pc' \in AfterKv <=> pc \in AfterKv,
         pc' \in FirstHalf => pc \in FirstHalf, pc' \in SecondHalf => pc \in SecondHalf,
         NEW vs \in SUBSET Names, \A u, v \in vs : View(u).in = View(v).in => u = v,
         NEW tags, Write(vs, tags), NEW make,
         \A r \in Rows : tags[r] = Val(make, layer, RowTokens[r + 1])
  PROVE  /\ JobPart' /\ MemPart' /\ HiddenPart' /\ KvPart'
         /\ \A v \in vs, r \in Rows' : Read(v, r)' = Val(make, layer', RowTokens'[r + 1])
  <1>1. Started /\ Started'
    BY DEF Started, InLayer, BeforeKv, AfterKv, KvKernels
  <1>2. JobPart' /\ MemPart'
    BY <1>1, WriteKeeps, SamePass
  <1>3. \A l \in Layers : Passed(l)' <=> Passed(l)
    BY DEF Passed
  <1>4. KvPart'
    BY <1>1, <1>3, SameCache
  <1>5. Rows' = Rows /\ RowTokens' = RowTokens
    BY SameRows
  <1>6. HiddenPart'
    <2>1. HiddenPart
      BY DEF FwdInv
    <2> QED  BY <1>5, <2>1 DEF HiddenPart
  <1>7. ASSUME NEW v \in vs, NEW r \in Rows
        PROVE  Read(v, r)' = Val(make, layer, RowTokens[r + 1])
    <2>1. JobOK /\ MemPart /\ batch.rows \in Nat
      BY <1>1, PassOfInv
    <2>2. Read(v, r)' = tags[r]
      BY <1>1, <2>1, WriteThenRead
    <2> QED  BY <2>2
  <1> QED  BY <1>2, <1>4, <1>5, <1>6, <1>7

LEMMA OneOperand ==
  ASSUME NEW of, NEW make, NEW token, NEW x, x = Val(of, layer, token)
  PROVE  Compute(make, {<<x, of>>}) = Val(make, layer, token)
  <1> DEFINE ops == {<<x, of>>}
  <1>1. ops # {} /\ \A o \in ops : o[1] = Val(o[2], layer, token)
    OBVIOUS
  <1> HIDE DEF ops
  <1>2. Compute(make, ops) = Val(make, layer, token)
    BY <1>1, ComputeFacts
  <1> QED  BY <1>2 DEF ops

LEMMA TwoOperands ==
  ASSUME NEW of, NEW by, NEW make, NEW token, NEW x, NEW y,
         x = Val(of, layer, token), y = Val(by, layer, token)
  PROVE  Compute(make, {<<x, of>>, <<y, by>>}) = Val(make, layer, token)
  <1> DEFINE ops == {<<x, of>>, <<y, by>>}
  <1>1. ops # {} /\ \A o \in ops : o[1] = Val(o[2], layer, token)
    OBVIOUS
  <1> HIDE DEF ops
  <1>2. Compute(make, ops) = Val(make, layer, token)
    BY <1>1, ComputeFacts
  <1> QED  BY <1>2 DEF ops

(* A linear layer.                                                         *)
LEMMA LinearRows ==
  ASSUME JobOK, NEW x \in {"qHidden", "qMlp"}, NEW of, NEW make, Holds(WithScales(x), of), NEW r \in Rows
  PROVE  Compute(make, {<<Read(v, r), of>> : v \in WithScales(x)}) = Val(make, layer, RowTokens[r + 1])
  <1> DEFINE ops == {<<Read(v, r), of>> : v \in WithScales(x)}
  <1>1. \A o \in ops : o[1] = Val(o[2], layer, RowTokens[r + 1])
    BY DEF Holds
  <1>2. ops # {}
    <2>1. x \in WithScales(x)
      BY ScalesFacts
    <2>2. <<Read(x, r), of>> \in ops
      BY <2>1
    <2> QED  BY <2>2
  <1> HIDE DEF ops
  <1>3. Compute(make, ops) = Val(make, layer, RowTokens[r + 1])
    BY <1>1, <1>2, ComputeFacts
  <1> QED  BY <1>3 DEF ops

LEMMA LinearStep ==
  ASSUME FwdInv, pc \in InLayer, pc' \in InLayer, UNCHANGED <<job, done, batch, hidden, kv, layer>>,
         pc' \in AfterKv <=> pc \in AfterKv,
         pc' \in FirstHalf => pc \in FirstHalf, pc' \in SecondHalf => pc \in SecondHalf,
         NEW x \in {"qHidden", "qMlp"}, NEW of, NEW make, NEW out \in {"qkv", "outDown", "gateUp"},
         Holds(WithScales(x), of), Linear(x, of, out, make)
  PROVE  JobPart' /\ MemPart' /\ HiddenPart' /\ KvPart' /\ Holds({out}, make)'
  <1>1. JobOK
    BY DEF FwdInv, JobPart
  <1> DEFINE tags == [r \in Rows |-> Compute(make, {<<Read(v, r), of>> : v \in WithScales(x)})]
  <1>2. \A r \in Rows : tags[r] = Val(make, layer, RowTokens[r + 1])
    BY <1>1, LinearRows
  <1>3. Write({out}, tags)
    BY DEF Linear
  <1> HIDE DEF tags
  <1>4. {out} \in SUBSET Names /\ \A u, v \in {out} : View(u).in = View(v).in => u = v
    BY DEF Names
  <1>5. /\ JobPart' /\ MemPart' /\ HiddenPart' /\ KvPart'
        /\ \A v \in {out}, r \in Rows' : Read(v, r)' = Val(make, layer', RowTokens'[r + 1])
    BY <1>2, <1>3, <1>4, WriteStep
  <1> QED  BY <1>5 DEF Holds

(* A kernel that quantizes, with its scales.                               *)
LEMMA QuantizeStep ==
  ASSUME FwdInv, pc \in InLayer, pc' \in InLayer, UNCHANGED <<job, done, batch, hidden, kv, layer>>,
         pc' \in AfterKv <=> pc \in AfterKv,
         pc' \in FirstHalf => pc \in FirstHalf, pc' \in SecondHalf => pc \in SecondHalf,
         NEW x \in {"qHidden", "qMlp"}, NEW tags, NEW make, Write(WithScales(x), tags),
         \A r \in Rows : tags[r] = Val(make, layer, RowTokens[r + 1])
  PROVE  JobPart' /\ MemPart' /\ HiddenPart' /\ KvPart' /\ Holds(WithScales(x), make)'
  <1>1. /\ WithScales(x) \in SUBSET Names
        /\ \A u, v \in WithScales(x) : View(u).in = View(v).in => u = v
    BY ScalesFacts DEF FwdInv, JobPart
  <1>2. /\ JobPart' /\ MemPart' /\ HiddenPart' /\ KvPart'
        /\ \A v \in WithScales(x), r \in Rows' : Read(v, r)' = Val(make, layer', RowTokens'[r + 1])
    BY <1>1, WriteStep
  <1>3. WithScales(x)' = WithScales(x)
    BY DEF WithScales
  <1> QED  BY <1>2, <1>3 DEF Holds

LEMMA NormStep ==
  ASSUME FwdInv, pc \in InLayer, pc' \in InLayer, UNCHANGED <<job, done, batch, hidden, kv, layer>>,
         pc' \in AfterKv <=> pc \in AfterKv,
         pc' \in FirstHalf => pc \in FirstHalf, pc' \in SecondHalf => pc \in SecondHalf,
         NEW of, NEW make, hidden = [r \in Rows |-> Val(of, layer, RowTokens[r + 1])], Norm(of, make)
  PROVE  JobPart' /\ MemPart' /\ HiddenPart' /\ KvPart' /\ Holds(WithScales("qHidden"), make)'
  <1> DEFINE tags == [r \in Rows |-> Compute(make, {<<hidden[r], of>>})]
  <1>1. \A r \in Rows : tags[r] = Val(make, layer, RowTokens[r + 1])
    <2> SUFFICES ASSUME NEW r \in Rows PROVE tags[r] = Val(make, layer, RowTokens[r + 1])
      OBVIOUS
    <2>1. hidden[r] = Val(of, layer, RowTokens[r + 1])
      OBVIOUS
    <2>2. Compute(make, {<<hidden[r], of>>}) = Val(make, layer, RowTokens[r + 1])
      BY <2>1, OneOperand
    <2> QED  BY <2>2
  <1>2. Write(WithScales("qHidden"), tags)
    BY DEF Norm
  <1> HIDE DEF tags
  <1> QED  BY <1>1, <1>2, QuantizeStep

-----------------------------------------------------------------------------
(* The kernels of a layer, one by one: the hidden states and the buffers.  *)

LEMMA InputNormStep ==
  ASSUME FwdInv, InputNorm
  PROVE  FwdInv'
  <1>1. /\ pc = "inputNorm" /\ pc' = "qkvProj" /\ UNCHANGED <<job, done, batch, hidden, kv, layer>>
        /\ Norm("in", "norm1")
    BY DEF InputNorm, Goto
  <1>2. /\ pc \in InLayer /\ pc' \in InLayer /\ (pc' \in AfterKv <=> pc \in AfterKv)
        /\ (pc' \in FirstHalf => pc \in FirstHalf) /\ (pc' \in SecondHalf => pc \in SecondHalf)
    BY <1>1 DEF InLayer, BeforeKv, AfterKv, KvKernels, FirstHalf, SecondHalf
  <1>3. hidden = [r \in Rows |-> Val("in", layer, RowTokens[r + 1])]
    BY <1>1 DEF FwdInv, HiddenPart, FirstHalf, BeforeKv
  <1>4. JobPart' /\ MemPart' /\ HiddenPart' /\ KvPart' /\ Holds(WithScales("qHidden"), "norm1")'
    BY <1>1, <1>2, <1>3, NormStep
  <1>5. ControlPart'
    BY <1>1 DEF FwdInv, ControlPart, InLayer, BeforeKv, AfterKv, KvKernels
  <1>6. BufferPart'
    BY <1>1, <1>4 DEF BufferPart, KvKernels
  <1>7. SampledFromLast'
    BY <1>1 DEF SampledFromLast
  <1> QED  BY <1>4, <1>5, <1>6, <1>7 DEF FwdInv

LEMMA OProjStep ==
  ASSUME FwdInv, OProj
  PROVE  FwdInv'
  <1>1. /\ pc = "oProj" /\ pc' = "addAttn" /\ UNCHANGED <<job, done, batch, hidden, kv, layer>>
        /\ Linear("qHidden", "quant", "outDown", "o")
    BY DEF OProj, Goto
  <1>2. /\ pc \in InLayer /\ pc' \in InLayer /\ (pc' \in AfterKv <=> pc \in AfterKv)
        /\ (pc' \in FirstHalf => pc \in FirstHalf) /\ (pc' \in SecondHalf => pc \in SecondHalf)
    BY <1>1 DEF InLayer, BeforeKv, AfterKv, KvKernels, FirstHalf, SecondHalf
  <1>3. Holds(WithScales("qHidden"), "quant")
    BY <1>1 DEF FwdInv, BufferPart
  <1>4. JobPart' /\ MemPart' /\ HiddenPart' /\ KvPart' /\ Holds({"outDown"}, "o")'
    BY <1>1, <1>2, <1>3, LinearStep
  <1>5. ControlPart'
    BY <1>1 DEF FwdInv, ControlPart, InLayer, BeforeKv, AfterKv, KvKernels
  <1>6. BufferPart'
    BY <1>1, <1>4 DEF BufferPart, KvKernels
  <1>7. SampledFromLast'
    BY <1>1 DEF SampledFromLast
  <1> QED  BY <1>4, <1>5, <1>6, <1>7 DEF FwdInv

LEMMA PostNormStep ==
  ASSUME FwdInv, PostNorm
  PROVE  FwdInv'
  <1>1. /\ pc = "postNorm" /\ pc' = "gateUp" /\ UNCHANGED <<job, done, batch, hidden, kv, layer>>
        /\ Norm("mid", "norm2")
    BY DEF PostNorm, Goto
  <1>2. /\ pc \in InLayer /\ pc' \in InLayer /\ (pc' \in AfterKv <=> pc \in AfterKv)
        /\ (pc' \in FirstHalf => pc \in FirstHalf) /\ (pc' \in SecondHalf => pc \in SecondHalf)
    BY <1>1 DEF InLayer, BeforeKv, AfterKv, KvKernels, FirstHalf, SecondHalf
  <1>3. hidden = [r \in Rows |-> Val("mid", layer, RowTokens[r + 1])]
    BY <1>1 DEF FwdInv, HiddenPart, SecondHalf, BeforeKv
  <1>4. JobPart' /\ MemPart' /\ HiddenPart' /\ KvPart' /\ Holds(WithScales("qHidden"), "norm2")'
    BY <1>1, <1>2, <1>3, NormStep
  <1>5. ControlPart'
    BY <1>1 DEF FwdInv, ControlPart, InLayer, BeforeKv, AfterKv, KvKernels
  <1>6. BufferPart'
    BY <1>1, <1>4 DEF BufferPart, KvKernels
  <1>7. SampledFromLast'
    BY <1>1 DEF SampledFromLast
  <1> QED  BY <1>4, <1>5, <1>6, <1>7 DEF FwdInv

LEMMA GateUpProjStep ==
  ASSUME FwdInv, GateUpProj
  PROVE  FwdInv'
  <1>1. /\ pc = "gateUp" /\ pc' = "actFn" /\ UNCHANGED <<job, done, batch, hidden, kv, layer>>
        /\ Linear("qHidden", "norm2", "gateUp", "gateUp")
    BY DEF GateUpProj, Goto
  <1>2. /\ pc \in InLayer /\ pc' \in InLayer /\ (pc' \in AfterKv <=> pc \in AfterKv)
        /\ (pc' \in FirstHalf => pc \in FirstHalf) /\ (pc' \in SecondHalf => pc \in SecondHalf)
    BY <1>1 DEF InLayer, BeforeKv, AfterKv, KvKernels, FirstHalf, SecondHalf
  <1>3. Holds(WithScales("qHidden"), "norm2")
    BY <1>1 DEF FwdInv, BufferPart
  <1>4. JobPart' /\ MemPart' /\ HiddenPart' /\ KvPart' /\ Holds({"gateUp"}, "gateUp")'
    BY <1>1, <1>2, <1>3, LinearStep
  <1>5. ControlPart'
    BY <1>1 DEF FwdInv, ControlPart, InLayer, BeforeKv, AfterKv, KvKernels
  <1>6. BufferPart'
    BY <1>1, <1>4 DEF BufferPart, KvKernels
  <1>7. SampledFromLast'
    BY <1>1 DEF SampledFromLast
  <1> QED  BY <1>4, <1>5, <1>6, <1>7 DEF FwdInv

LEMMA DownProjStep ==
  ASSUME FwdInv, DownProj
  PROVE  FwdInv'
  <1>1. /\ pc = "downProj" /\ pc' = "addMlp" /\ UNCHANGED <<job, done, batch, hidden, kv, layer>>
        /\ Linear("qMlp", "act", "outDown", "down")
    BY DEF DownProj, Goto
  <1>2. /\ pc \in InLayer /\ pc' \in InLayer /\ (pc' \in AfterKv <=> pc \in AfterKv)
        /\ (pc' \in FirstHalf => pc \in FirstHalf) /\ (pc' \in SecondHalf => pc \in SecondHalf)
    BY <1>1 DEF InLayer, BeforeKv, AfterKv, KvKernels, FirstHalf, SecondHalf
  <1>3. Holds(WithScales("qMlp"), "act")
    BY <1>1 DEF FwdInv, BufferPart
  <1>4. JobPart' /\ MemPart' /\ HiddenPart' /\ KvPart' /\ Holds({"outDown"}, "down")'
    BY <1>1, <1>2, <1>3, LinearStep
  <1>5. ControlPart'
    BY <1>1 DEF FwdInv, ControlPart, InLayer, BeforeKv, AfterKv, KvKernels
  <1>6. BufferPart'
    BY <1>1, <1>4 DEF BufferPart, KvKernels
  <1>7. SampledFromLast'
    BY <1>1 DEF SampledFromLast
  <1> QED  BY <1>4, <1>5, <1>6, <1>7 DEF FwdInv

LEMMA QkvProjStep ==
  ASSUME FwdInv, QkvProj
  PROVE  FwdInv'
  <1>1. /\ pc = "qkvProj" /\ pc' = IF batch.prompt THEN "updateKv" ELSE "singleQuery"
        /\ UNCHANGED <<job, done, batch, hidden, kv, layer>>
        /\ Linear("qHidden", "norm1", "qkv", "qkv")
    BY DEF QkvProj, Goto
  <1>2. /\ pc \in InLayer /\ pc' \in InLayer /\ (pc' \in AfterKv <=> pc \in AfterKv)
        /\ (pc' \in FirstHalf => pc \in FirstHalf) /\ (pc' \in SecondHalf => pc \in SecondHalf)
    BY <1>1 DEF InLayer, BeforeKv, AfterKv, KvKernels, FirstHalf, SecondHalf
  <1>3. Holds(WithScales("qHidden"), "norm1")
    BY <1>1 DEF FwdInv, BufferPart
  <1>4. JobPart' /\ MemPart' /\ HiddenPart' /\ KvPart' /\ Holds({"qkv"}, "qkv")'
    BY <1>1, <1>2, <1>3, LinearStep
  <1>5. ControlPart'
    <2>1. PassOK
      BY <1>2, PassOfInv DEF Started, InLayer, BeforeKv, AfterKv, KvKernels
    <2> QED  BY <1>1, <2>1 DEF FwdInv, ControlPart, InLayer, BeforeKv, AfterKv, KvKernels, PassOK
  <1>6. BufferPart'
    BY <1>1, <1>4 DEF BufferPart, KvKernels
  <1>7. SampledFromLast'
    BY <1>1 DEF SampledFromLast
  <1> QED  BY <1>4, <1>5, <1>6, <1>7 DEF FwdInv

LEMMA QuantizeAttentionStep ==
  ASSUME FwdInv, QuantizeAttention
  PROVE  FwdInv'
  <1> DEFINE tags == [r \in Rows |-> Compute("quant", {<<attn[r], "attn">>})]
  <1>1. /\ pc = "quant" /\ pc' = "oProj" /\ UNCHANGED <<job, done, batch, hidden, kv, layer>>
        /\ Write(WithScales("qHidden"), tags)
    BY DEF QuantizeAttention, Goto
  <1>2. /\ pc \in InLayer /\ pc' \in InLayer /\ (pc' \in AfterKv <=> pc \in AfterKv)
        /\ (pc' \in FirstHalf => pc \in FirstHalf) /\ (pc' \in SecondHalf => pc \in SecondHalf)
    BY <1>1 DEF InLayer, BeforeKv, AfterKv, KvKernels, FirstHalf, SecondHalf
  <1>3. attn = [r \in Rows |-> Val("attn", layer, RowTokens[r + 1])]
    BY <1>1 DEF FwdInv, BufferPart
  <1>r. ASSUME NEW r \in Rows
        PROVE  tags[r] = Val("quant", layer, RowTokens[r + 1])
    <2>1. attn[r] = Val("attn", layer, RowTokens[r + 1])
      BY <1>3
    <2>2. Compute("quant", {<<attn[r], "attn">>}) = Val("quant", layer, RowTokens[r + 1])
      BY <2>1, OneOperand
    <2> QED  BY <2>2
  <1> HIDE DEF tags
  <1>4. JobPart' /\ MemPart' /\ HiddenPart' /\ KvPart' /\ Holds(WithScales("qHidden"), "quant")'
    BY <1>1, <1>2, <1>r, QuantizeStep
  <1>5. ControlPart'
    BY <1>1 DEF FwdInv, ControlPart, InLayer, BeforeKv, AfterKv, KvKernels
  <1>6. BufferPart'
    BY <1>1, <1>4 DEF BufferPart, KvKernels
  <1>7. SampledFromLast'
    BY <1>1 DEF SampledFromLast
  <1> QED  BY <1>4, <1>5, <1>6, <1>7 DEF FwdInv

LEMMA ActFnStep ==
  ASSUME FwdInv, ActFn
  PROVE  FwdInv'
  <1> DEFINE tags == [r \in Rows |-> Compute("act", {<<Read("gateUp", r), "gateUp">>})]
  <1>1. /\ pc = "actFn" /\ pc' = "downProj" /\ UNCHANGED <<job, done, batch, hidden, kv, layer>>
        /\ Write(WithScales("qMlp"), tags)
    BY DEF ActFn, Goto
  <1>2. /\ pc \in InLayer /\ pc' \in InLayer /\ (pc' \in AfterKv <=> pc \in AfterKv)
        /\ (pc' \in FirstHalf => pc \in FirstHalf) /\ (pc' \in SecondHalf => pc \in SecondHalf)
    BY <1>1 DEF InLayer, BeforeKv, AfterKv, KvKernels, FirstHalf, SecondHalf
  <1>3. Holds({"gateUp"}, "gateUp")
    BY <1>1 DEF FwdInv, BufferPart
  <1>r. ASSUME NEW r \in Rows
        PROVE  tags[r] = Val("act", layer, RowTokens[r + 1])
    <2>1. Read("gateUp", r) = Val("gateUp", layer, RowTokens[r + 1])
      BY <1>3 DEF Holds
    <2>2. Compute("act", {<<Read("gateUp", r), "gateUp">>}) = Val("act", layer, RowTokens[r + 1])
      BY <2>1, OneOperand
    <2> QED  BY <2>2
  <1> HIDE DEF tags
  <1>4. JobPart' /\ MemPart' /\ HiddenPart' /\ KvPart' /\ Holds(WithScales("qMlp"), "act")'
    BY <1>1, <1>2, <1>r, QuantizeStep
  <1>5. ControlPart'
    BY <1>1 DEF FwdInv, ControlPart, InLayer, BeforeKv, AfterKv, KvKernels
  <1>6. BufferPart'
    BY <1>1, <1>4 DEF BufferPart, KvKernels
  <1>7. SampledFromLast'
    BY <1>1 DEF SampledFromLast
  <1> QED  BY <1>4, <1>5, <1>6, <1>7 DEF FwdInv

(* The residuals.                                                          *)
LEMMA ResidualRows ==
  ASSUME NEW of, NEW out, NEW make, hidden = [r \in Rows |-> Val(of, layer, RowTokens[r + 1])],
         Holds({"outDown"}, out), NEW r \in Rows
  PROVE  Compute(make, {<<hidden[r], of>>, <<Read("outDown", r), out>>}) = Val(make, layer, RowTokens[r + 1])
  <1>1. hidden[r] = Val(of, layer, RowTokens[r + 1])
    OBVIOUS
  <1>2. Read("outDown", r) = Val(out, layer, RowTokens[r + 1])
    BY DEF Holds
  <1> QED  BY <1>1, <1>2, TwoOperands

LEMMA AddAttentionStep ==
  ASSUME FwdInv, AddAttention
  PROVE  FwdInv'
  <1>1. /\ pc = "addAttn" /\ pc' = "postNorm" /\ UNCHANGED <<job, done, batch, mem, kv, layer>>
        /\ hidden' = [r \in Rows |-> Compute("mid", {<<hidden[r], "in">>, <<Read("outDown", r), "o">>})]
    BY DEF AddAttention, AddResidual, Goto
  <1>2. Started /\ Started' /\ \A l \in Layers : Passed(l)' <=> Passed(l)
    BY <1>1 DEF Started, Passed, AfterKv
  <1>3. hidden = [r \in Rows |-> Val("in", layer, RowTokens[r + 1])] /\ Holds({"outDown"}, "o")
    BY <1>1 DEF FwdInv, HiddenPart, BufferPart, FirstHalf
  <1>4. \A r \in Rows : Compute("mid", {<<hidden[r], "in">>, <<Read("outDown", r), "o">>})
                          = Val("mid", layer, RowTokens[r + 1])
    BY <1>3, ResidualRows
  <1>5. hidden' = [r \in Rows |-> Val("mid", layer, RowTokens[r + 1])]
    BY <1>1, <1>4
  <1>6. JobPart' /\ MemPart' /\ KvPart'
    <2>1. DOMAIN mem' = DOMAIN mem /\ \A b \in DOMAIN mem : DOMAIN mem'[b] = DOMAIN mem[b]
      BY <1>1
    <2> QED  BY <1>1, <1>2, <2>1, SamePass, SameCache
  <1>7. HiddenPart'
    <2>1. Rows' = Rows /\ RowTokens' = RowTokens /\ layer' = layer
      BY <1>1, SameRows
    <2> QED  BY <1>1, <1>5, <2>1 DEF HiddenPart, FirstHalf, BeforeKv, KvKernels
  <1>8. ControlPart'
    BY <1>1 DEF FwdInv, ControlPart, InLayer, BeforeKv, AfterKv, KvKernels
  <1>9. BufferPart'
    BY <1>1 DEF BufferPart, KvKernels
  <1>10. SampledFromLast'
    BY <1>1 DEF SampledFromLast
  <1> QED  BY <1>6, <1>7, <1>8, <1>9, <1>10 DEF FwdInv

LEMMA AddMlpStep ==
  ASSUME FwdInv, AddMlp
  PROVE  FwdInv'
  <1> DEFINE x(r) == Compute("in", {<<hidden[r], "mid">>, <<Read("outDown", r), "down">>})
  <1>1. /\ pc = "addMlp" /\ pc' = IF layer = NumLayers THEN "lmHead" ELSE "inputNorm"
        /\ UNCHANGED <<job, done, batch, mem, kv>> /\ layer' = layer + 1
        /\ hidden' = [r \in Rows |-> IF x(r) = Garbage THEN x(r) ELSE Val("in", layer + 1, x(r).token)]
    BY DEF AddMlp
  <1>2. layer \in Layers /\ layer \in Nat /\ layer <= NumLayers /\ NumLayers \in Nat /\ Layers = 1 .. NumLayers
    <2>1. layer \in Layers
      BY <1>1 DEF FwdInv, ControlPart, InLayer, AfterKv
    <2> QED  BY <2>1, ForwardAssumption DEF Layers
  <1>3. Started /\ Started'
    BY <1>1 DEF Started
  <1>4. \A l \in Layers : Passed(l)' <=> Passed(l)
    <2> SUFFICES ASSUME NEW l \in Layers PROVE Passed(l)' <=> Passed(l)
      OBVIOUS
    <2>1. pc \in AfterKv /\ pc' \notin AfterKv
      BY <1>1 DEF AfterKv
    <2>2. l \in Nat /\ (l < layer + 1 <=> (l < layer \/ l = layer))
      BY <1>2
    <2> QED  BY <1>1, <2>1, <2>2 DEF Passed
  <1>5. hidden = [r \in Rows |-> Val("mid", layer, RowTokens[r + 1])] /\ Holds({"outDown"}, "down")
    BY <1>1 DEF FwdInv, HiddenPart, BufferPart, SecondHalf
  <1>6. ASSUME NEW r \in Rows
        PROVE  hidden'[r] = Val("in", layer + 1, RowTokens[r + 1])
    <2>1. x(r) = Val("in", layer, RowTokens[r + 1])
      BY <1>5, ResidualRows
    <2>2. x(r) # Garbage /\ x(r).token = RowTokens[r + 1]
      <3>1. Val("in", layer, RowTokens[r + 1]).of = "in" /\ Garbage.of = "garbage"
            /\ Val("in", layer, RowTokens[r + 1]).token = RowTokens[r + 1]
        BY DEF Val, Garbage
      <3> HIDE DEF x
      <3> QED  BY <2>1, <3>1
    <2> HIDE DEF x
    <2> QED  BY <1>1, <2>2
  <1> HIDE DEF x
  <1>7. hidden' = [r \in Rows |-> Val("in", layer + 1, RowTokens[r + 1])]
    BY <1>1, <1>6
  <1>8. JobPart' /\ MemPart' /\ KvPart'
    <2>1. DOMAIN mem' = DOMAIN mem /\ \A b \in DOMAIN mem : DOMAIN mem'[b] = DOMAIN mem[b]
      BY <1>1
    <2> QED  BY <1>1, <1>3, <1>4, <2>1, SamePass, SameCache
  <1>9. HiddenPart'
    <2>1. Rows' = Rows /\ RowTokens' = RowTokens
      BY <1>1, SameRows
    <2>2. pc' \notin SecondHalf
      BY <1>1 DEF SecondHalf
    <2> QED  BY <1>1, <1>7, <2>1, <2>2 DEF HiddenPart
  <1>10. ControlPart'
    <2>1. layer = NumLayers => layer' = NumLayers + 1
      BY <1>1
    <2>2. layer # NumLayers => layer' \in Layers
      BY <1>1, <1>2
    <2>3. CASE layer = NumLayers
      BY <1>1, <2>1, <2>3 DEF ControlPart, InLayer, BeforeKv, AfterKv, KvKernels
    <2>4. CASE layer # NumLayers
      BY <1>1, <2>2, <2>4 DEF ControlPart, InLayer, BeforeKv, AfterKv, KvKernels
    <2> QED  BY <2>3, <2>4
  <1>11. BufferPart'
    BY <1>1 DEF BufferPart, KvKernels
  <1>12. SampledFromLast'
    BY <1>1 DEF SampledFromLast
  <1> QED  BY <1>8, <1>9, <1>10, <1>11, <1>12 DEF FwdInv
-----------------------------------------------------------------------------
(* The attention kernels and the cache.                                    *)

LEMMA ValFacts ==
  ASSUME NEW of, NEW l, NEW t, of # "garbage"
  PROVE  Val(of, l, t) # Garbage /\ Val(of, l, t).token = t
  <1>1. Val(of, l, t).of = of /\ Garbage.of = "garbage" /\ Val(of, l, t).token = t
    BY DEF Val, Garbage
  <1> QED  BY <1>1

LEMMA AttendFacts ==
  ASSUME JobOK, NEW s \in SeqIds, ContextLen(s) \in Nat, NEW p \in 0 .. ContextLen(s) - 1,
         NEW query, query.token = TokenAt(s, p),
         NEW seen, \A q \in 0 .. p : seen[q] = Val("rope", layer, TokenAt(s, q))
  PROVE  Attend(query, seen) = Val("attn", layer, TokenAt(s, p))
  <1>1. query.token[1] = s
    BY TokensOwner
  <1>2. p \in Nat /\ \A q \in 0 .. ContextLen(s) - 1 : q \in Nat
    OBVIOUS
  <1>3. \A q \in 0 .. ContextLen(s) - 1 : TokenAt(s, q) = query.token => q = p
    BY <1>2, TokensDiffer
  <1>4. (CHOOSE q \in 0 .. ContextLen(s) - 1 : TokenAt(s, q) = query.token) = p
    BY <1>3
  <1> QED  BY <1>1, <1>4 DEF Attend

(* The tokens of the batch go where their sequences' tables say, those of  *)
(* other sequences stay.                                                   *)
FillsBatch(new) ==
  \A b \in 1 .. NB : \A pos \in 0 .. batch.context[b] - 1 :
    new[Cell(batch.seqs[b], pos)[1]][Cell(batch.seqs[b], pos)[2]]
      = Val("rope", layer, TokenAt(batch.seqs[b], pos))
KeepsOthers(new) ==
  \A s \in SeqIds \ BatchSeqs : \A pos \in 0 .. CachedLen(layer, s) - 1 :
    new[Cell(s, pos)[1]][Cell(s, pos)[2]] = kv[layer][Cell(s, pos)[1]][Cell(s, pos)[2]]

LEMMA CacheStep ==
  ASSUME FwdInv, pc \in KvKernels, pc' \in {"flashAttn", "quant"},
         UNCHANGED <<job, done, batch, layer>>,
         NEW new, kv' = [kv EXCEPT ![layer] = new],
         FillsBatch(new), KeepsOthers(new)
  PROVE  KvPart'
  <1>1. Started /\ Started' /\ layer \in Layers /\ pc \notin AfterKv /\ pc' \in AfterKv
    BY DEF Started, KvKernels, AfterKv, FwdInv, ControlPart, InLayer, BeforeKv
  <1>2. kv' = [l \in Layers |-> IF l = layer THEN new ELSE kv[l]]
    BY DEF FwdInv, KvPart
  <1>3. kv' = [l \in Layers |-> kv'[l]]
    BY <1>2
  <1>4. layer \in Nat /\ ~ (layer < layer)
    BY <1>1, ForwardAssumption DEF Layers
  <1>5. ASSUME NEW l \in Layers, NEW s \in SeqIds, NEW pos \in 0 .. CachedLen(l, s)' - 1
        PROVE  kv'[l][Cell(s, pos)[1]][Cell(s, pos)[2]] = Val("rope", l, TokenAt(s, pos))
    <2>1. ContextLen(s)' = ContextLen(s) /\ BatchSeqs' = BatchSeqs
      BY DEF ContextLen, PromptLen, ImageExtra, BatchSeqs, NB
    <2>2. \A q \in 0 .. CachedLen(l, s) - 1 :
            kv[l][Cell(s, q)[1]][Cell(s, q)[2]] = Val("rope", l, TokenAt(s, q))
      BY DEF FwdInv, KvPart, Cell
    <2>3. CASE l # layer
      <3>1. Passed(l)' <=> Passed(l)
        BY <2>3 DEF Passed
      <3>2. CachedLen(l, s)' = CachedLen(l, s)
        BY <1>1, <2>1, <3>1 DEF CachedLen
      <3> QED  BY <1>2, <2>2, <2>3, <3>2
    <2>4. CASE l = layer /\ s \notin BatchSeqs
      <3>1. CachedLen(l, s)' = CachedLen(l, s)
        BY <2>1, <2>4 DEF CachedLen
      <3> QED  BY <1>2, <2>2, <2>4, <3>1 DEF KeepsOthers
    <2>5. CASE l = layer /\ s \in BatchSeqs
      <3>1. PICK b \in 1 .. NB : s = batch.seqs[b]
        BY <2>5 DEF BatchSeqs
      <3>2. CachedLen(l, s)' = ContextLen(s)
        BY <1>1, <2>1, <2>5 DEF CachedLen, Passed
      <3>3. batch.context[b] = ContextLen(s)
        BY <1>1, <3>1, PassOfInv, PassFacts
      <3> QED  BY <1>2, <2>5, <3>1, <3>2, <3>3 DEF FillsBatch
    <2> QED  BY <2>3, <2>4, <2>5
  <1>6. ASSUME NEW l \in Layers, NEW s \in SeqIds, NEW pos \in 0 .. CachedLen(l, s)' - 1
        PROVE  kv'[l][Tables[s][1 + pos \div BlockSize]][pos % BlockSize] = Val("rope", l, TokenAt(s, pos)')
    <2>1. TokenAt(s, pos)' = TokenAt(s, pos)
      BY DEF TokenAt
    <2> QED  BY <1>5, <2>1 DEF Cell
  <1> QED  BY <1>3, <1>6 DEF KvPart

(* Cells of the batch's positions, and of what is cached of others.        *)
LEMMA BatchCells ==
  ASSUME FwdInv, Started
  PROVE  /\ \A b \in 1 .. NB : /\ batch.seqs[b] \in SeqIds /\ batch.seqs[b] \in BatchSeqs
                               /\ batch.context[b] \in Nat \ {0} /\ batch.context[b] <= Room(batch.seqs[b])
                               /\ batch.context[b] = ContextLen(batch.seqs[b]) /\ Room(batch.seqs[b]) \in Nat
         /\ \A s \in SeqIds : Room(s) \in Nat
         /\ \A s \in SeqIds \ BatchSeqs : \A pos \in 0 .. CachedLen(layer, s) - 1 : pos \in Nat /\ pos < Room(s)
  <1>0. JobOK /\ PassOK /\ done \in [SeqIds -> 0 .. MaxGenerated] /\ AllImages
    BY PassOfInv
  <1>1. ASSUME NEW b \in 1 .. NB
        PROVE  /\ batch.seqs[b] \in SeqIds /\ batch.seqs[b] \in BatchSeqs
               /\ batch.context[b] \in Nat \ {0} /\ batch.context[b] <= Room(batch.seqs[b])
               /\ batch.context[b] = ContextLen(batch.seqs[b]) /\ Room(batch.seqs[b]) \in Nat
    <2>1. batch.seqs[b] \in SeqIds /\ batch.context[b] = ContextLen(batch.seqs[b])
      BY <1>0, PassFacts
    <2>2. done[batch.seqs[b]] < MaxGenerated
      <3>1. MaxGenerated \in Nat \ {0}
        BY ForwardAssumption
      <3> QED  BY <1>0, <3>1 DEF PassOK
    <2>3. ContextLen(batch.seqs[b]) \in Nat \ {0} /\ ContextLen(batch.seqs[b]) <= Room(batch.seqs[b])
          /\ Room(batch.seqs[b]) \in Nat
      BY <1>0, <2>1, <2>2, RoomForAll
    <2> QED  BY <2>1, <2>3 DEF BatchSeqs
  <1>2. ASSUME NEW s \in SeqIds \ BatchSeqs, NEW pos \in 0 .. CachedLen(layer, s) - 1
        PROVE  pos \in Nat /\ pos < Room(s)
    <2>1. CachedLen(layer, s) = IF done[s] = 0 THEN 0 ELSE ContextLen(s) - 1
      BY DEF CachedLen
    <2>2. ContextLen(s) \in Nat \ {0} /\ ContextLen(s) - 1 <= Room(s) /\ Room(s) \in Nat
      BY <1>0, RoomForAll
    <2> QED  BY <2>1, <2>2
  <1>3. \A s \in SeqIds : Room(s) \in Nat
    BY <1>0, RoomForAll
  <1> QED  BY <1>1, <1>2, <1>3

LEMMA RotatedRows ==
  ASSUME FwdInv, pc = "updateKv", NEW r \in Rows
  PROVE  Rotated(r) = Val("rope", layer, RowTokens[r + 1])
  <1>1. Started /\ batch.prompt
    BY DEF Started, FwdInv, ControlPart
  <1>2. PICK p : /\ RowTokens[r + 1] = TokenAt(batch.seqs[SeqOfRow(r)], p) /\ PosOf(r) = p
    BY <1>1, PassOfInv, RowFacts
  <1>3. Read("qkv", r) = Val("qkv", layer, RowTokens[r + 1])
    BY DEF FwdInv, BufferPart, KvKernels, Holds
  <1>4. PICK x : x = Compute("rope", {<<Read("qkv", r), "qkv">>})
    OBVIOUS
  <1>5. x = Val("rope", layer, RowTokens[r + 1])
    BY <1>3, <1>4, OneOperand
  <1>6. x # Garbage /\ x.token = RowTokens[r + 1]
    BY <1>5, ValFacts
  <1>7. x.token[1] = batch.seqs[SeqOfRow(r)]
    BY <1>2, <1>6, TokensOwner
  <1>8. TokenAt(x.token[1], PosOf(r)) = x.token
    BY <1>2, <1>6, <1>7
  <1> QED  BY <1>4, <1>5, <1>6, <1>8 DEF Rotated

(* The row whose keys and values go to a cell.                             *)
LEMMA RowOfCell ==
  ASSUME FwdInv, Started, batch.prompt, NEW s \in SeqIds, NEW pos \in Nat, pos < Room(s),
         NEW r \in Rows, Slot(BatchOf(r), PosOf(r)) = Cell(s, pos)
  PROVE  \E b \in 1 .. NB : s = batch.seqs[b] /\ r = batch.cuSeqlens[b] + pos
  <1>0. JobOK /\ PassOK /\ done \in [SeqIds -> 0 .. MaxGenerated]
    BY PassOfInv
  <1>1. PICK b \in 1 .. NB : b = SeqOfRow(r)
    BY <1>0, RowFacts
  <1>2. PICK p \in 0 .. batch.context[b] - 1 :
             r = batch.cuSeqlens[b] + p /\ BatchOf(r) = b /\ PosOf(r) = p
    BY <1>0, <1>1, RowFacts
  <1>3. Slot(b, p) = Cell(batch.seqs[b], p)
    BY <1>0, SlotIsCell
  <1>4. batch.seqs[b] \in SeqIds /\ p \in Nat /\ p < Room(batch.seqs[b])
    <2>1. /\ batch.seqs[b] \in SeqIds /\ batch.context[b] \in Nat \ {0}
          /\ batch.context[b] <= Room(batch.seqs[b]) /\ Room(batch.seqs[b]) \in Nat
      BY BatchCells
    <2> QED  BY <2>1
  <1>5. batch.seqs[b] = s /\ p = pos
    BY <1>2, <1>3, <1>4, CellsDiffer
  <1> QED  BY <1>2, <1>5

LEMMA UpdateKvCacheStep ==
  ASSUME FwdInv, UpdateKvCache
  PROVE  FwdInv'
  <1> DEFINE tags == [r \in Rows |-> Rotated(r)]
             here(b, o) == {r \in Rows : Slot(BatchOf(r), PosOf(r)) = <<b, o>>}
             new == [b \in Blocks |-> [o \in 0 .. BlockSize - 1 |->
                       IF here(b, o) = {} THEN kv[layer][b][o]
                       ELSE IF Cardinality(here(b, o)) > 1 THEN Garbage
                       ELSE Rotated(CHOOSE r \in here(b, o) : TRUE)]]
  <1>1. /\ pc = "updateKv" /\ pc' = "flashAttn" /\ UNCHANGED <<job, done, batch, hidden, attn, logits, layer>>
        /\ Write({"qkv"}, tags) /\ kv' = [kv EXCEPT ![layer] = new]
    BY DEF UpdateKvCache, Goto, Cache
  <1>2. Started /\ Started' /\ batch.prompt
    BY <1>1 DEF Started, FwdInv, ControlPart
  <1>3. JobOK /\ PassOK /\ done \in [SeqIds -> 0 .. MaxGenerated] /\ MemPart /\ batch.rows \in Nat
    BY <1>2, PassOfInv
  <1>4. \A r \in Rows : Rotated(r) = Val("rope", layer, RowTokens[r + 1])
    BY <1>1, RotatedRows
  <1>5. \A r \in Rows : tags[r] = Val("rope", layer, RowTokens[r + 1])
    BY <1>4
  <1>6. ASSUME NEW b \in 1 .. NB, NEW pos \in 0 .. batch.context[b] - 1
        PROVE  new[Cell(batch.seqs[b], pos)[1]][Cell(batch.seqs[b], pos)[2]]
                 = Val("rope", layer, TokenAt(batch.seqs[b], pos))
    <2>1. PICK s \in SeqIds : s = batch.seqs[b]
      BY <1>3, PassFacts
    <2>2. pos \in Nat /\ pos < Room(s)
      <3>1. batch.context[b] \in Nat \ {0} /\ batch.context[b] <= Room(s) /\ Room(s) \in Nat
        BY <1>2, <2>1, BatchCells
      <3> QED  BY <3>1
    <2>3. PICK k \in Blocks, o \in 0 .. BlockSize - 1 : Cell(s, pos) = <<k, o>>
      <3>1. Cell(s, pos)[1] \in Blocks /\ Cell(s, pos)[2] \in 0 .. BlockSize - 1
        BY <2>2, CellFacts
      <3>2. Cell(s, pos) = <<Cell(s, pos)[1], Cell(s, pos)[2]>>
        BY DEF Cell
      <3> QED  BY <3>1, <3>2
    <2>4. PICK r : r = batch.cuSeqlens[b] + pos
      OBVIOUS
    <2>5. r \in Rows /\ SeqOfRow(r) = b /\ RowTokens[r + 1] = TokenAt(s, pos)
      BY <1>2, <1>3, <2>1, <2>4, RowAt
    <2>6. Slot(BatchOf(r), PosOf(r)) = Cell(s, pos)
      <3>1. PICK p \in 0 .. batch.context[b] - 1 :
                 r = batch.cuSeqlens[b] + p /\ BatchOf(r) = b /\ PosOf(r) = p
        BY <1>2, <1>3, <2>5, RowFacts
      <3>2. p = pos
        <4>1. batch.cuSeqlens[b] \in Nat /\ batch.context[b] \in Nat
          BY <1>2, <1>3, RowAt, PassFacts
        <4> QED  BY <2>4, <3>1, <4>1
      <3>3. Slot(b, pos) = Cell(batch.seqs[b], pos)
        BY <1>3, SlotIsCell
      <3> QED  BY <2>1, <3>1, <3>2, <3>3
    <2>7. ASSUME NEW q \in Rows, Slot(BatchOf(q), PosOf(q)) = Cell(s, pos)
          PROVE  q = r
      <3>1. PICK c \in 1 .. NB : s = batch.seqs[c] /\ q = batch.cuSeqlens[c] + pos
        BY <1>2, <2>2, <2>7, RowOfCell
      <3>2. c = b
        BY <1>3, <2>1, <3>1, PassFacts
      <3> QED  BY <2>4, <3>1, <3>2
    <2>8. here(k, o) = {r}
      BY <2>3, <2>5, <2>6, <2>7
    <2>9. Cardinality({r}) = 1 /\ ~ (1 > 1) /\ {r} # {} /\ (CHOOSE q \in {r} : TRUE) = r
      <3>1. Cardinality({r}) = 1
        BY FS_Singleton
      <3> QED  BY <3>1
    <2>10. new[k][o] = Rotated(r)
      <3>1. new[k][o] = IF here(k, o) = {} THEN kv[layer][k][o]
                        ELSE IF Cardinality(here(k, o)) > 1 THEN Garbage
                        ELSE Rotated(CHOOSE q \in here(k, o) : TRUE)
        BY <2>3
      <3> HIDE DEF here, new
      <3> QED  BY <2>8, <2>9, <3>1
    <2>11. Cell(s, pos)[1] = k /\ Cell(s, pos)[2] = o
      BY <2>3
    <2> HIDE DEF new, here
    <2> QED  BY <1>4, <2>1, <2>5, <2>10, <2>11
  <1>7. ASSUME NEW s \in SeqIds \ BatchSeqs, NEW pos \in 0 .. CachedLen(layer, s) - 1
        PROVE  new[Cell(s, pos)[1]][Cell(s, pos)[2]] = kv[layer][Cell(s, pos)[1]][Cell(s, pos)[2]]
    <2>1. pos \in Nat /\ pos < Room(s)
      BY <1>2, BatchCells
    <2>2. PICK k \in Blocks, o \in 0 .. BlockSize - 1 : Cell(s, pos) = <<k, o>>
      <3>1. Cell(s, pos)[1] \in Blocks /\ Cell(s, pos)[2] \in 0 .. BlockSize - 1
        BY <2>1, CellFacts
      <3>2. Cell(s, pos) = <<Cell(s, pos)[1], Cell(s, pos)[2]>>
        BY DEF Cell
      <3> QED  BY <3>1, <3>2
    <2>3. ASSUME NEW q \in Rows, Slot(BatchOf(q), PosOf(q)) = Cell(s, pos)
          PROVE  FALSE
      <3>1. PICK c \in 1 .. NB : s = batch.seqs[c]
        BY <1>2, <2>1, <2>3, RowOfCell
      <3> QED  BY <3>1 DEF BatchSeqs
    <2>4. here(k, o) = {}
      BY <2>2, <2>3
    <2>5. new[k][o] = kv[layer][k][o]
      <3>1. new[k][o] = IF here(k, o) = {} THEN kv[layer][k][o]
                        ELSE IF Cardinality(here(k, o)) > 1 THEN Garbage
                        ELSE Rotated(CHOOSE q \in here(k, o) : TRUE)
        BY <2>2
      <3> HIDE DEF here, new
      <3> QED  BY <2>4, <3>1
    <2>6. Cell(s, pos)[1] = k /\ Cell(s, pos)[2] = o
      BY <2>2
    <2> HIDE DEF new, here
    <2> QED  BY <2>5, <2>6
  <1> HIDE DEF tags, new, here
  <1>8. KvPart'
    <2>1. pc \in KvKernels /\ pc' \in {"flashAttn", "quant"}
      BY <1>1 DEF KvKernels
    <2>2. FillsBatch(new)
      BY <1>6 DEF FillsBatch
    <2>3. KeepsOthers(new)
      BY <1>7 DEF KeepsOthers
    <2>4. UNCHANGED <<job, done, batch, layer>> /\ kv' = [kv EXCEPT ![layer] = new]
      BY <1>1
    <2> QED  BY <2>1, <2>2, <2>3, <2>4, CacheStep
  <1>9. JobPart' /\ MemPart'
    BY <1>1, <1>2, WriteKeeps, SamePass
  <1>10. Holds({"qkv"}, "rope")'
    <2>1. {"qkv"} \in SUBSET Names /\ \A u, v \in {"qkv"} : View(u).in = View(v).in => u = v
      BY DEF Names
    <2>2. \A r \in Rows : Read("qkv", r)' = tags[r]
      BY <1>1, <1>2, <1>3, <2>1, WriteThenRead
    <2>3. Rows' = Rows /\ RowTokens' = RowTokens /\ layer' = layer
      BY <1>1, SameRows
    <2> QED  BY <1>5, <2>2, <2>3 DEF Holds
  <1>11. HiddenPart'
    <2>1. Rows' = Rows /\ RowTokens' = RowTokens
      BY <1>1, SameRows
    <2>2. hidden = [r \in Rows |-> Val("in", layer, RowTokens[r + 1])]
      BY <1>1 DEF FwdInv, HiddenPart, FirstHalf, BeforeKv, KvKernels
    <2>3. pc' \notin SecondHalf
      BY <1>1 DEF SecondHalf
    <2> QED  BY <1>1, <2>1, <2>2, <2>3 DEF HiddenPart
  <1>12. ControlPart'
    BY <1>1, <1>2 DEF FwdInv, ControlPart, InLayer, BeforeKv, AfterKv, KvKernels
  <1>13. BufferPart'
    BY <1>1, <1>10 DEF BufferPart, KvKernels
  <1>14. SampledFromLast'
    BY <1>1 DEF SampledFromLast
  <1> QED  BY <1>8, <1>9, <1>11, <1>12, <1>13, <1>14 DEF FwdInv

LEMMA FlashAttnStep ==
  ASSUME FwdInv, FlashAttn
  PROVE  FwdInv'
  <1> DEFINE seen(r) == [p \in 0 .. batch.maxSeqLen - 1 |->
                           LET row == batch.cuSeqlens[SeqOfRow(r)] + p
                           IN  IF row <= r THEN Read("qkv", row) ELSE Garbage]
  <1>1. /\ pc = "flashAttn" /\ pc' = "quant" /\ UNCHANGED <<job, done, batch, mem, hidden, kv, layer>>
        /\ attn' = [r \in Rows |-> IF Read("qkv", r) = Garbage THEN Garbage ELSE Attend(Read("qkv", r), seen(r))]
    BY DEF FlashAttn, Goto
  <1>2. Started /\ Started' /\ batch.prompt /\ \A l \in Layers : Passed(l)' <=> Passed(l)
    BY <1>1 DEF Started, FwdInv, ControlPart, Passed, AfterKv
  <1>3. JobOK /\ PassOK /\ done \in [SeqIds -> 0 .. MaxGenerated]
    BY <1>2, PassOfInv
  <1>4. \A r \in Rows : Read("qkv", r) = Val("rope", layer, RowTokens[r + 1])
    BY <1>1 DEF FwdInv, BufferPart, Holds
  <1>5. ASSUME NEW r \in Rows
        PROVE  attn'[r] = Val("attn", layer, RowTokens[r + 1])
    <2>1. PICK b \in 1 .. NB : b = SeqOfRow(r)
      BY <1>2, <1>3, RowFacts
    <2>2. PICK p \in 0 .. batch.context[b] - 1 :
               r = batch.cuSeqlens[b] + p /\ RowTokens[r + 1] = TokenAt(batch.seqs[b], p)
      BY <1>2, <1>3, <2>1, RowFacts
    <2>3. PICK s \in SeqIds, x \in Nat \ {0}, m \in Nat :
               /\ s = batch.seqs[b] /\ x = batch.context[b] /\ x = ContextLen(s)
               /\ m = batch.maxSeqLen /\ x <= m
      BY <1>3, PassFacts
    <2>4. PICK c \in Nat : c = batch.cuSeqlens[b]
      BY <1>2, <1>3, <2>2, RowAt
    <2>5. ASSUME NEW q \in 0 .. p
          PROVE  seen(r)[q] = Val("rope", layer, TokenAt(s, q))
      <3>1. x \in Nat /\ m \in Nat /\ c \in Nat /\ x <= m /\ p \in 0 .. x - 1
        BY <2>2, <2>3, <2>4
      <3>2. q \in 0 .. x - 1 /\ q \in 0 .. m - 1 /\ c + q <= c + p
        BY <3>1
      <3>3. c + q \in Rows /\ RowTokens[c + q + 1] = TokenAt(s, q)
        BY <1>2, <1>3, <2>3, <2>4, <3>2, RowAt
      <3>4. seen(r)[q] = IF c + q <= r THEN Read("qkv", c + q) ELSE Garbage
        BY <2>1, <2>3, <2>4, <3>2
      <3>5. Read("qkv", c + q) = Val("rope", layer, TokenAt(s, q))
        BY <1>4, <3>3
      <3>6. c + q <= r
        BY <2>2, <2>4, <3>2
      <3> QED  BY <3>4, <3>5, <3>6
    <2>6. /\ Read("qkv", r) = Val("rope", layer, TokenAt(s, p)) /\ Read("qkv", r) # Garbage
          /\ Read("qkv", r).token = TokenAt(s, p)
      <3>1. Read("qkv", r) = Val("rope", layer, TokenAt(s, p))
        BY <1>4, <2>2, <2>3
      <3> QED  BY <3>1, ValFacts
    <2> HIDE DEF seen
    <2>7. Attend(Read("qkv", r), seen(r)) = Val("attn", layer, TokenAt(s, p))
      <3>1. ContextLen(s) \in Nat /\ p \in 0 .. ContextLen(s) - 1
        BY <2>2, <2>3
      <3>2. PICK query, sn : query = Read("qkv", r) /\ sn = seen(r)
        OBVIOUS
      <3>3. Attend(query, sn) = Val("attn", layer, TokenAt(s, p))
        BY <1>3, <2>5, <2>6, <3>1, <3>2, AttendFacts
      <3> QED  BY <3>2, <3>3
    <2> QED  BY <1>1, <2>2, <2>3, <2>6, <2>7
  <1> HIDE DEF seen
  <1>6. attn' = [r \in Rows |-> Val("attn", layer, RowTokens[r + 1])]
    BY <1>1, <1>5
  <1>7. JobPart' /\ MemPart' /\ KvPart'
    <2>1. DOMAIN mem' = DOMAIN mem /\ \A b \in DOMAIN mem : DOMAIN mem'[b] = DOMAIN mem[b]
      BY <1>1
    <2> QED  BY <1>1, <1>2, <2>1, SamePass, SameCache
  <1>8. Rows' = Rows /\ RowTokens' = RowTokens
    BY <1>1, SameRows
  <1>9. HiddenPart'
    <2>1. hidden = [r \in Rows |-> Val("in", layer, RowTokens[r + 1])]
      BY <1>1 DEF FwdInv, HiddenPart, FirstHalf
    <2>2. pc' \notin SecondHalf
      BY <1>1 DEF SecondHalf
    <2> QED  BY <1>1, <1>8, <2>1, <2>2 DEF HiddenPart
  <1>10. ControlPart'
    BY <1>1 DEF FwdInv, ControlPart, InLayer, BeforeKv, AfterKv, KvKernels
  <1>11. BufferPart'
    BY <1>1, <1>6, <1>8 DEF BufferPart, KvKernels
  <1>12. SampledFromLast'
    BY <1>1 DEF SampledFromLast
  <1> QED  BY <1>7, <1>9, <1>10, <1>11, <1>12 DEF FwdInv

LEMMA SingleQueryStep ==
  ASSUME FwdInv, SingleQueryAttention
  PROVE  FwdInv'
  <1> DEFINE own(b)  == Compute("rope", {<<Read("qkv", b - 1), "qkv">>})
             slot(b) == Slot(b, batch.context[b] - 1)
             new == [k \in Blocks |-> [o \in 0 .. BlockSize - 1 |->
                       IF \E b \in DOMAIN batch.seqs : slot(b) = <<k, o>>
                       THEN own(CHOOSE b \in DOMAIN batch.seqs : slot(b) = <<k, o>>)
                       ELSE kv[layer][k][o]]]
             seen(r) == [p \in 0 .. batch.maxSeqLen - 1 |->
                           kv'[layer][Slot(r + 1, p)[1]][Slot(r + 1, p)[2]]]
  <1>1. /\ pc = "singleQuery" /\ pc' = "quant" /\ UNCHANGED <<job, done, batch, mem, hidden, layer>>
        /\ kv' = [kv EXCEPT ![layer] = new]
        /\ attn' = [r \in Rows |-> IF own(r + 1) = Garbage THEN Garbage ELSE Attend(own(r + 1), seen(r))]
    BY DEF SingleQueryAttention, Goto, Cache
  <1>2. Started /\ Started' /\ ~ batch.prompt /\ layer \in Layers /\ pc \notin AfterKv
    BY <1>1 DEF Started, FwdInv, ControlPart, InLayer, BeforeKv, KvKernels, AfterKv
  <1>3. JobOK /\ PassOK /\ done \in [SeqIds -> 0 .. MaxGenerated]
    BY <1>2, PassOfInv
  <1>4. \A r \in Rows : Read("qkv", r) = Val("qkv", layer, RowTokens[r + 1])
    BY <1>1 DEF FwdInv, BufferPart, KvKernels, Holds
  <1>5. ASSUME NEW b \in 1 .. NB
        PROVE  /\ own(b) = Val("rope", layer, TokenAt(batch.seqs[b], batch.context[b] - 1))
               /\ slot(b) = Cell(batch.seqs[b], batch.context[b] - 1)
    <2>1. b - 1 \in Rows /\ (b - 1) + 1 = b
      BY <1>2, <1>3, DecodeRows
    <2>2. RowTokens[b] = TokenAt(batch.seqs[b], batch.context[b] - 1)
      BY <1>2, <1>3, <2>1, DecodeRows
    <2>3. Read("qkv", b - 1) = Val("qkv", layer, TokenAt(batch.seqs[b], batch.context[b] - 1))
      BY <1>4, <2>1, <2>2
    <2>4. batch.context[b] - 1 \in 0 .. batch.context[b] - 1
      <3>1. batch.context[b] \in Nat \ {0}
        BY <1>3, PassFacts
      <3> QED  BY <3>1
    <2> QED  BY <1>3, <2>3, <2>4, OneOperand, SlotIsCell
  <1> HIDE DEF own, slot
  <1>6. ASSUME NEW s \in SeqIds, NEW pos \in Nat, pos < Room(s)
        PROVE  /\ Cell(s, pos)[1] \in Blocks /\ Cell(s, pos)[2] \in 0 .. BlockSize - 1
               /\ Cell(s, pos) = <<Cell(s, pos)[1], Cell(s, pos)[2]>>
               /\ \A b \in 1 .. NB : slot(b) = Cell(s, pos) => batch.seqs[b] = s /\ batch.context[b] - 1 = pos
    <2>1. Cell(s, pos)[1] \in Blocks /\ Cell(s, pos)[2] \in 0 .. BlockSize - 1
      BY <1>6, CellFacts
    <2>2. Cell(s, pos) = <<Cell(s, pos)[1], Cell(s, pos)[2]>>
      BY DEF Cell
    <2>3. ASSUME NEW b \in 1 .. NB, slot(b) = Cell(s, pos)
          PROVE  batch.seqs[b] = s /\ batch.context[b] - 1 = pos
      <3>1. PICK t \in SeqIds, x \in Nat \ {0}, y \in Nat :
                 t = batch.seqs[b] /\ x = batch.context[b] /\ y = Room(t) /\ x <= y
        BY <1>2, BatchCells
      <3>2. PICK z \in Nat : z = x - 1 /\ z < y
        BY <3>1
      <3>3. Cell(t, z) = Cell(s, pos)
        BY <1>5, <2>3, <3>1, <3>2
      <3>4. t = s /\ z = pos
        BY <1>6, <3>1, <3>2, <3>3, CellsDiffer
      <3> QED  BY <3>1, <3>2, <3>4
    <2> QED  BY <2>1, <2>2, <2>3
  <1>7. ASSUME NEW s \in SeqIds, NEW pos \in Nat, pos < Room(s),
               \A b \in 1 .. NB : ~ (batch.seqs[b] = s /\ batch.context[b] - 1 = pos)
        PROVE  new[Cell(s, pos)[1]][Cell(s, pos)[2]] = kv[layer][Cell(s, pos)[1]][Cell(s, pos)[2]]
    <2>1. PICK k \in Blocks, o \in 0 .. BlockSize - 1 :
               Cell(s, pos) = <<k, o>> /\ k = Cell(s, pos)[1] /\ o = Cell(s, pos)[2]
      BY <1>6, <1>7
    <2>2. ~ \E b \in DOMAIN batch.seqs : slot(b) = <<k, o>>
      BY <1>3, <1>6, <1>7, <2>1, PassFacts
    <2>3. new[k][o] = IF \E b \in DOMAIN batch.seqs : slot(b) = <<k, o>>
                      THEN own(CHOOSE b \in DOMAIN batch.seqs : slot(b) = <<k, o>>)
                      ELSE kv[layer][k][o]
      BY <2>1
    <2> HIDE DEF new
    <2> QED  BY <2>1, <2>2, <2>3
  <1>8. FillsBatch(new)
    <2> SUFFICES ASSUME NEW b \in 1 .. NB, NEW pos \in 0 .. batch.context[b] - 1
                 PROVE  new[Cell(batch.seqs[b], pos)[1]][Cell(batch.seqs[b], pos)[2]]
                          = Val("rope", layer, TokenAt(batch.seqs[b], pos))
      BY DEF FillsBatch
    <2>1. PICK s \in SeqIds, x \in Nat \ {0} :
               s = batch.seqs[b] /\ x = batch.context[b] /\ x = ContextLen(s) /\ s \in BatchSeqs
      BY <1>2, BatchCells
    <2>2. pos \in Nat /\ pos < Room(s) /\ pos \in 0 .. x - 1
      <3>1. batch.context[b] \in Nat \ {0} /\ batch.context[b] <= Room(s) /\ Room(s) \in Nat
        BY <1>2, <2>1, BatchCells
      <3> QED  BY <2>1, <3>1
    <2>3. CASE pos = x - 1
      <3>1. PICK k \in Blocks, o \in 0 .. BlockSize - 1 :
                 Cell(s, pos) = <<k, o>> /\ k = Cell(s, pos)[1] /\ o = Cell(s, pos)[2]
        BY <1>6, <2>2
      <3>2. slot(b) = <<k, o>> /\ own(b) = Val("rope", layer, TokenAt(s, pos))
        BY <1>5, <2>1, <2>3, <3>1
      <3>3. \A c \in 1 .. NB : slot(c) = <<k, o>> => c = b
        <4> SUFFICES ASSUME NEW c \in 1 .. NB, slot(c) = <<k, o>> PROVE c = b
          OBVIOUS
        <4>1. batch.seqs[c] = s
          BY <1>6, <2>2, <3>1
        <4> QED  BY <1>3, <2>1, <4>1, PassFacts
      <3>4. DOMAIN batch.seqs = 1 .. NB
        BY <1>3, PassFacts
      <3>5. /\ \E c \in DOMAIN batch.seqs : slot(c) = <<k, o>>
            /\ (CHOOSE c \in DOMAIN batch.seqs : slot(c) = <<k, o>>) = b
        BY <3>2, <3>3, <3>4
      <3>6. new[k][o] = IF \E c \in DOMAIN batch.seqs : slot(c) = <<k, o>>
                        THEN own(CHOOSE c \in DOMAIN batch.seqs : slot(c) = <<k, o>>)
                        ELSE kv[layer][k][o]
        BY <3>1
      <3> HIDE DEF new
      <3> QED  BY <2>1, <3>1, <3>2, <3>5, <3>6
    <2>4. CASE pos # x - 1
      <3>1. \A c \in 1 .. NB : ~ (batch.seqs[c] = s /\ batch.context[c] - 1 = pos)
        <4> SUFFICES ASSUME NEW c \in 1 .. NB, batch.seqs[c] = s PROVE batch.context[c] - 1 # pos
          OBVIOUS
        <4>1. c = b
          BY <1>3, <2>1, PassFacts
        <4> QED  BY <2>1, <2>4, <4>1
      <3>2. new[Cell(s, pos)[1]][Cell(s, pos)[2]] = kv[layer][Cell(s, pos)[1]][Cell(s, pos)[2]]
        BY <1>7, <2>2, <3>1
      <3>3. pos \in 0 .. CachedLen(layer, s) - 1
        <4>1. ~ Passed(layer)
          <5>1. layer \in Nat
            BY <1>2, ForwardAssumption DEF Layers
          <5> QED  BY <1>2, <5>1 DEF Passed
        <4>2. done[s] # 0
          <5>1. done[s] \in 1 .. MaxGenerated - 1 /\ MaxGenerated \in Nat
            BY <1>2, <1>3, <2>1, ForwardAssumption DEF PassOK
          <5> QED  BY <5>1
        <4>3. CachedLen(layer, s) = x - 1
          BY <2>1, <4>1, <4>2 DEF CachedLen
        <4> QED  BY <2>1, <2>2, <2>4, <4>3
      <3>4. kv[layer][Cell(s, pos)[1]][Cell(s, pos)[2]] = Val("rope", layer, TokenAt(s, pos))
        BY <1>2, <3>3 DEF FwdInv, KvPart, Cell
      <3> HIDE DEF new
      <3> QED  BY <2>1, <3>2, <3>4
    <2> QED  BY <2>3, <2>4
  <1>9. KeepsOthers(new)
    <2> SUFFICES ASSUME NEW s \in SeqIds \ BatchSeqs, NEW pos \in 0 .. CachedLen(layer, s) - 1
                 PROVE  new[Cell(s, pos)[1]][Cell(s, pos)[2]] = kv[layer][Cell(s, pos)[1]][Cell(s, pos)[2]]
      BY DEF KeepsOthers
    <2>1. pos \in Nat /\ pos < Room(s)
      BY <1>2, BatchCells
    <2>2. \A b \in 1 .. NB : ~ (batch.seqs[b] = s /\ batch.context[b] - 1 = pos)
      BY DEF BatchSeqs
    <2> HIDE DEF new
    <2> QED  BY <1>7, <2>1, <2>2
  <1> HIDE DEF new
  <1>10. KvPart'
    <2>1. pc \in KvKernels /\ pc' \in {"flashAttn", "quant"}
      BY <1>1 DEF KvKernels
    <2>2. UNCHANGED <<job, done, batch, layer>> /\ kv' = [kv EXCEPT ![layer] = new]
      BY <1>1
    <2> QED  BY <1>8, <1>9, <2>1, <2>2, CacheStep
  <1>11. kv'[layer] = new
    BY <1>1, <1>2 DEF FwdInv, KvPart
  <1>12. ASSUME NEW r \in Rows
         PROVE  attn'[r] = Val("attn", layer, RowTokens[r + 1])
    <2>1. PICK b \in 1 .. NB : b = r + 1 /\ RowTokens[b] = TokenAt(batch.seqs[b], batch.context[b] - 1)
      BY <1>2, <1>3, DecodeRows
    <2>2. PICK s \in SeqIds, x \in Nat \ {0}, m \in Nat :
               /\ s = batch.seqs[b] /\ x = batch.context[b] /\ x = ContextLen(s)
               /\ m = batch.maxSeqLen /\ x <= m
      BY <1>3, PassFacts
    <2>3. PICK p \in Nat : p = x - 1
      BY <2>2
    <2>4. ASSUME NEW q \in 0 .. p
          PROVE  seen(r)[q] = Val("rope", layer, TokenAt(s, q))
      <3>1. q \in 0 .. x - 1 /\ q \in 0 .. m - 1
        BY <2>2, <2>3
      <3>2. Slot(b, q) = Cell(s, q)
        BY <1>3, <2>2, <3>1, SlotIsCell
      <3>3. seen(r)[q] = kv'[layer][Slot(b, q)[1]][Slot(b, q)[2]]
        BY <2>1, <2>2, <3>1
      <3>4. new[Cell(s, q)[1]][Cell(s, q)[2]] = Val("rope", layer, TokenAt(s, q))
        BY <1>8, <2>2, <3>1 DEF FillsBatch
      <3> QED  BY <1>11, <3>2, <3>3, <3>4
    <2>5. own(b) = Val("rope", layer, TokenAt(s, p))
      BY <1>5, <2>2, <2>3
    <2>6. own(b) # Garbage /\ own(b).token = TokenAt(s, p)
      BY <2>5, ValFacts
    <2> HIDE DEF seen
    <2>7. Attend(own(b), seen(r)) = Val("attn", layer, TokenAt(s, p))
      <3>1. ContextLen(s) \in Nat /\ p \in 0 .. ContextLen(s) - 1
        BY <2>2, <2>3
      <3>2. PICK query, sn : query = own(b) /\ sn = seen(r)
        OBVIOUS
      <3>3. Attend(query, sn) = Val("attn", layer, TokenAt(s, p))
        BY <1>3, <2>4, <2>6, <3>1, <3>2, AttendFacts
      <3> QED  BY <3>2, <3>3
    <2>8. attn'[r] = IF own(b) = Garbage THEN Garbage ELSE Attend(own(b), seen(r))
      BY <1>1, <2>1
    <2> QED  BY <2>1, <2>2, <2>3, <2>6, <2>7, <2>8
  <1> HIDE DEF seen
  <1>13. attn' = [r \in Rows |-> Val("attn", layer, RowTokens[r + 1])]
    BY <1>1, <1>12
  <1>14. JobPart' /\ MemPart'
    <2>1. DOMAIN mem' = DOMAIN mem /\ \A b \in DOMAIN mem : DOMAIN mem'[b] = DOMAIN mem[b]
      BY <1>1
    <2> QED  BY <1>1, <1>2, <2>1, SamePass
  <1>15. Rows' = Rows /\ RowTokens' = RowTokens
    BY <1>1, SameRows
  <1>16. HiddenPart'
    <2>1. hidden = [r \in Rows |-> Val("in", layer, RowTokens[r + 1])]
      BY <1>1 DEF FwdInv, HiddenPart, FirstHalf, BeforeKv, KvKernels
    <2>2. pc' \notin SecondHalf
      BY <1>1 DEF SecondHalf
    <2> QED  BY <1>1, <1>15, <2>1, <2>2 DEF HiddenPart
  <1>17. ControlPart'
    BY <1>1 DEF FwdInv, ControlPart, InLayer, BeforeKv, AfterKv, KvKernels
  <1>18. BufferPart'
    BY <1>1, <1>13, <1>15 DEF BufferPart, KvKernels
  <1>19. SampledFromLast'
    BY <1>1 DEF SampledFromLast
  <1> QED  BY <1>10, <1>14, <1>16, <1>17, <1>18, <1>19 DEF FwdInv

-----------------------------------------------------------------------------
(* The beginning and the end of a pass.                                    *)

LEMMA EmbedStep ==
  ASSUME FwdInv, Embed
  PROVE  FwdInv'
  <1> DEFINE tokens == IF batch.prompt THEN Splice
                       ELSE [b \in DOMAIN batch.seqs |-> TokenAt(batch.seqs[b], batch.context[b] - 1)]
  <1>1. /\ pc = "embed" /\ pc' = "inputNorm" /\ layer' = 1
        /\ UNCHANGED <<job, done, batch, mem, attn, kv, logits>>
        /\ hidden' = [r \in 0 .. Len(tokens) - 1 |-> Val("in", 1, tokens[r + 1])]
    BY DEF Embed
  <1>2. Started /\ Started' /\ layer = 1
    BY <1>1 DEF Started, FwdInv, ControlPart
  <1>3. JobOK /\ PassOK /\ done \in [SeqIds -> 0 .. MaxGenerated] /\ AllImages /\ batch.rows \in Nat
    BY <1>2, PassOfInv
  <1>4. tokens = RowTokens /\ Len(RowTokens) = batch.rows
    <2>1. CASE batch.prompt
      BY <1>3, <2>1, SpliceIsRows, RowsLaidOut
    <2>2. CASE ~ batch.prompt
      <3>1. RowTokens = [b \in 1 .. NB |-> TokenAt(batch.seqs[b], batch.context[b] - 1)] /\ batch.rows = NB
        BY <1>3, <2>2, DecodeRows DEF PassOK
      <3>2. DOMAIN batch.seqs = 1 .. NB /\ NB \in Nat
        BY <1>3, PassFacts
      <3>3. tokens = RowTokens
        BY <2>2, <3>1, <3>2
      <3>4. Len(RowTokens) = NB
        BY <3>1, <3>2
      <3> QED  BY <3>1, <3>3, <3>4
    <2> QED  BY <2>1, <2>2
  <1> HIDE DEF tokens
  <1>5. hidden' = [r \in Rows |-> Val("in", 1, RowTokens[r + 1])]
    BY <1>1, <1>4 DEF Rows
  <1>6. Rows' = Rows /\ RowTokens' = RowTokens
    BY <1>1, SameRows
  <1>7. HiddenPart'
    <2>1. pc' \notin SecondHalf
      BY <1>1 DEF SecondHalf
    <2> QED  BY <1>1, <1>5, <1>6, <2>1 DEF HiddenPart
  <1>8. JobPart' /\ MemPart' /\ KvPart'
    <2>1. DOMAIN mem' = DOMAIN mem /\ \A b \in DOMAIN mem : DOMAIN mem'[b] = DOMAIN mem[b]
      BY <1>1
    <2>2. \A l \in Layers : Passed(l)' <=> Passed(l)
      BY <1>1, <1>2 DEF Passed, AfterKv
    <2> QED  BY <1>1, <1>2, <2>1, <2>2, SamePass, SameCache
  <1>9. ControlPart'
    <2>1. 1 \in Layers
      BY ForwardAssumption DEF Layers
    <2> QED  BY <1>1, <2>1 DEF ControlPart, InLayer, BeforeKv, AfterKv, KvKernels
  <1>10. BufferPart'
    BY <1>1 DEF BufferPart, KvKernels
  <1>11. SampledFromLast'
    BY <1>1 DEF SampledFromLast
  <1> QED  BY <1>7, <1>8, <1>9, <1>10, <1>11 DEF FwdInv

LEMMA LmHeadStep ==
  ASSUME FwdInv, LmHead
  PROVE  FwdInv'
  <1>1. /\ pc = "lmHead" /\ pc' = "sample" /\ UNCHANGED <<job, done, batch, mem, hidden, attn, kv, layer>>
        /\ logits' = [b \in DOMAIN batch.seqs |->
                        IF batch.prompt THEN hidden[LastRow(b)] ELSE hidden[b - 1]]
    BY DEF LmHead, Goto
  <1>2. /\ Started /\ Started' /\ layer = NumLayers + 1
        /\ hidden = [r \in Rows |-> Val("in", layer, RowTokens[r + 1])]
    BY <1>1 DEF Started, FwdInv, ControlPart, HiddenPart, FirstHalf
  <1>3. JobOK /\ PassOK /\ done \in [SeqIds -> 0 .. MaxGenerated]
    BY <1>2, PassOfInv
  <1>4. ASSUME NEW b \in 1 .. NB
        PROVE  logits'[b] = Val("in", NumLayers + 1, TokenAt(batch.seqs[b], ContextLen(batch.seqs[b]) - 1))
    <2>1. PICK x \in Nat \ {0} : x = batch.context[b] /\ x = ContextLen(batch.seqs[b])
      BY <1>3, PassFacts
    <2>2. DOMAIN batch.seqs = 1 .. NB
      BY <1>3, PassFacts
    <2>3. CASE batch.prompt
      <3>1. PICK p \in 0 .. x - 1 : p = x - 1
        <4>1. x - 1 \in 0 .. x - 1
          BY <2>1
        <4> QED  BY <4>1
      <3>2. /\ batch.cuSeqlens[b] \in Nat /\ batch.cuSeqlens[b] + p \in Rows
            /\ RowTokens[batch.cuSeqlens[b] + p + 1] = TokenAt(batch.seqs[b], p)
        BY <1>3, <2>1, <2>3, <3>1, RowAt
      <3>3. batch.cuSeqlens[b + 1] = batch.cuSeqlens[b] + x
        BY <1>3, <2>1, <2>3, PromptFacts DEF Starts
      <3>4. LastRow(b) = batch.cuSeqlens[b] + p
        <4>1. PICK c \in Nat : c = batch.cuSeqlens[b]
          BY <3>2
        <4>2. (c + x) - 1 = c + p
          BY <2>1, <3>1, <4>1
        <4> QED  BY <3>3, <4>1, <4>2 DEF LastRow
      <3> QED  BY <1>1, <1>2, <2>1, <2>2, <2>3, <3>1, <3>2, <3>4
    <2>4. CASE ~ batch.prompt
      <3>1. b - 1 \in Rows /\ (b - 1) + 1 = b
        BY <1>3, <2>4, DecodeRows
      <3>2. RowTokens[(b - 1) + 1] = TokenAt(batch.seqs[b], x - 1)
        BY <1>3, <2>1, <2>4, <3>1, DecodeRows
      <3> QED  BY <1>1, <1>2, <2>1, <2>2, <2>4, <3>1, <3>2
    <2> QED  BY <2>3, <2>4
  <1>5. SampledFromLast'
    <2>1. DOMAIN batch.seqs = 1 .. NB
      BY <1>3, PassFacts
    <2>2. \A b \in 1 .. NB : TokenAt(batch.seqs[b], ContextLen(batch.seqs[b]) - 1)'
                               = TokenAt(batch.seqs[b], ContextLen(batch.seqs[b]) - 1)
      BY <1>1 DEF TokenAt, ContextLen, PromptLen, ImageExtra
    <2> QED  BY <1>1, <1>4, <2>1, <2>2 DEF SampledFromLast
  <1>6. JobPart' /\ MemPart' /\ KvPart'
    <2>1. DOMAIN mem' = DOMAIN mem /\ \A b \in DOMAIN mem : DOMAIN mem'[b] = DOMAIN mem[b]
      BY <1>1
    <2>2. \A l \in Layers : Passed(l)' <=> Passed(l)
      BY <1>1 DEF Passed, AfterKv
    <2> QED  BY <1>1, <1>2, <2>1, <2>2, SamePass, SameCache
  <1>7. HiddenPart'
    <2>1. Rows' = Rows /\ RowTokens' = RowTokens
      BY <1>1, SameRows
    <2>2. pc' \notin SecondHalf
      BY <1>1 DEF SecondHalf
    <2> QED  BY <1>1, <1>2, <2>1, <2>2 DEF HiddenPart
  <1>8. ControlPart'
    BY <1>1, <1>2 DEF ControlPart, InLayer, BeforeKv, AfterKv, KvKernels
  <1>9. BufferPart'
    BY <1>1 DEF BufferPart, KvKernels
  <1> QED  BY <1>5, <1>6, <1>7, <1>8, <1>9 DEF FwdInv

LEMMA SampleStep ==
  ASSUME FwdInv, Sample
  PROVE  FwdInv'
  <1>1. /\ pc = "sample" /\ pc' = "idle" /\ UNCHANGED <<job, kv>> /\ layer' = 1
        /\ done' = [s \in SeqIds |-> IF \E b \in DOMAIN batch.seqs : batch.seqs[b] = s
                                     THEN done[s] + 1 ELSE done[s]]
    BY DEF Sample, Goto
  <1>2. Started /\ ~ Started' /\ layer = NumLayers + 1
    BY <1>1 DEF Started, FwdInv, ControlPart
  <1>3. JobOK /\ PassOK /\ done \in [SeqIds -> 0 .. MaxGenerated] /\ AllImages
    BY <1>2, PassOfInv
  <1>4. \A s \in SeqIds : (\E b \in DOMAIN batch.seqs : batch.seqs[b] = s) <=> s \in BatchSeqs
    BY <1>3, PassFacts DEF BatchSeqs
  <1>5. ASSUME NEW s \in SeqIds
        PROVE  /\ done'[s] \in 0 .. MaxGenerated
               /\ s \in BatchSeqs => done'[s] = done[s] + 1
               /\ s \notin BatchSeqs => done'[s] = done[s]
    <2>1. PICK g \in Nat \ {0}, d \in Nat : g = MaxGenerated /\ d = done[s] /\ d <= g
      BY <1>3, ForwardAssumption
    <2>2. CASE s \in BatchSeqs
      <3>1. PICK b \in 1 .. NB : s = batch.seqs[b]
        BY <2>2 DEF BatchSeqs
      <3>2. IF batch.prompt THEN d = 0 ELSE d \in 1 .. g - 1
        BY <1>3, <2>1, <3>1 DEF PassOK
      <3>3. d + 1 \in 0 .. g
        BY <2>1, <3>2
      <3> QED  BY <1>1, <1>4, <2>1, <2>2, <3>3
    <2>3. CASE s \notin BatchSeqs
      BY <1>1, <1>3, <1>4, <2>3
    <2> QED  BY <2>2, <2>3
  <1>6. JobPart'
    <2>1. JobOK' /\ AllImages'
      BY <1>1, <1>3 DEF JobOK, AllImages
    <2>2. done' \in [SeqIds -> 0 .. MaxGenerated]
      BY <1>1, <1>5
    <2> QED  BY <1>2, <2>1, <2>2 DEF JobPart
  <1>7. KvPart'
    <2>1. kv' = [l \in Layers |-> kv'[l]]
      BY <1>1 DEF FwdInv, KvPart
    <2>2. ASSUME NEW l \in Layers, NEW s \in SeqIds, NEW pos \in 0 .. CachedLen(l, s)' - 1
          PROVE  kv'[l][Tables[s][1 + pos \div BlockSize]][pos % BlockSize] = Val("rope", l, TokenAt(s, pos)')
      <3>1. CachedLen(l, s)' = IF done'[s] = 0 THEN 0 ELSE ContextLen(s)' - 1
        BY <1>2 DEF CachedLen
      <3>2. TokenAt(s, pos)' = TokenAt(s, pos)
        BY <1>1 DEF TokenAt
      <3>3. l < layer
        BY <1>2, ForwardAssumption DEF Layers
      <3>4. pos \in 0 .. CachedLen(l, s) - 1
        <4>1. CASE s \in BatchSeqs
          <5>1. CachedLen(l, s) = ContextLen(s)
            BY <1>2, <3>3, <4>1 DEF CachedLen, Passed
          <5>2. PICK n \in Nat, e \in Nat, d \in Nat : n = PromptLen(s) /\ e = ImageExtra /\ d = done[s]
            BY <1>3, TextFacts, ExtraIsNatural, ForwardAssumption
          <5>3. ContextLen(s) = n + d + e
            BY <5>2 DEF ContextLen
          <5>4. ContextLen(s)' = n + (d + 1) + e /\ done'[s] # 0
            <6>1. PromptLen(s)' = PromptLen(s) /\ ImageExtra' = ImageExtra
              BY <1>1 DEF PromptLen, ImageExtra
            <6>2. done'[s] = d + 1
              BY <1>5, <4>1, <5>2
            <6> QED  BY <5>2, <6>1, <6>2 DEF ContextLen
          <5>5. (n + (d + 1) + e) - 1 = n + d + e
            BY <5>2
          <5> QED  BY <3>1, <5>1, <5>3, <5>4, <5>5
        <4>2. CASE s \notin BatchSeqs
          <5>1. CachedLen(l, s) = IF done[s] = 0 THEN 0 ELSE ContextLen(s) - 1
            BY <4>2 DEF CachedLen
          <5>2. done'[s] = done[s]
            BY <1>5, <4>2
          <5>3. ContextLen(s)' = ContextLen(s)
            BY <1>1, <5>2 DEF ContextLen, PromptLen, ImageExtra
          <5> QED  BY <3>1, <5>1, <5>2, <5>3
        <4> QED  BY <4>1, <4>2
      <3>5. kv[l][Tables[s][1 + pos \div BlockSize]][pos % BlockSize] = Val("rope", l, TokenAt(s, pos))
        BY <3>4 DEF FwdInv, KvPart
      <3> QED  BY <1>1, <3>2, <3>5
    <2> QED  BY <2>1, <2>2 DEF KvPart
  <1>8. MemPart'
    BY <1>2 DEF MemPart
  <1>9. HiddenPart' /\ BufferPart' /\ SampledFromLast'
    BY <1>1 DEF HiddenPart, BufferPart, SampledFromLast, FirstHalf, SecondHalf, BeforeKv, KvKernels
  <1>10. ControlPart'
    BY <1>1 DEF ControlPart, InLayer, BeforeKv, AfterKv, KvKernels
  <1> QED  BY <1>6, <1>7, <1>8, <1>9, <1>10 DEF FwdInv

-----------------------------------------------------------------------------
(* Preparing a pass.                                                       *)

LEMMA Allocated ==
  ASSUME JobOK, job' = job, NEW rows \in Nat, batch'.rows = rows, Allocate(rows)
  PROVE  MemPart'
  <1>1. Rows' = 0 .. rows - 1 /\ Names' = Names /\ \A v : View(v)' = View(v)
    BY DEF Rows, Names, View
  <1>2. ASSUME NEW v \in Names, NEW r \in 0 .. rows - 1
        PROVE  View(v).in \in DOMAIN mem' /\ RowCells(View(v), r) \subseteq DOMAIN mem'[View(v).in]
    <2>1. CASE job.precision = "w16a16"
      <3>1. View(v).in = v /\ View(v).width = 1 /\ v \in {"qkv", "outDown", "gateUp", "qHidden", "qMlp"}
        BY <2>1 DEF View, Names
      <3>2. /\ DOMAIN mem' = {"qkv", "outDown", "gateUp", "qHidden", "qMlp"}
            /\ \A t \in DOMAIN mem' : DOMAIN mem'[t] = 0 .. rows - 1
        BY <2>1 DEF Allocate
      <3>3. RowCells(View(v), r) = {r}
        BY <3>1 DEF RowCells
      <3> QED  BY <3>1, <3>2, <3>3
    <2>2. CASE job.precision # "w16a16"
      <3>1. job.sz \in ModelSizes /\ job.sz.hidden <= job.sz.q
        BY SizesAssumption DEF JobOK
      <3>2. View(v) = Views(job.sz)[v] /\ v \in DOMAIN Views(job.sz)
        BY <2>2 DEF View, Names, Views
      <3>3. RowCells(Views(job.sz)[v], r) \subseteq 0 .. BufferSize(job.sz, rows)[Views(job.sz)[v].in] - 1
        BY <3>1, <3>2, ViewsFitBuffers
      <3>4. Views(job.sz)[v].in \in {"act", "quant", "scale", "sum"}
        BY <3>2 DEF Views
      <3>5. /\ DOMAIN mem' = {"act", "quant", "scale", "sum"}
            /\ \A b \in DOMAIN mem' : DOMAIN mem'[b] = 0 .. BufferSize(job.sz, rows)[b] - 1
        BY <2>2 DEF Allocate
      <3> QED  BY <3>2, <3>3, <3>4, <3>5
    <2> QED  BY <2>1, <2>2
  <1>3. \A v \in Names : View(v).in \in DOMAIN mem'
    <2> SUFFICES ASSUME NEW v \in Names PROVE View(v).in \in DOMAIN mem'
      OBVIOUS
    <2>1. CASE job.precision = "w16a16"
      BY <2>1 DEF View, Names, Allocate
    <2>2. CASE job.precision # "w16a16"
      BY <2>2 DEF View, Views, Names, Allocate
    <2> QED  BY <2>1, <2>2
  <1> QED  BY <1>1, <1>2, <1>3 DEF MemPart

LEMMA PreparedStep ==
  ASSUME FwdInv, pc = "idle", pc' \in {"raised", "embed"}, UNCHANGED <<job, done, kv, layer>>,
         Started' => AllImages /\ PassOK', MemPart'
  PROVE  FwdInv'
  <1>1. layer = 1 /\ ~ Started
    BY DEF FwdInv, ControlPart, Started
  <1>2. JobOK' /\ AllImages' = AllImages
    BY DEF FwdInv, JobPart, JobOK, AllImages
  <1>3. JobPart'
    BY <1>1, <1>2 DEF FwdInv, JobPart
  <1>4. KvPart'
    <2>1. kv' = [l \in Layers |-> kv'[l]]
      BY DEF FwdInv, KvPart
    <2>2. ASSUME NEW l \in Layers, NEW s \in SeqIds, NEW pos \in 0 .. CachedLen(l, s)' - 1
          PROVE  kv'[l][Tables[s][1 + pos \div BlockSize]][pos % BlockSize] = Val("rope", l, TokenAt(s, pos)')
      <3>1. TokenAt(s, pos)' = TokenAt(s, pos) /\ ContextLen(s)' = ContextLen(s)
        BY DEF TokenAt, ContextLen, PromptLen, ImageExtra
      <3>2. ~ Passed(l)'
        <4>1. l \in Nat /\ ~ (l < 1)
          BY ForwardAssumption DEF Layers
        <4> QED  BY <1>1, <4>1 DEF Passed, AfterKv
      <3>3. CachedLen(l, s)' = CachedLen(l, s)
        BY <1>1, <3>1, <3>2 DEF CachedLen
      <3>4. kv[l][Tables[s][1 + pos \div BlockSize]][pos % BlockSize] = Val("rope", l, TokenAt(s, pos))
        BY <3>3 DEF FwdInv, KvPart
      <3> QED  BY <3>1, <3>4
    <2> QED  BY <2>1, <2>2 DEF KvPart
  <1>5. HiddenPart' /\ BufferPart' /\ SampledFromLast'
    BY DEF HiddenPart, BufferPart, SampledFromLast, FirstHalf, SecondHalf, BeforeKv, KvKernels
  <1>6. ControlPart'
    BY <1>1 DEF ControlPart, InLayer, BeforeKv, AfterKv, KvKernels
  <1> QED  BY <1>3, <1>4, <1>5, <1>6 DEF FwdInv

LEMMA OrderFacts ==
  ASSUME NEW S, NEW seqs \in Orders(S), S \subseteq SeqIds
  PROVE  \E n \in Nat \ {0} : seqs \in [1 .. n -> S] /\ IsInjective(seqs)
  <1>1. PICK n \in 1 .. Cardinality(S) : seqs \in [1 .. n -> S] /\ IsInjective(seqs)
    BY DEF Orders
  <1>2. n \in Nat \ {0}
    OBVIOUS
  <1> QED  BY <1>1, <1>2

LEMMA PreparePromptStep ==
  ASSUME FwdInv, PreparePrompt
  PROVE  FwdInv'
  <1>1. /\ pc = "idle" /\ UNCHANGED <<job, done, kv, layer>>
        /\ pc' = IF job.vlm /\ job.images # job.imgPerSeq THEN "raised" ELSE "embed"
    BY DEF PreparePrompt
  <1>2. PICK seqs \in Orders(New) :
             LET lens == [b \in DOMAIN seqs |-> ContextLen(seqs[b])]
             IN  /\ batch' = [prompt |-> TRUE, seqs |-> seqs, context |-> lens,
                              cuSeqlens |-> CuSeqlens(lens), maxSeqLen |-> MaxIn(lens),
                              rows |-> PromptRows(seqs)]
                 /\ Allocate(batch'.rows)
    BY DEF PreparePrompt
  <1> DEFINE lens == [b \in DOMAIN seqs |-> ContextLen(seqs[b])]
  <1>3. /\ batch'.prompt = TRUE /\ batch'.seqs = seqs /\ batch'.context = lens
        /\ batch'.cuSeqlens = CuSeqlens(lens) /\ batch'.maxSeqLen = MaxIn(lens)
        /\ batch'.rows = PromptRows(seqs) /\ Allocate(batch'.rows)
    BY <1>2
  <1>4. PICK n \in Nat \ {0} : seqs \in [1 .. n -> New] /\ IsInjective(seqs)
    BY OrderFacts DEF New
  <1>5. /\ seqs \in [1 .. n -> SeqIds] /\ DOMAIN seqs = 1 .. n /\ Len(seqs) = n
        /\ \A b \in 1 .. n : seqs[b] \in SeqIds /\ done[seqs[b]] = 0
    BY <1>4 DEF New
  <1>6. JobOK /\ done \in [SeqIds -> 0 .. MaxGenerated]
    BY DEF FwdInv, JobPart
  <1>7. /\ lens = [b \in 1 .. n |-> PromptLen(seqs[b]) + ImageExtra]
    <2>1. ASSUME NEW b \in 1 .. n
          PROVE  ContextLen(seqs[b]) = PromptLen(seqs[b]) + ImageExtra
      <3>1. PromptLen(seqs[b]) \in Nat /\ ImageExtra \in Nat
        BY <1>5, <1>6, TextFacts, ExtraIsNatural
      <3> QED  BY <1>5, <3>1 DEF ContextLen
    <2> QED  BY <1>5, <2>1
  <1>8. lens = [b \in 1 .. n |-> ContextLen(seqs[b])]
    BY <1>5
  <1> HIDE DEF lens
  <1>9. PromptRows(seqs) = CuSeqlens(lens)[n + 1] /\ PromptRows(seqs) \in Nat
    <2>1. Starts(CuSeqlens(lens), n, lens) /\ PromptRows(seqs) = CuSeqlens(lens)[n + 1]
      BY <1>5, <1>6, <1>7, PromptRowsFacts
    <2>2. n + 1 \in 1 .. n + 1
      OBVIOUS
    <2> QED  BY <2>1, <2>2 DEF Starts
  <1>10. PassOK'
    <2>1. NB' = n
      BY <1>3, <1>5 DEF NB
    <2>2. \A s : ContextLen(s)' = ContextLen(s)
      BY <1>1 DEF ContextLen, PromptLen, ImageExtra
    <2> QED  BY <1>1, <1>3, <1>4, <1>5, <1>8, <1>9, <2>1, <2>2 DEF PassOK
  <1>11. MemPart'
    BY <1>1, <1>3, <1>6, <1>9, Allocated
  <1>12. Started' => AllImages
    BY <1>1 DEF Started, AllImages
  <1> QED  BY <1>1, <1>10, <1>11, <1>12, PreparedStep

LEMMA PrepareDecodeStep ==
  ASSUME FwdInv, PrepareDecode
  PROVE  FwdInv'
  <1>1. pc = "idle" /\ UNCHANGED <<job, done, kv, layer>> /\ pc' = "embed"
    BY DEF PrepareDecode
  <1>2. PICK seqs \in Orders(Running) :
             LET lens == [b \in DOMAIN seqs |-> ContextLen(seqs[b])]
             IN  /\ batch' = [prompt |-> FALSE, seqs |-> seqs, context |-> lens,
                              cuSeqlens |-> <<0>>, maxSeqLen |-> MaxIn(lens), rows |-> Len(seqs)]
                 /\ Allocate(batch'.rows)
    BY DEF PrepareDecode
  <1> DEFINE lens == [b \in DOMAIN seqs |-> ContextLen(seqs[b])]
  <1>3. /\ batch'.prompt = FALSE /\ batch'.seqs = seqs /\ batch'.context = lens
        /\ batch'.cuSeqlens = <<0>> /\ batch'.maxSeqLen = MaxIn(lens)
        /\ batch'.rows = Len(seqs) /\ Allocate(batch'.rows)
    BY <1>2
  <1>4. PICK n \in Nat \ {0} : seqs \in [1 .. n -> Running] /\ IsInjective(seqs)
    BY OrderFacts DEF Running
  <1>5. /\ seqs \in [1 .. n -> SeqIds] /\ DOMAIN seqs = 1 .. n /\ Len(seqs) = n
        /\ \A b \in 1 .. n : seqs[b] \in SeqIds /\ done[seqs[b]] > 0 /\ done[seqs[b]] < MaxGenerated
    BY <1>4 DEF Running
  <1>6. JobOK /\ done \in [SeqIds -> 0 .. MaxGenerated]
    BY DEF FwdInv, JobPart
  <1>7. \A b \in 1 .. n : done[seqs[b]] \in 1 .. MaxGenerated - 1
    BY <1>5, <1>6, ForwardAssumption
  <1>8. lens = [b \in 1 .. n |-> ContextLen(seqs[b])]
    BY <1>5
  <1> HIDE DEF lens
  <1>10. PassOK'
    <2>1. NB' = n
      BY <1>3, <1>5 DEF NB
    <2>2. \A s : ContextLen(s)' = ContextLen(s)
      BY <1>1 DEF ContextLen, PromptLen, ImageExtra
    <2> QED  BY <1>1, <1>3, <1>4, <1>5, <1>7, <1>8, <2>1, <2>2 DEF PassOK
  <1>11. MemPart'
    BY <1>1, <1>3, <1>5, <1>6, Allocated
  <1>12. AllImages
    <2>1. 1 \in 1 .. n
      OBVIOUS
    <2> QED  BY <1>5, <2>1 DEF FwdInv, JobPart
  <1> QED  BY <1>1, <1>10, <1>11, <1>12, PreparedStep

LEMMA InitInvariant ==
  ASSUME Init
  PROVE  FwdInv
  <1>1. pc = "idle" /\ layer = 1 /\ done = [s \in SeqIds |-> 0]
    BY DEF Init
  <1>2. JobOK
    <2>1. PICK m \in Models, perSeq \in ImagesPerSeq, images \in Images, sz \in Sizes,
               prompt \in [SeqIds -> Prompts] :
                 /\ ~m[2] => images = 0 /\ perSeq = 1
                 /\ job = [precision |-> m[1], vlm |-> m[2], imgPerSeq |-> perSeq,
                           images |-> images, prompt |-> prompt, sz |-> sz]
      BY DEF Init
    <2>2. m[1] \in {"w4a8-channel", "w4a8-group", "w8a8", "w16a16"} /\ m[2] \in BOOLEAN
      BY DEF Models
    <2>3. /\ job.precision = m[1] /\ job.vlm = m[2] /\ job.imgPerSeq = perSeq
          /\ job.images = images /\ job.prompt = prompt /\ job.sz = sz
      BY <2>1
    <2> QED  BY <2>1, <2>2, <2>3 DEF JobOK
  <1>3. JobPart
    <2>1. MaxGenerated \in Nat
      BY ForwardAssumption
    <2> QED  BY <1>1, <1>2, <2>1 DEF JobPart, Started
  <1>4. KvPart
    <2>1. kv = [l \in Layers |-> kv[l]]
      BY DEF Init
    <2>2. \A l \in Layers, s \in SeqIds : CachedLen(l, s) = 0
      BY <1>1 DEF CachedLen, Started
    <2> QED  BY <2>1, <2>2 DEF KvPart
  <1>5. MemPart /\ HiddenPart /\ BufferPart /\ SampledFromLast /\ ControlPart
    BY <1>1 DEF MemPart, Started, HiddenPart, BufferPart, SampledFromLast, ControlPart,
                FirstHalf, SecondHalf, InLayer, BeforeKv, AfterKv, KvKernels
  <1> QED  BY <1>3, <1>4, <1>5 DEF FwdInv

LEMMA StutterInvariant ==
  ASSUME FwdInv, UNCHANGED vars
  PROVE  FwdInv'
  <1>1. UNCHANGED <<job, done, batch, mem, hidden, attn, kv, logits, layer, pc>>
    BY DEF vars
  <1>2. /\ RowTokens' = RowTokens /\ Rows' = Rows /\ Names' = Names
        /\ JobOK' = JobOK /\ PassOK' = PassOK /\ AllImages' = AllImages
        /\ WithScales("qHidden")' = WithScales("qHidden") /\ WithScales("qMlp")' = WithScales("qMlp")
    BY <1>1, SameRows
  <1>3. JobPart'
    BY <1>1, <1>2 DEF FwdInv, JobPart, Started
  <1>4. ControlPart'
    BY <1>1 DEF FwdInv, ControlPart
  <1>5. MemPart'
    BY <1>1, <1>2 DEF FwdInv, MemPart, Started, View
  <1>6. HiddenPart'
    BY <1>1, <1>2 DEF FwdInv, HiddenPart
  <1>7. BufferPart'
    <2>1. \A v, r : Read(v, r)' = Read(v, r)
      BY <1>1 DEF Read, View
    <2>2. \A of : Holds({"qkv"}, of)' = Holds({"qkv"}, of) /\ Holds({"outDown"}, of)' = Holds({"outDown"}, of)
                  /\ Holds({"gateUp"}, of)' = Holds({"gateUp"}, of)
      BY <1>1, <1>2, <2>1 DEF Holds
    <2>3. \A of : /\ Holds(WithScales("qHidden"), of)' = Holds(WithScales("qHidden"), of)
                  /\ Holds(WithScales("qMlp"), of)' = Holds(WithScales("qMlp"), of)
      BY <1>1, <1>2, <2>1 DEF Holds
    <2> QED  BY <1>1, <1>2, <2>2, <2>3 DEF FwdInv, BufferPart
  <1>8. KvPart'
    <2>1. \A s, pos : TokenAt(s, pos)' = TokenAt(s, pos)
      BY <1>1 DEF TokenAt
    <2>2. \A l, s : CachedLen(l, s)' = CachedLen(l, s)
      BY <1>1 DEF CachedLen, Started, BatchSeqs, NB, Passed, ContextLen, PromptLen, ImageExtra
    <2> QED  BY <1>1, <2>1, <2>2 DEF FwdInv, KvPart
  <1>9. SampledFromLast'
    <2>1. \A s, pos : TokenAt(s, pos)' = TokenAt(s, pos)
      BY <1>1 DEF TokenAt
    <2>2. \A s : ContextLen(s)' = ContextLen(s)
      BY <1>1 DEF ContextLen, PromptLen, ImageExtra
    <2> QED  BY <1>1, <2>1, <2>2 DEF FwdInv, SampledFromLast
  <1> QED  BY <1>3, <1>4, <1>5, <1>6, <1>7, <1>8, <1>9 DEF FwdInv

(* Through every pass the buffers, the hidden states and the cache hold    *)
(* what the model means them to, whatever the sizes, the images, the       *)
(* tables and the batches.                                                 *)
THEOREM PassInvariant == Spec => []FwdInv
  <1>1. Init => FwdInv
    BY InitInvariant
  <1>2. FwdInv /\ [Next]_vars => FwdInv'
    <2> SUFFICES ASSUME FwdInv, [Next]_vars PROVE FwdInv'
      OBVIOUS
    <2>1. CASE PreparePrompt
      BY <2>1, PreparePromptStep
    <2>2. CASE PrepareDecode
      BY <2>2, PrepareDecodeStep
    <2>3. CASE Embed
      BY <2>3, EmbedStep
    <2>4. CASE DecoderLayer
      <3>1. CASE Attention
        BY <3>1, QkvProjStep, UpdateKvCacheStep, FlashAttnStep, SingleQueryStep,
           QuantizeAttentionStep, OProjStep DEF Attention
      <3>2. CASE Mlp
        BY <3>2, GateUpProjStep, ActFnStep, DownProjStep DEF Mlp
      <3> QED  BY <2>4, <3>1, <3>2, InputNormStep, AddAttentionStep, PostNormStep, AddMlpStep
               DEF DecoderLayer
    <2>5. CASE LmHead
      BY <2>5, LmHeadStep
    <2>6. CASE Sample
      BY <2>6, SampleStep
    <2>7. CASE UNCHANGED vars
      BY <2>7, StutterInvariant
    <2> QED  BY <2>1, <2>2, <2>3, <2>4, <2>5, <2>6, <2>7 DEF Next, Forward
  <1> QED  BY <1>1, <1>2, PTL DEF Spec

(* The views of every pass fit its buffers.                                *)
THEOREM PassViewsFit == Spec => []ViewsFit
  <1>1. FwdInv => ViewsFit
    <2> SUFFICES ASSUME FwdInv, job.precision # "w16a16", pc \notin {"idle", "raised"}, NEW r \in Rows,
                        NEW v \in DOMAIN Views(job.sz)
                 PROVE  RowCells(Views(job.sz)[v], r) \subseteq DOMAIN mem[Views(job.sz)[v].in]
      BY DEF ViewsFit
    <2>1. v \in Names /\ View(v) = Views(job.sz)[v] /\ Started
      BY DEF Names, View, Views, Started
    <2> QED  BY <2>1 DEF FwdInv, MemPart
  <1> QED  BY <1>1, PassInvariant, PTL

(* After each half of a layer hidden_states are the model's.               *)
THEOREM HiddenStatesCorrect == Spec => []HiddenIsTheModels
  <1>1. FwdInv => HiddenIsTheModels
    BY DEF FwdInv, HiddenPart, HiddenIsTheModels, FirstHalf, SecondHalf, BeforeKv
  <1> QED  BY <1>1, PassInvariant, PTL

(* Between passes every layer has cached all there is to attend to.        *)
THEOREM CachesComplete == Spec => []CacheIsComplete
  <1>1. FwdInv => CacheIsComplete
    <2> SUFFICES ASSUME FwdInv, pc = "idle", NEW s \in SeqIds, NEW l \in Layers, done[s] >= 1,
                        NEW pos \in 0 .. ContextLen(s) - 2
                 PROVE  kv[l][Tables[s][1 + pos \div BlockSize]][pos % BlockSize]
                          = Val("rope", l, TokenAt(s, pos))
      BY DEF CacheIsComplete
    <2>1. CachedLen(l, s) = ContextLen(s) - 1
      BY DEF CachedLen, Started
    <2>2. ContextLen(s) \in Nat
      <3>1. PromptLen(s) \in Nat /\ ImageExtra \in Nat /\ done[s] \in Nat
        BY TextFacts, ExtraIsNatural, ForwardAssumption DEF FwdInv, JobPart
      <3> QED  BY <3>1 DEF ContextLen
    <2>3. pos \in 0 .. CachedLen(l, s) - 1
      BY <2>1, <2>2
    <2> QED  BY <2>3 DEF FwdInv, KvPart
  <1> QED  BY <1>1, PassInvariant, PTL

(* Every sequence's next token is sampled from its last position.          *)
THEOREM SampledCorrectly == Spec => []SampledFromLast
  <1>1. FwdInv => SampledFromLast
    BY DEF FwdInv
  <1> QED  BY <1>1, PassInvariant, PTL
=============================================================================
