---------------------------- MODULE KvShapeProofs ----------------------------
(***************************************************************************)
(* Proofs about KvShape, for any word size and any shapes and lengths.     *)
(***************************************************************************)
EXTENDS KvShape, DataInduction, FiniteSetTheorems

Word == 0 .. WordSize - 1

\* A sum that passes the word once is cut by one word.
LEMMA Wraps ==
    ASSUME NEW x \in Nat, x >= WordSize, x < 2 * WordSize
    PROVE  x % WordSize = x - WordSize
  <1>1. WordSize \in Nat /\ WordSize > 0
    BY LengthsAreWords
  <1>2. x = WordSize * (x \div WordSize) + (x % WordSize) /\ x % WordSize \in 0 .. WordSize - 1
        /\ x \div WordSize \in Nat
    BY <1>1
  <1>3. x \div WordSize = 1
    BY <1>1, <1>2
  <1>4. QED
    BY <1>1, <1>2, <1>3

\* What a blob section consists of.
BlobSections == [logits_present : 0 .. 2, kv_len : Word, logits_len : Word, len : Word]

BlobInv ==
    /\ blob # None => blob \in BlobSections
    /\ outcome # None => blob # None

\* No action but Write and Foreign makes a blob, and none makes one that is not
\* a section.
LEMMA NextBlob == BlobInv /\ [Next]_vars => BlobInv'
  <1> SUFFICES ASSUME BlobInv, [Next]_vars PROVE BlobInv'
    OBVIOUS
  <1> USE DEF BlobInv
  <1>1. ASSUME NEW kv \in KvLengths, NEW logits \in Logits, Write(kv, logits)
        PROVE  BlobInv'
    <2>1. kv \in Word /\ WordSize \in Nat
      BY LengthsAreWords DEF KvLengths, Word
    <2>2. logits.some => logits.is \in Word
      BY LengthsAreWords DEF Logits, Absent, Some, Word
    <2>3. blob' \in BlobSections
      <3>1. Encode(kv, logits).len \in Word
        BY <1>1, <2>1, <2>2 DEF Write, Encode, BlobHeader, FlagBytes, LengthBytes, Word
      <3>2. Encode(kv, logits) \in BlobSections
        BY <2>1, <2>2, <3>1 DEF Encode, BlobSections, Word
      <3>3. QED
        BY <1>1, <3>2 DEF Write
    <2>4. blob' # None
      BY <2>3 DEF BlobSections, None
    <2>5. QED
      BY <2>3, <2>4
  <1>2. ASSUME NEW b \in Sections, Foreign(b) PROVE BlobInv'
    <2>1. b \in BlobSections
      BY LengthsAreWords DEF Sections, BlobSections, Word
    <2>2. b # None
      BY <2>1 DEF BlobSections, None
    <2>3. QED
      BY <1>2, <2>1, <2>2 DEF Foreign
  <1>3. CASE Read
    BY <1>3 DEF Read
  <1>4. CASE UNCHANGED vars
    BY <1>4 DEF vars
  <1>5. QED
    BY <1>1, <1>2, <1>3, <1>4 DEF Next

\* A blob section that decode takes has the length of the encoding of what it
\* returns: a second sum that wraps never meets the length it is compared with.
LEMMA DecodeIsCanonical ==
    ASSUME NEW b \in BlobSections, Decode(b).kind = "ok"
    PROVE  LET canonical == Encode(Decode(b).kv, Decode(b).logits)
           IN b.len = canonical.len /\ b.logits_present = canonical.logits_present
  <1> DEFINE cursor == BlobHeader + b.kv_len
             logitsEnd == cursor + LengthBytes + b.logits_len
  <1>1. /\ WordSize \in Nat /\ b.kv_len \in Word /\ b.logits_len \in Word /\ b.len \in Word
        /\ b.logits_present \in 0 .. 2
    BY LengthsAreWords DEF BlobSections
  <1>2. /\ b.len >= cursor /\ cursor < WordSize /\ cursor \in Nat /\ logitsEnd \in Nat
        /\ \/ b.logits_present = 0 /\ b.len = cursor /\ Decode(b) = Parsed(b.kv_len, Absent)
           \/ /\ b.logits_present = 1 /\ b.len = logitsEnd % WordSize
              /\ b.len >= cursor + LengthBytes
              /\ Decode(b) = Parsed(b.kv_len, Some(b.logits_len))
    BY <1>1 DEF Decode, Malformed, Panics, Word, BlobHeader, FlagBytes, LengthBytes
  <1>3. b.logits_present = 1 => b.len = logitsEnd
    <2> SUFFICES ASSUME b.logits_present = 1 PROVE b.len = logitsEnd
      OBVIOUS
    <2>1. b.len = logitsEnd % WordSize /\ b.len >= cursor + LengthBytes
      BY <1>2
    <2>2. logitsEnd < 2 * WordSize
      BY <1>1, <1>2, <2>1 DEF Word, LengthBytes
    <2>3. logitsEnd < WordSize
      BY <1>1, <1>2, <2>1, <2>2, Wraps DEF Word, LengthBytes
    <2>4. QED
      BY <1>2, <2>1, <2>3, LengthsAreWords
  <1>4. CASE b.logits_present = 0
    BY <1>1, <1>2, <1>4 DEF Parsed, Encode, Absent, Word, BlobHeader, FlagBytes, LengthBytes
  <1>5. CASE b.logits_present = 1
    BY <1>1, <1>2, <1>3, <1>5
    DEF Parsed, Encode, Some, Word, BlobHeader, FlagBytes, LengthBytes
  <1>6. QED
    BY <1>2, <1>4, <1>5

\* What the reader's two checks make of a section.
LEMMA ReadIs ==
    ASSUME Read
    PROVE  /\ outcome' = Decode(blob) \/ outcome' = Malformed \/ outcome' = Panics
           /\ outcome'.kind = "ok" => outcome' = Decode(blob)
  <1>1. Malformed # Panics /\ Malformed.kind # "ok" /\ Panics.kind # "ok"
    BY DEF Malformed, Panics
  <1>2. QED
    BY <1>1 DEF Read, CheckSize

\* The reader accepts only the one encoding of the blob it returns, for every
\* word size, in both builds.
THEOREM AcceptedAlwaysCanonical == Spec => []AcceptedIsCanonical
  <1>1. Init => BlobInv /\ AcceptedIsCanonical
    BY DEF Init, BlobInv, AcceptedIsCanonical, None
  <1>2. BlobInv /\ AcceptedIsCanonical /\ [Next]_vars => AcceptedIsCanonical'
    <2> SUFFICES ASSUME BlobInv, AcceptedIsCanonical, [Next]_vars PROVE AcceptedIsCanonical'
      OBVIOUS
    <2>1. CASE Read
      <3>1. blob' = blob /\ blob \in BlobSections
        BY <2>1 DEF Read, BlobInv
      <3>2. outcome'.kind = "ok" => outcome' = Decode(blob)
        BY <2>1, ReadIs
      <3>3. QED
        BY <3>1, <3>2, DecodeIsCanonical DEF AcceptedIsCanonical
    <2>2. ASSUME NEW kv \in KvLengths, NEW logits \in Logits, Write(kv, logits)
          PROVE  AcceptedIsCanonical'
      BY <2>2 DEF Write, BlobInv, AcceptedIsCanonical, None
    <2>3. ASSUME NEW b \in Sections, Foreign(b) PROVE AcceptedIsCanonical'
      BY <2>3 DEF Foreign, BlobInv, AcceptedIsCanonical, None
    <2>4. CASE UNCHANGED vars
      BY <2>4 DEF vars, AcceptedIsCanonical
    <2>5. QED
      BY <2>1, <2>2, <2>3, <2>4 DEF Next
  <1>3. QED
    BY <1>1, <1>2, NextBlob, PTL DEF Spec

------------------------------------------------------------------------------
(***************************************************************************)
(* Sizes: what expected_blob_bytes comes to where nothing overflows.       *)
(***************************************************************************)

\* The running products are what their recursion says.
LEMMA RunningIs ==
    ASSUME NEW f, Len(f) \in Nat, \A k \in 1 .. Len(f) : f[k] \in Nat
    PROVE  \A k \in 1 .. Len(f) : Running(f)[k] = IF k = 1 THEN f[1] ELSE Running(f)[k - 1] * f[k]
  <1> DEFINE n == Len(f)
             Fn(p) == p = [k \in 1 .. n |-> IF k = 1 THEN f[1] ELSE p[k - 1] * f[k]]
             step == [k \in 1 .. n |-> [x \in Nat |-> x * f[k]]]
             a == IF n = 0 THEN 0 ELSE f[1]
  <1>1. step \in [1 .. n -> [Nat -> Nat]]
    OBVIOUS
  <1>2. a \in Nat
    OBVIOUS
  <1>3. PICK g \in [1 .. n -> Nat] : Recursive(g, n, a, step)
    <2> DEFINE D == Nat
    <2>1. n \in Nat /\ a \in D /\ step \in [1 .. n -> [D -> D]]
      BY <1>1, <1>2
    <2> HIDE DEF step, a, n, Fn, D
    <2>2. \E g \in [1 .. n -> D] : Recursive(g, n, a, step)
      BY <2>1, Recursion
    <2>3. QED
      BY <2>2 DEF D
  <1>4. ASSUME NEW k \in 1 .. n PROVE g[k] = IF k = 1 THEN f[1] ELSE g[k - 1] * f[k]
    <2>1. CASE k = 1
      <3>1. g[k] = a
        <4> HIDE DEF a, step
        <4> QED
          BY <1>3, <2>1 DEF Recursive
      <3>2. n # 0
        BY <2>1
      <3>3. QED
        BY <2>1, <3>1, <3>2
    <2>2. CASE k # 1
      <3>1. k - 1 \in 1 .. n
        BY <2>2
      <3>2. g[k - 1] \in Nat
        BY <3>1
      <3>3. step[k][g[k - 1]] = g[k - 1] * f[k]
        BY <3>2
      <3>4. QED
        BY <1>3, <2>2, <3>3 DEF Recursive
    <2>3. QED
      BY <2>1, <2>2
  <1>5. Fn(g)
    BY <1>4
  <1>6. Running(f) = CHOOSE p : Fn(p)
    BY DEF Running
  <1>7. Fn(Running(f))
    <2> HIDE DEF Fn
    <2> QED
      BY <1>5, <1>6
  <1>8. QED
    BY <1>7

\* Products of three, four and six factors, and the last of a chain.
LEMMA ProductOfThree ==
    ASSUME NEW a \in Nat, NEW b \in Nat, NEW c \in Nat
    PROVE  Product(<<a, b, c>>) = a * b * c /\ Product(<<a, b, c>>) \in Chain(<<a, b, c>>)
  <1> DEFINE f == <<a, b, c>>
             r == Running(f)
  <1>1. Len(f) = 3 /\ f[1] = a /\ f[2] = b /\ f[3] = c
    OBVIOUS
  <1> HIDE DEF f
  <1>2. \A k \in 1 .. 3 : r[k] = IF k = 1 THEN f[1] ELSE r[k - 1] * f[k]
    <2>1. Len(f) \in Nat /\ \A k \in 1 .. Len(f) : f[k] \in Nat
      BY <1>1
    <2>2. QED
      BY <1>1, <2>1, RunningIs
  <1> HIDE DEF r
  <1>3. r[1] = a /\ r[2] = r[1] * b /\ r[3] = r[2] * c
    BY <1>1, <1>2
  <1>4. Product(f) = r[3] /\ Chain(f) = {r[k] : k \in 1 .. 3}
    BY <1>1 DEF Product, Chain, r
  <1>5. QED
    BY <1>3, <1>4 DEF f

LEMMA ProductOfFour ==
    ASSUME NEW a \in Nat, NEW b \in Nat, NEW c \in Nat, NEW d \in Nat
    PROVE  /\ Product(<<a, b, c, d>>) = a * b * c * d
           /\ Product(<<a, b, c, d>>) \in Chain(<<a, b, c, d>>)
  <1> DEFINE f == <<a, b, c, d>>
             r == Running(f)
  <1>1. Len(f) = 4 /\ f[1] = a /\ f[2] = b /\ f[3] = c /\ f[4] = d
    OBVIOUS
  <1> HIDE DEF f
  <1>2. \A k \in 1 .. 4 : r[k] = IF k = 1 THEN f[1] ELSE r[k - 1] * f[k]
    <2>1. Len(f) \in Nat /\ \A k \in 1 .. Len(f) : f[k] \in Nat
      BY <1>1
    <2>2. QED
      BY <1>1, <2>1, RunningIs
  <1> HIDE DEF r
  <1>3. r[1] = a /\ r[2] = r[1] * b /\ r[3] = r[2] * c /\ r[4] = r[3] * d
    BY <1>1, <1>2
  <1>4. Product(f) = r[4] /\ Chain(f) = {r[k] : k \in 1 .. 4}
    BY <1>1 DEF Product, Chain, r
  <1>5. QED
    BY <1>3, <1>4 DEF f

LEMMA ProductOfSix ==
    ASSUME NEW a \in Nat, NEW b \in Nat, NEW c \in Nat, NEW d \in Nat, NEW e \in Nat
    PROVE  /\ Product(<<a, b, c, d, e, 2>>) = a * b * c * d * e * 2
           /\ Product(<<a, b, c, d, e, 2>>) \in Chain(<<a, b, c, d, e, 2>>)
  <1> DEFINE f == <<a, b, c, d, e, 2>>
             r == Running(f)
  <1>1. Len(f) = 6 /\ f[1] = a /\ f[2] = b /\ f[3] = c /\ f[4] = d /\ f[5] = e /\ f[6] = 2
    OBVIOUS
  <1> HIDE DEF f
  <1>2. \A k \in 1 .. 6 : r[k] = IF k = 1 THEN f[1] ELSE r[k - 1] * f[k]
    <2>1. Len(f) \in Nat /\ \A k \in 1 .. Len(f) : f[k] \in Nat
      BY <1>1
    <2>2. QED
      BY <1>1, <2>1, RunningIs
  <1> HIDE DEF r
  <1>3. /\ r[1] = a /\ r[2] = r[1] * b /\ r[3] = r[2] * c
        /\ r[4] = r[3] * d /\ r[5] = r[4] * e /\ r[6] = r[5] * 2
    BY <1>1, <1>2
  <1>4. Product(f) = r[6] /\ Chain(f) = {r[k] : k \in 1 .. 6}
    BY <1>1 DEF Product, Chain, r
  <1>5. QED
    BY <1>3, <1>4 DEF f

\* What a divisor goes into is a multiple of it.
LEMMA Divides ==
    ASSUME NEW d \in Nat, d > 0, NEW x \in Nat, x % d = 0
    PROVE  x \div d \in Nat /\ x = d * (x \div d)
  OBVIOUS

\* Division with a remainder: the quotient is the only one that leaves less than
\* the divisor.
LEMMA DivRest ==
    ASSUME NEW d \in Nat, d > 0, NEW x \in Nat, NEW z \in 0 .. d - 1
    PROVE  (d * x + z) \div d = x
  <1> DEFINE n == d * x + z
             q == n \div d
             r == n % d
  <1>1. n \in Nat
    OBVIOUS
  <1>2. q \in Nat /\ r \in 0 .. d - 1 /\ d * x + z = d * q + r
    <2> HIDE DEF n
    <2>1. q \in Nat /\ r \in 0 .. d - 1 /\ n = d * q + r
      BY <1>1
    <2>2. QED
      BY <2>1 DEF n
  <1> HIDE DEF q, r
  <1>3. ~(q < x)
    <2> SUFFICES ASSUME q < x PROVE FALSE
      OBVIOUS
    <2> DEFINE y == x - q
    <2>1. y \in Nat /\ y >= 1 /\ x = q + y
      BY <1>2
    <2> HIDE DEF y
    <2>2. d * (q + y) = d * q + d * y
      BY <1>2, <2>1
    <2>3. d * y >= d
      BY <2>1
    <2>4. d * q \in Nat /\ d * y \in Nat
      BY <1>2, <2>1
    <2>5. QED
      BY <1>2, <2>1, <2>2, <2>3, <2>4
  <1>4. ~(q > x)
    <2> SUFFICES ASSUME q > x PROVE FALSE
      OBVIOUS
    <2> DEFINE y == q - x
    <2>1. y \in Nat /\ y >= 1 /\ q = x + y
      BY <1>2
    <2> HIDE DEF y
    <2>2. d * (x + y) = d * x + d * y
      BY <2>1
    <2>3. d * y >= d
      BY <2>1
    <2>4. d * x \in Nat /\ d * y \in Nat
      BY <2>1
    <2>5. QED
      BY <1>2, <2>1, <2>2, <2>3, <2>4
  <1>5. QED
    BY <1>2, <1>3, <1>4 DEF q

\* Division without a remainder.
LEMMA DivExact ==
    ASSUME NEW d \in Nat, d > 0, NEW x \in Nat
    PROVE  (d * x) \div d = x
  <1>1. 0 \in 0 .. d - 1 /\ d * x + 0 = d * x
    OBVIOUS
  <1>2. (d * x + 0) \div d = x
    BY <1>1, DivRest
  <1>3. QED
    BY <1>1, <1>2

\* Dividing n times d by g: n times the quotient of d, and what the n remainders
\* come to together, which is less than n.
LEMMA DivTimes ==
    ASSUME NEW g \in Nat, g > 0, NEW d \in Nat, NEW n \in Nat
    PROVE  \E x \in 0 .. n :
              /\ (n * d) \div g = n * (d \div g) + x
              /\ d % g = 0 => x = 0
  <1> DEFINE r == d \div g
             m == d % g
             y == n * m
             x == y \div g
             z == y % g
  <1>1. r \in Nat /\ m \in 0 .. g - 1 /\ d = g * r + m
    OBVIOUS
  <1>2. y \in Nat
    BY <1>1
  <1> HIDE DEF r, m
  <1>3. x \in Nat /\ z \in 0 .. g - 1 /\ y = g * x + z
    <2> HIDE DEF y
    <2> QED
      BY <1>2
  <1>4. m = 0 => y = 0
    BY <1>1
  <1>5. y <= n * g
    <2>1. n * m <= n * g
      BY <1>1
    <2>2. QED
      BY <2>1
  <1> HIDE DEF x, z
  <1>6. n * d = g * (n * r + x) + z
    <2>1. n * d = n * (g * r) + y
      BY <1>1, <1>2
    <2>2. n * (g * r) + g * x = g * (n * r + x)
      BY <1>1, <1>3
    <2> HIDE DEF y
    <2>3. n * (g * r) \in Nat /\ g * x \in Nat /\ g * (n * r + x) \in Nat
      BY <1>1, <1>3
    <2>4. QED
      BY <1>2, <1>3, <2>1, <2>2, <2>3
  <1>7. n * r + x \in Nat
    BY <1>1, <1>3
  <1>8. (n * d) \div g = n * r + x
    <2> DEFINE k == n * r + x
    <2>1. k \in Nat /\ n * d = g * k + z
      BY <1>6, <1>7
    <2> HIDE DEF k
    <2>2. (g * k + z) \div g = k
      BY <1>3, <2>1, DivRest
    <2>3. QED
      BY <2>1, <2>2 DEF k
  <1> HIDE DEF y
  <1>9. x <= n
    <2> SUFFICES ASSUME x > n PROVE FALSE
      BY <1>3
    <2>1. g * x >= g * (n + 1)
      BY <1>3
    <2>2. g * (n + 1) = n * g + g /\ n * g \in Nat /\ g * x \in Nat
      BY <1>3
    <2>3. QED
      BY <1>3, <1>5, <2>1, <2>2
  <1>10. m = 0 => x = 0
    <2> SUFFICES ASSUME m = 0 PROVE x = 0
      OBVIOUS
    <2>1. y = 0
      BY <1>4
    <2>2. y \div g = 0
      BY <2>1
    <2>3. QED
      BY <2>2 DEF x
  <1>11. QED
    BY <1>3, <1>8, <1>9, <1>10 DEF r, m

\* A number that fits into the word is not cut.
LEMMA FitsWord ==
    ASSUME NEW x \in Nat, ~(x >= WordSize)
    PROVE  x % WordSize = x
  BY LengthsAreWords

\* Pairs with the numbers from 1 to k.
LEMMA TimesInterval ==
    ASSUME NEW S, IsFiniteSet(S), NEW k \in Nat
    PROVE  IsFiniteSet(S \X (1 .. k)) /\ Cardinality(S \X (1 .. k)) = Cardinality(S) * k
  <1> DEFINE T == 1 .. k
  <1>1. IsFiniteSet(T) /\ Cardinality(T) = k
    <2>1. 1 \in Int /\ k \in Int
      OBVIOUS
    <2>2. IsFiniteSet(1 .. k) /\ Cardinality(1 .. k) = IF 1 > k THEN 0 ELSE k - 1 + 1
      BY <2>1, FS_Interval
    <2>3. QED
      BY <2>2
  <1> HIDE DEF T
  <1>2. IsFiniteSet(S \X T) /\ Cardinality(S \X T) = Cardinality(S) * Cardinality(T)
    BY <1>1, FS_Product
  <1>3. IsFiniteSet(S \X T) /\ Cardinality(S \X T) = Cardinality(S) * k
    BY <1>1, <1>2
  <1>4. QED
    BY <1>3 DEF T

\* The sizes of the tensors, counted in TensorBytes.
Numbers(l, h, t, n) == ((({0, 1} \X (1 .. l)) \X (1 .. h)) \X (1 .. t)) \X (1 .. n)

LEMMA Counted ==
    ASSUME NEW l \in Nat, NEW h \in Nat, NEW t \in Nat, NEW n \in Nat
    PROVE  Cardinality(Numbers(l, h, t, n)) = 2 * l * h * t * n
  <1> DEFINE Z == {0, 1}
             A == Z \X (1 .. l)
             B == A \X (1 .. h)
             C == B \X (1 .. t)
             D == C \X (1 .. n)
  <1>1. IsFiniteSet(Z) /\ Cardinality(Z) = 2
    <2>1. Z = 0 .. 1 /\ 0 \in Int /\ 1 \in Int
      OBVIOUS
    <2>2. IsFiniteSet(0 .. 1) /\ Cardinality(0 .. 1) = IF 0 > 1 THEN 0 ELSE 1 - 0 + 1
      BY <2>1, FS_Interval
    <2>3. QED
      BY <2>1, <2>2
  <1> HIDE DEF Z
  <1>2. IsFiniteSet(A) /\ Cardinality(A) = 2 * l
    BY <1>1, TimesInterval
  <1> HIDE DEF A
  <1>3. IsFiniteSet(B) /\ Cardinality(B) = 2 * l * h
    BY <1>2, TimesInterval
  <1> HIDE DEF B
  <1>4. IsFiniteSet(C) /\ Cardinality(C) = 2 * l * h * t
    BY <1>3, TimesInterval
  <1> HIDE DEF C
  <1>5. Cardinality(D) = 2 * l * h * t * n
    BY <1>4, TimesInterval
  <1>6. QED
    BY <1>5 DEF Numbers, Z, A, B, C, D

\* The fields of a shape.
LEMMA ShapeFields ==
    ASSUME NEW s \in Shapes
    PROVE  /\ s.num_layers \in Nat /\ s.n_kv_heads \in Nat /\ s.head_dim \in Nat
           /\ s.num_tokens \in Nat /\ s.element_bytes \in Nat
           /\ s.quant.some \in BOOLEAN
           /\ s.quant.some => s.quant.is.group_size \in Nat /\ s.quant.is.bits \in Nat
  <1>1. /\ s.num_layers \in Dims /\ s.n_kv_heads \in Dims /\ s.head_dim \in Dims
        /\ s.num_tokens \in Dims /\ s.element_bytes \in {1, 2} /\ s.quant \in Quants
    BY DEF Shapes
  <1>2. s.quant = Absent \/ \E q \in [group_size : GroupSizes, bits : BitWidths] : s.quant = Some(q)
    BY <1>1 DEF Quants
  <1>3. /\ s.quant.some \in BOOLEAN
        /\ s.quant.some => s.quant.is.group_size \in Nat /\ s.quant.is.bits \in Nat
    <2>1. CASE s.quant = Absent
      <3>1. s.quant.some = FALSE
        BY <2>1 DEF Absent
      <3>2. QED
        BY <3>1
    <2>2. ASSUME NEW q \in [group_size : GroupSizes, bits : BitWidths], s.quant = Some(q)
          PROVE  /\ s.quant.some \in BOOLEAN
                 /\ s.quant.is.group_size \in Nat /\ s.quant.is.bits \in Nat
      <3>1. s.quant.some = TRUE /\ s.quant.is = q
        BY <2>2 DEF Some
      <3>2. q.group_size \in Nat /\ q.bits \in Nat
        BY FieldsAreNat
      <3>3. QED
        BY <3>1, <3>2
    <2>3. QED
      BY <1>2, <2>1, <2>2
  <1>4. \A x \in Dims : x \in Nat
    BY FieldsAreNat
  <1>5. \A x \in {1, 2} : x \in Nat
    OBVIOUS
  <1>6. /\ s.num_layers \in Nat /\ s.n_kv_heads \in Nat /\ s.head_dim \in Nat
        /\ s.num_tokens \in Nat
    BY <1>1, <1>4, Zenon
  <1>7. s.element_bytes \in Nat
    BY <1>1, <1>5, Zenon
  <1>8. QED
    BY <1>3, <1>6, <1>7

\* Where no operation overflows, expected_blob_bytes is what the tensors take:
\* first for a cache that is not quantized.
LEMMA PlainBytes ==
    ASSUME NEW s \in Shapes, ~s.quant.some, ~Overflows(s)
    PROVE  ExpectedBlobBytes(s) = TensorBytes(s)
  <1> DEFINE l == s.num_layers
             h == s.n_kv_heads
             d == s.head_dim
             t == s.num_tokens
             e == s.element_bytes
             p == Product(Plain(s))
  <1>1. l \in Nat /\ h \in Nat /\ d \in Nat /\ t \in Nat /\ e \in Nat
    BY ShapeFields
  <1>2. \A x \in Chain(Plain(s)) : ~(x >= WordSize)
    BY DEF Overflows, DividesByZero, Intermediates
  <1>3. Plain(s) = <<l, h, d, t, e, 2>>
    BY DEF Plain
  <1>4. ExpectedBlobBytes(s) = p % WordSize
    BY DEF ExpectedBlobBytes
  <1>5. TensorBytes(s) = Cardinality(Numbers(l, h, t, d)) * e
    BY DEF TensorBytes, Numbers
  <1> HIDE DEF l, h, d, t, e, p
  <1>6. p = l * h * d * t * e * 2 /\ p \in Chain(Plain(s))
    BY <1>1, <1>3, ProductOfSix, SMTT(60) DEF p
  <1>7. p \in Nat
    BY <1>1, <1>6
  <1>8. ExpectedBlobBytes(s) = p
    BY <1>2, <1>4, <1>6, <1>7, FitsWord
  <1>9. TensorBytes(s) = (2 * l * h * t * d) * e
    BY <1>1, <1>5, Counted
  <1>10. (2 * l * h * t * d) * e = l * h * d * t * e * 2
    BY <1>1
  <1>11. QED
    BY <1>6, <1>8, <1>9, <1>10

\* The groups that the rests of the heads may make: none if there is no rest.
Most(s) ==
    IF s.head_dim % s.quant.is.group_size = 0 THEN 0
    ELSE 2 * s.num_layers * s.n_kv_heads * s.num_tokens

\* And for one that is quantized: the tensors, and the groups of the rests.
LEMMA QuantizedBytes ==
    ASSUME NEW s \in Shapes, s.quant.some, s.quant.is.group_size # 0,
           (s.head_dim * s.quant.is.bits) % 8 = 0, ~Overflows(s)
    PROVE  /\ TensorBytes(s) \in Nat
           /\ \E groups \in 0 .. Most(s) :
                 ExpectedBlobBytes(s) = TensorBytes(s) + 2 * groups * s.element_bytes
  <1> DEFINE l == s.num_layers
             h == s.n_kv_heads
             d == s.head_dim
             t == s.num_tokens
             e == s.element_bytes
             g == s.quant.is.group_size
             b == s.quant.is.bits
             q == (d * b) \div 8
             r == d \div g
             ht == h * t
             all == Product(Elements(s))
             bits == Product(Bits(s))
             sum == Packed(s) + 2 * Scales(s)
             total == Product(Layers(s))
  <1>1. /\ l \in Nat /\ h \in Nat /\ d \in Nat /\ t \in Nat /\ e \in Nat /\ g \in Nat /\ b \in Nat
        /\ ht \in Nat
    BY ShapeFields
  <1>2. g > 0 /\ (d * b) % 8 = 0
    BY <1>1
  <1>3. ~DividesByZero(s)
    BY <1>2 DEF DividesByZero
  <1>4. \A x \in Chain(Bits(s)) \cup Chain(Elements(s)) \cup Chain(Layers(s))
                   \cup {Groups(s) * s.element_bytes, 2 * Scales(s), Packed(s) + 2 * Scales(s)} :
           ~(x >= WordSize)
    BY <1>3 DEF Overflows, Intermediates
  <1>5. q \in Nat /\ d * b = 8 * q
    <2> DEFINE x == d * b
    <2>1. x \in Nat /\ x % 8 = 0 /\ 8 \in Nat /\ 8 > 0
      BY <1>1, <1>2
    <2> HIDE DEF x
    <2>2. x \div 8 \in Nat /\ x = 8 * (x \div 8)
      BY <2>1, Divides
    <2>3. QED
      BY <2>2 DEF x
  <1>6. r \in Nat
    <2> HIDE DEF d, g
    <2> QED
      BY <1>1, <1>2
  <1>7. PICK extra \in 0 .. ht :
          (ht * d) \div g = ht * r + extra /\ (d % g = 0 => extra = 0)
    <2> HIDE DEF d, g, ht
    <2> QED
      BY <1>1, <1>2, DivTimes
  <1>8. Most(s) = IF d % g = 0 THEN 0 ELSE 2 * l * h * t
    BY DEF Most
  <1>9. Bits(s) = <<h, t, d, b>> /\ Elements(s) = <<h, t, d>> /\ Layers(s) = <<l, 2, PerKv(s)>>
    BY DEF Bits, Elements, Layers
  <1>10. /\ ExpectedBlobBytes(s) = total % WordSize
        /\ Packed(s) = (bits % WordSize) \div 8
        /\ Groups(s) = (all % WordSize) \div g
        /\ Scales(s) = (Groups(s) * e) % WordSize
        /\ PerKv(s) = sum % WordSize
    BY DEF ExpectedBlobBytes, Packed, Groups, Scales, PerKv
  <1>11. TensorBytes(s) =
          (Cardinality(Numbers(l, h, t, d)) * b) \div 8 + 2 * Cardinality(Numbers(l, h, t, r)) * e
    BY DEF TensorBytes, Numbers
  <1>12. ~(Groups(s) * e >= WordSize) /\ ~(sum >= WordSize)
    BY <1>4
  <1> HIDE DEF l, h, d, t, e, g, b, q, r, all, bits, sum, total
  <1>13. bits = h * t * d * b /\ bits \in Chain(Bits(s))
    BY <1>1, <1>9, ProductOfFour DEF bits
  <1>14. all = h * t * d /\ all \in Chain(Elements(s))
    BY <1>1, <1>9, ProductOfThree DEF all
  <1>15. ~(bits >= WordSize) /\ ~(all >= WordSize)
    BY <1>4, <1>13, <1>14
  <1>16. Packed(s) = ht * q
    <2>1. bits = 8 * (ht * q)
      BY <1>1, <1>5, <1>13
    <2>2. bits \in Nat /\ ht * q \in Nat
      BY <1>1, <1>5, <1>13
    <2>3. Packed(s) = bits \div 8
      BY <1>10, <1>15, <2>2, FitsWord
    <2> HIDE DEF ht
    <2>4. QED
      BY <2>1, <2>2, <2>3, DivExact
  <1> DEFINE k == ht * r + extra
  <1>17. Groups(s) = k /\ k \in Nat
    <2>1. all = ht * d /\ all \in Nat
      BY <1>1, <1>14
    <2>2. Groups(s) = all \div g
      BY <1>10, <1>15, <2>1, FitsWord
    <2> HIDE DEF ht
    <2>3. k \in Nat
      BY <1>1, <1>6, <1>7
    <2>4. QED
      BY <1>7, <2>1, <2>2, <2>3
  <1> HIDE DEF k
  <1>18. Scales(s) = k * e
    <2>1. Groups(s) * e \in Nat
      BY <1>1, <1>17
    <2>2. Scales(s) = Groups(s) * e
      BY <1>10, <1>12, <2>1, FitsWord
    <2>3. QED
      BY <1>17, <2>2
  <1>19. sum = ht * q + 2 * (k * e) /\ sum \in Nat
    <2> HIDE DEF ht
    <2> QED
      BY <1>1, <1>5, <1>16, <1>17, <1>18 DEF sum
  <1>20. PerKv(s) = sum
    BY <1>10, <1>12, <1>19, FitsWord
  <1>21. total = l * 2 * sum /\ total \in Chain(Layers(s))
    BY <1>1, <1>9, <1>19, <1>20, ProductOfThree DEF total
  <1>22. ExpectedBlobBytes(s) = l * 2 * sum
    <2>1. ~(total >= WordSize)
      BY <1>4, <1>21
    <2>2. total \in Nat
      BY <1>1, <1>19, <1>21
    <2>3. QED
      BY <1>10, <1>21, <2>1, <2>2, FitsWord
  <1>23. TensorBytes(s) = ((2 * l * h * t * d) * b) \div 8 + 2 * (2 * l * h * t * r) * e
    <2>1. Cardinality(Numbers(l, h, t, d)) = 2 * l * h * t * d
      BY <1>1, Counted
    <2>2. Cardinality(Numbers(l, h, t, r)) = 2 * l * h * t * r
      BY <1>1, <1>6, Counted
    <2>3. QED
      BY <1>11, <2>1, <2>2, Zenon
  <1>24. ((2 * l * h * t * d) * b) \div 8 = 2 * l * ht * q
    <2>1. (2 * l * h * t * d) * b = 8 * (2 * l * ht * q)
      <3>1. (2 * l * h * t * d) * b = (2 * l * ht) * (d * b)
        BY <1>1
      <3> HIDE DEF ht
      <3>2. (2 * l * ht) * (8 * q) = 8 * (2 * l * ht * q)
        BY <1>1, <1>5
      <3>3. QED
        BY <1>5, <3>1, <3>2
    <2>2. 2 * l * ht * q \in Nat
      <3> HIDE DEF ht
      <3> QED
        BY <1>1, <1>5
    <2>3. (8 * (2 * l * ht * q)) \div 8 = 2 * l * ht * q
      <3> DEFINE x == 2 * l * ht * q
      <3> HIDE DEF x
      <3>1. x \in Nat
        BY <2>2 DEF x
      <3>2. (8 * x) \div 8 = x
        BY <3>1, DivExact
      <3>3. QED
        BY <3>2 DEF x
    <2>4. QED
      BY <2>1, <2>3
  <1>25. 2 * (2 * l * h * t * r) * e = l * 2 * (2 * (ht * r * e))
    BY <1>1, <1>6
  <1>26. l * 2 * sum = 2 * l * ht * q + l * 2 * (2 * (ht * r * e)) + 2 * (2 * l * extra) * e
    <2> DEFINE u == ht * q
               y == ht * r * e
               z == extra * e
    <2>1. k * e = y + z
      <3> HIDE DEF ht
      <3> QED
        BY <1>1, <1>6, <1>7 DEF k
    <2>2. u \in Nat /\ y \in Nat /\ z \in Nat /\ 2 * l * ht * q = 2 * l * u
      BY <1>1, <1>5, <1>6, <1>7
    <2>3. 2 * (2 * l * extra) * e = l * 2 * (2 * z)
      BY <1>1, <1>7
    <2>4. sum = u + 2 * (k * e)
      BY <1>19
    <2> HIDE DEF u, y, z, ht
    <2>5. l * 2 * (u + 2 * (y + z)) = 2 * l * u + l * 2 * (2 * y) + l * 2 * (2 * z)
      BY <1>1, <2>2
    <2>6. QED
      BY <2>1, <2>2, <2>3, <2>4, <2>5 DEF y
  <1> DEFINE groups == 2 * l * extra
  <1>27. groups \in 0 .. Most(s)
    <2>1. CASE d % g = 0
      BY <1>1, <1>7, <1>8, <2>1
    <2>2. CASE d % g # 0
      <3>1. l * extra <= l * ht
        <4> HIDE DEF ht
        <4> QED
          BY <1>1, <1>7
      <3>2. l * extra \in Nat /\ l * ht \in Nat /\ groups = 2 * (l * extra)
        BY <1>1, <1>7
      <3>3. 2 * l * h * t = 2 * (l * ht)
        BY <1>1
      <3>4. Most(s) = 2 * (l * ht)
        BY <1>8, <2>2, <3>3
      <3> HIDE DEF groups, ht
      <3>5. QED
        BY <3>1, <3>2, <3>4
    <2>3. QED
      BY <2>1, <2>2
  <1>28. ExpectedBlobBytes(s) = TensorBytes(s) + 2 * groups * e
    BY <1>22, <1>23, <1>24, <1>25, <1>26
  <1>29. TensorBytes(s) \in Nat
    <2> DEFINE u == 2 * l * ht * q
               y == l * 2 * (2 * (ht * r * e))
    <2>1. u \in Nat
      <3> HIDE DEF ht
      <3> QED
        BY <1>1, <1>5
    <2>2. y \in Nat
      <3> HIDE DEF ht
      <3> QED
        BY <1>1, <1>6
    <2>3. TensorBytes(s) = u + y
      BY <1>23, <1>24, <1>25
    <2> HIDE DEF u, y
    <2>4. QED
      BY <2>1, <2>2, <2>3
  <1> HIDE DEF groups
  <1>30. QED
    BY <1>27, <1>28, <1>29 DEF e

\* expected_blob_bytes of an even shape, wherever nothing overflows.
LEMMA ExactBytes ==
    ASSUME NEW s \in Shapes, Even(s), ~Overflows(s)
    PROVE  ExpectedBlobBytes(s) = TensorBytes(s) /\ ~DividesByZero(s)
  <1>1. ~DividesByZero(s)
    BY DEF Even, DividesByZero
  <1>2. CASE s.quant.some
    <2>1. /\ s.quant.is.group_size # 0 /\ (s.head_dim * s.quant.is.bits) % 8 = 0
          /\ Most(s) = 0
      BY <1>2 DEF Even, Most
    <2>2. /\ TensorBytes(s) \in Nat
          /\ ExpectedBlobBytes(s) = TensorBytes(s) + 2 * 0 * s.element_bytes
      BY <1>2, <2>1, QuantizedBytes
    <2>3. s.element_bytes \in Nat
      BY ShapeFields
    <2>4. QED
      BY <1>1, <2>2, <2>3
  <1>3. CASE ~s.quant.some
    BY <1>1, <1>3, PlainBytes
  <1>4. QED
    BY <1>2, <1>3

ShapeInv == shape \in Shapes

LEMMA NextShape == ShapeInv /\ [Next]_vars => ShapeInv'
  BY DEF ShapeInv, Next, Write, Foreign, Read, vars

\* A blob the reader hands out is as long as the tensors its shape describes,
\* for every word size, shape and blob section.
THEOREM AcceptedAlwaysFits == Spec => []AcceptedFits
  <1>1. Init => ShapeInv /\ BlobInv /\ AcceptedFits
    BY DEF Init, ShapeInv, BlobInv, AcceptedFits, None
  <1>2. ShapeInv /\ BlobInv /\ AcceptedFits /\ [Next]_vars => AcceptedFits'
    <2> SUFFICES ASSUME ShapeInv, BlobInv, AcceptedFits, [Next]_vars PROVE AcceptedFits'
      OBVIOUS
    <2>1. CASE Read
      <3>1. shape' = shape /\ shape \in Shapes
        BY <2>1 DEF Read, ShapeInv
      <3> SUFFICES ASSUME outcome'.kind = "ok", Even(shape), ~Overflows(shape)
                   PROVE  outcome'.kv = TensorBytes(shape)
        BY <3>1 DEF AcceptedFits, Even, Overflows, DividesByZero
      <3>2. Malformed.kind # "ok" /\ Panics.kind # "ok"
        BY DEF Malformed, Panics
      <3>3. outcome' = CheckSize(shape, Decode(blob))
        BY <2>1 DEF Read
      <3>4. outcome'.kv = ExpectedBlobBytes(shape)
        BY <3>2, <3>3 DEF CheckSize
      <3>5. QED
        BY <3>1, <3>4, ExactBytes
    <2>2. ASSUME NEW kv \in KvLengths, NEW logits \in Logits, Write(kv, logits)
          PROVE  AcceptedFits'
      BY <2>2 DEF Write, BlobInv, AcceptedFits, None
    <2>3. ASSUME NEW b \in Sections, Foreign(b) PROVE AcceptedFits'
      BY <2>3 DEF Foreign, BlobInv, AcceptedFits, None
    <2>4. CASE UNCHANGED vars
      BY <2>4 DEF vars, AcceptedFits
    <2>5. QED
      BY <2>1, <2>2, <2>3, <2>4 DEF Next
  <1>3. QED
    BY <1>1, <1>2, NextShape, NextBlob, PTL DEF Spec

\* An accepted blob of a quantized cache has room for all groups of the doc's
\* formula, and for no more others than the heads leave rests, for every word
\* size, shape and blob section.
THEOREM LeftoversAlwaysShare == Spec => []LeftoversShareGroups
  <1>1. Init => ShapeInv /\ BlobInv /\ LeftoversShareGroups
    BY DEF Init, ShapeInv, BlobInv, LeftoversShareGroups, None
  <1>2. ShapeInv /\ BlobInv /\ LeftoversShareGroups /\ [Next]_vars => LeftoversShareGroups'
    <2> SUFFICES ASSUME ShapeInv, BlobInv, LeftoversShareGroups, [Next]_vars
                 PROVE  LeftoversShareGroups'
      OBVIOUS
    <2>1. CASE Read
      <3>1. shape' = shape /\ shape \in Shapes
        BY <2>1 DEF Read, ShapeInv
      <3> SUFFICES ASSUME outcome'.kind = "ok", shape.quant.some, ~Overflows(shape),
                          (shape.head_dim * shape.quant.is.bits) % 8 = 0
                   PROVE  \E groups \in 0 .. Most(shape) :
                             outcome'.kv = TensorBytes(shape) + 2 * groups * shape.element_bytes
        BY <3>1 DEF LeftoversShareGroups, Most, Overflows, DividesByZero
      <3>2. Malformed.kind # "ok" /\ Panics.kind # "ok"
        BY DEF Malformed, Panics
      <3>3. outcome' = CheckSize(shape, Decode(blob))
        BY <2>1 DEF Read
      <3>4. outcome'.kv = ExpectedBlobBytes(shape) /\ ~DividesByZero(shape)
        BY <3>2, <3>3 DEF CheckSize
      <3>5. shape.quant.is.group_size # 0
        BY <3>4 DEF DividesByZero
      <3>6. QED
        BY <3>1, <3>4, <3>5, QuantizedBytes
    <2>2. ASSUME NEW kv \in KvLengths, NEW logits \in Logits, Write(kv, logits)
          PROVE  LeftoversShareGroups'
      BY <2>2 DEF Write, BlobInv, LeftoversShareGroups, None
    <2>3. ASSUME NEW b \in Sections, Foreign(b) PROVE LeftoversShareGroups'
      BY <2>3 DEF Foreign, BlobInv, LeftoversShareGroups, None
    <2>4. CASE UNCHANGED vars
      BY <2>4 DEF vars, LeftoversShareGroups
    <2>5. QED
      BY <2>1, <2>2, <2>3, <2>4 DEF Next
  <1>3. QED
    BY <1>1, <1>2, NextShape, NextBlob, PTL DEF Spec

------------------------------------------------------------------------------
(***************************************************************************)
(* What a writer gave, and what comes back.                                *)
(***************************************************************************)

\* A blob and logits that encode into a section of fewer bytes than a word
\* counts.
Fits(kv, logits) ==
    /\ kv \in Nat
    /\ logits = Absent \/ \E n \in Nat : logits = Some(n)
    /\ BlobHeader + kv + LengthBytes + (IF logits.some THEN logits.is ELSE 0) < WordSize

\* blob::decode undoes blob::encode, in both builds.
LEMMA DecodeEncode ==
    ASSUME NEW kv, NEW logits, Fits(kv, logits)
    PROVE  Decode(Encode(kv, logits)) = Parsed(kv, logits)
  <1> DEFINE b == Encode(kv, logits)
  <1>1. kv \in Nat /\ WordSize \in Nat
    BY LengthsAreWords DEF Fits
  <1>2. CASE logits = Absent
    <2>1. logits.some = FALSE
      BY <1>2 DEF Absent
    <2>2. /\ b.logits_present = 0 /\ b.kv_len = kv /\ b.len = BlobHeader + kv
          /\ BlobHeader + kv + LengthBytes < WordSize
      BY <1>1, <2>1 DEF Encode, Fits, BlobHeader, LengthBytes, FlagBytes
    <2> HIDE DEF b
    <2>3. Decode(b) = Parsed(kv, Absent)
      BY <1>1, <2>2 DEF Decode, BlobHeader, LengthBytes, FlagBytes
    <2>4. QED
      BY <1>2, <2>3 DEF b
  <1>3. ASSUME NEW n \in Nat, logits = Some(n) PROVE Decode(b) = Parsed(kv, logits)
    <2>1. logits.some = TRUE /\ logits.is = n
      BY <1>3 DEF Some
    <2>2. /\ b.logits_present = 1 /\ b.kv_len = kv /\ b.logits_len = n
          /\ b.len = BlobHeader + kv + LengthBytes + n
          /\ BlobHeader + kv + LengthBytes + n < WordSize
      BY <1>1, <2>1 DEF Encode, Fits, BlobHeader, LengthBytes, FlagBytes
    <2> HIDE DEF b
    <2>3. b.len % WordSize = b.len
      BY <1>1, <2>2, FitsWord DEF BlobHeader, LengthBytes, FlagBytes
    <2>4. Decode(b) = Parsed(kv, Some(n))
      BY <1>1, <2>2, <2>3 DEF Decode, BlobHeader, LengthBytes, FlagBytes
    <2>5. QED
      BY <1>3, <2>4
  <1>4. QED
    BY <1>2, <1>3 DEF Fits

GivenInv ==
    given.some =>
        /\ Fits(given.is.kv, given.is.logits)
        /\ blob = Encode(given.is.kv, given.is.logits)

LEMMA NextGiven == BlobInv /\ GivenInv /\ [Next]_vars => GivenInv'
  <1> SUFFICES ASSUME BlobInv, GivenInv, [Next]_vars PROVE GivenInv'
    OBVIOUS
  <1>1. ASSUME NEW kv \in KvLengths, NEW logits \in Logits, Write(kv, logits)
        PROVE  GivenInv'
    <2>1. kv \in Nat
      BY LengthsAreWords DEF KvLengths
    <2>2. logits = Absent \/ \E n \in Nat : logits = Some(n)
      BY LengthsAreWords DEF Logits
    <2>3. Fits(kv, logits)
      BY <1>1, <2>1, <2>2 DEF Write, Fits
    <2>4. given' = Some([kv |-> kv, logits |-> logits]) /\ blob' = Encode(kv, logits)
      BY <1>1 DEF Write
    <2>5. given'.is.kv = kv /\ given'.is.logits = logits
      BY <2>4 DEF Some
    <2>6. QED
      BY <2>3, <2>4, <2>5 DEF GivenInv
  <1>2. ASSUME NEW b \in Sections, Foreign(b), ~given.some PROVE GivenInv'
    BY <1>2 DEF Foreign, GivenInv
  <1>3. ASSUME NEW b \in Sections, Foreign(b) PROVE ~given.some
    <2>1. Encode(given.is.kv, given.is.logits) # None
      BY DEF Encode, None
    <2>2. QED
      BY <1>3, <2>1 DEF Foreign, GivenInv
  <1>4. CASE Read
    BY <1>4 DEF Read, GivenInv
  <1>5. CASE UNCHANGED vars
    BY <1>5 DEF vars, GivenInv
  <1>6. QED
    BY <1>1, <1>2, <1>3, <1>4, <1>5 DEF Next

\* What write_kv_cache was given is read back if it holds the tensors of its
\* shape and is refused if not, for every word size, shape, blob and logits.
THEOREM WrittenAlwaysRead == Spec => []WrittenIsRead
  <1> DEFINE Inv == ShapeInv /\ BlobInv /\ GivenInv
  <1>1. Init => Inv /\ WrittenIsRead
    BY DEF Init, ShapeInv, BlobInv, GivenInv, WrittenIsRead, Absent
  <1>2. Inv /\ WrittenIsRead /\ [Next]_vars => WrittenIsRead'
    <2> SUFFICES ASSUME ShapeInv, BlobInv, GivenInv, WrittenIsRead, [Next]_vars
                 PROVE  WrittenIsRead'
      OBVIOUS
    <2>1. CASE Read
      <3> DEFINE kv == given.is.kv
                 logits == given.is.logits
      <3>1. UNCHANGED <<shape, given>> /\ shape \in Shapes
        BY <2>1 DEF Read, ShapeInv
      <3> SUFFICES ASSUME given.some, Even(shape), ~Overflows(shape)
                   PROVE  outcome' = IF kv = TensorBytes(shape) THEN Parsed(kv, logits)
                                     ELSE Malformed
        BY <3>1 DEF WrittenIsRead, Even, Overflows, DividesByZero
      <3>2. Fits(kv, logits) /\ blob = Encode(kv, logits)
        BY DEF GivenInv
      <3> HIDE DEF kv, logits
      <3>3. Decode(blob) = Parsed(kv, logits)
        BY <3>2, DecodeEncode
      <3>4. Parsed(kv, logits).kind = "ok" /\ Parsed(kv, logits).kv = kv
        BY DEF Parsed
      <3>5. outcome' = CheckSize(shape, Parsed(kv, logits))
        BY <2>1, <3>3, <3>4 DEF Read
      <3>6. ExpectedBlobBytes(shape) = TensorBytes(shape) /\ ~DividesByZero(shape)
        BY <3>1, ExactBytes
      <3>7. QED
        BY <3>4, <3>5, <3>6 DEF CheckSize
    <2>2. ASSUME NEW kv \in KvLengths, NEW logits \in Logits, Write(kv, logits)
          PROVE  WrittenIsRead'
      BY <2>2 DEF Write, BlobInv, WrittenIsRead
    <2>3. ASSUME NEW b \in Sections, Foreign(b) PROVE WrittenIsRead'
      BY <2>3 DEF Foreign, BlobInv, WrittenIsRead
    <2>4. CASE UNCHANGED vars
      BY <2>4 DEF vars, WrittenIsRead
    <2>5. QED
      BY <2>1, <2>2, <2>3, <2>4 DEF Next
  <1>3. QED
    BY <1>1, <1>2, NextShape, NextBlob, NextGiven, PTL DEF Spec
===============================================================================
