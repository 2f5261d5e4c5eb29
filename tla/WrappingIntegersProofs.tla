----------------------- MODULE WrappingIntegersProofs -----------------------
(***************************************************************************)
(* For every W: unwrap inverts wrap near the checkpoint, and returns the   *)
(* number closest to it.                                                   *)
(***************************************************************************)
EXTENDS SequenceSpace, TLAPS

\* Euclidean division by W
LEMMA DivMod ==
    ASSUME NEW a \in Int
    PROVE  /\ a \div W \in Int
           /\ a % W \in 0 .. W - 1
           /\ a = W * (a \div W) + (a % W)
  BY WAssumption

\* quotient and remainder are the only ones
LEMMA DivModUnique ==
    ASSUME NEW q \in Int, NEW r \in 0 .. W - 1
    PROVE  (W * q + r) \div W = q /\ (W * q + r) % W = r
  BY WAssumption

LEMMA U64Type == U64 \in Nat /\ U64 > W
  BY WAssumption DEF U64

\* a number of the 64-bit range is its own residue, and one step of 2^64 is taken off
LEMMA ModU64 ==
    ASSUME NEW a \in Int
    PROVE  /\ a \in 0 .. U64 - 1 => a % U64 = a
           /\ a \in U64 .. 2 * U64 - 1 => a % U64 = a - U64
           /\ a \in -U64 .. -1 => a % U64 = a + U64
  BY U64Type

\* wrap then the subtraction at wrapping_integers.cc:30 leaves the low 32 bits
LEMMA LowBits ==
    ASSUME NEW i \in WrappingInt32, NEW x \in UInt64
    PROVE  minus(wrap(x, i), i) = x % W
  <1>1. x \in Int /\ i \in Int
    BY U64Type, WAssumption DEF WrappingInt32, UInt64
  <1> DEFINE q == x \div W
             r == x % W
             p == (i + r) \div W
             s == (i + r) % W
  <1>2. q \in Int /\ r \in 0 .. W - 1 /\ x = W * q + r
    BY <1>1, DivMod
  <1>3. p \in Int /\ s \in 0 .. W - 1 /\ i + r = W * p + s
    BY <1>1, <1>2, DivMod
  <1> HIDE DEF q, r, p, s
  <1>4. i + x = W * (q + p) + s
    BY <1>1, <1>2, <1>3, WAssumption
  <1>5. (i + x) % W = s
    BY <1>2, <1>3, <1>4, DivModUnique
  <1>6. s - i = W * (0 - p) + r
    BY <1>1, <1>2, <1>3, WAssumption
  <1>7. (s - i) % W = r
    BY <1>2, <1>3, <1>6, DivModUnique
  <1>8. QED
    BY <1>5, <1>7 DEF minus, wrap, plus, r

\* unwrap above the offset: the two candidates around the checkpoint, e past the lower one
LEMMA Candidates ==
    ASSUME NEW n \in WrappingInt32, NEW i \in WrappingInt32, NEW c \in UInt64,
           NEW l, l = minus(n, i), c > l
    PROVE  \E u \in Nat, e \in 0 .. W - 1 :
             /\ l \in 0 .. W - 1
             /\ c = W * u + l + e
             /\ unwrap(n, i, c) = IF e >= W - e THEN (W * u + l + W) % U64 ELSE W * u + l
  <1>1. l \in 0 .. W - 1 /\ c \in 0 .. U64 - 1
    BY DivMod, WAssumption DEF minus, WrappingInt32, UInt64
  <1>2. c - l \in 0 .. U64 - 1
    BY <1>1, U64Type
  <1> DEFINE u == (c - l) \div W
             e == (c - l) % W
  <1>3. u \in Int /\ e \in 0 .. W - 1 /\ c - l = W * u + e
    BY <1>2, DivMod, U64Type
  <1>4. (c - l) % U64 = c - l
    BY <1>2, ModU64, U64Type
  <1> HIDE DEF u, e
  <1>5. u \in Nat
    BY <1>1, <1>2, <1>3, WAssumption
  <1> DEFINE low == W * u + l
             top == W * u + l + W
             high == top % U64
  <1>6. c - low = e /\ e \in 0 .. U64 - 1 /\ (c - low) % U64 = e
    BY <1>1, <1>3, ModU64, U64Type, WAssumption
  <1>7. top - c = W - e /\ top \in 0 .. 2 * U64 - 1 /\ top \in Int
    BY <1>1, <1>3, <1>5, U64Type, WAssumption
  <1> HIDE DEF top
  <1>8. (high - c) % U64 = W - e
    <2>1. CASE top < U64
      <3>1. high = top
        BY <1>7, <2>1, ModU64, U64Type
      <3>2. W - e \in 0 .. U64 - 1
        BY <1>3, U64Type, WAssumption
      <3>3. QED
        BY <1>7, <3>1, <3>2, ModU64, U64Type
    <2>2. CASE top >= U64
      <3>1. high = top - U64
        BY <1>7, <2>2, ModU64, U64Type
      <3>2. high - c = (W - e) - U64 /\ high - c \in -U64 .. -1
        <4> HIDE DEF high
        <4>1. QED
          BY <1>1, <1>3, <1>7, <3>1, U64Type, WAssumption
      <3>3. QED
        BY <3>2, ModU64, U64Type, <1>3, WAssumption
    <2>3. QED
      BY <1>7, <2>1, <2>2, U64Type
  <1>9. unwrap(n, i, c) = IF e >= W - e THEN (W * u + l + W) % U64 ELSE W * u + l
    <2>1. (u + 1) * W + l = top /\ u * W + l = low
      BY <1>1, <1>5, WAssumption DEF top
    <2>2. ~ (c <= l)
      BY <1>1, U64Type
    <2>3. QED
      BY <1>4, <1>6, <1>8, <2>1, <2>2 DEF unwrap, u, top
  <1>10. c = W * u + l + e
    BY <1>1, <1>3, <1>5, U64Type, WAssumption
  <1>11. QED
    BY <1>1, <1>3, <1>5, <1>9, <1>10, Zenon

\* unwrap inverts wrap within half the sequence space of the checkpoint
LEMMA UnwrapWrap ==
    ASSUME NEW i \in WrappingInt32, NEW x \in UInt64, NEW c \in UInt64,
           2 * Distance(x, c) < W
    PROVE  unwrap(wrap(x, i), i, c) = x
  <1> DEFINE n == wrap(x, i)
             l == x % W
             q == x \div W
  <1>1. /\ x \in 0 .. U64 - 1 /\ c \in 0 .. U64 - 1
        /\ n \in WrappingInt32
        /\ minus(n, i) = l
    BY LowBits, DivMod, U64Type, WAssumption DEF wrap, plus, UInt64, WrappingInt32
  <1>2. l \in 0 .. W - 1 /\ q \in Int /\ x = W * q + l
    BY <1>1, DivMod, U64Type
  <1> HIDE DEF n, l, q
  <1>3. x - c < W /\ c - x < W /\ 2 * (x - c) < W /\ 2 * (c - x) < W
    BY <1>1, U64Type, WAssumption DEF Distance
  <1>4. CASE c <= l
    <2>1. q = 0
      BY <1>1, <1>2, <1>3, <1>4, U64Type, WAssumption
    <2>2. QED
      BY <1>1, <1>2, <1>4, <2>1, WAssumption DEF unwrap, n
  <1>5. CASE c > l
    <2>1. PICK u \in Nat, e \in 0 .. W - 1 :
            /\ c = W * u + l + e
            /\ unwrap(n, i, c) = IF e >= W - e THEN (W * u + l + W) % U64 ELSE W * u + l
      BY <1>1, <1>5, Candidates
    <2>2. c - x = W * (u - q) + e
      BY <1>2, <2>1, WAssumption
    <2>3. u = q \/ u = q - 1
      BY <1>1, <1>2, <1>3, <2>1, <2>2, U64Type, WAssumption
    <2>4. CASE u = q
      BY <1>1, <1>2, <1>3, <2>1, <2>2, <2>4, U64Type, WAssumption DEF n
    <2>5. CASE u = q - 1
      <3>1. W * u + l + W = x /\ e >= W - e
        BY <1>1, <1>2, <1>3, <2>1, <2>2, <2>5, U64Type, WAssumption
      <3>2. QED
        BY <1>1, <2>1, <3>1, ModU64, U64Type DEF n
    <2>6. QED
      BY <2>3, <2>4, <2>5
  <1>6. QED
    BY <1>1, <1>2, <1>4, <1>5, U64Type, WAssumption
\* numbers with the same low 32 bits have the same wire form
LEMMA WrapResidue ==
    ASSUME NEW i \in WrappingInt32, NEW x \in UInt64, NEW q \in Int, q * W + (x % W) \in UInt64
    PROVE  wrap(q * W + (x % W), i) = wrap(x, i)
  <1>1. x \in Int /\ i \in Int
    BY U64Type, WAssumption DEF WrappingInt32, UInt64
  <1> DEFINE p == x \div W
             r == x % W
             m == (i + r) \div W
             s == (i + r) % W
  <1>2. p \in Int /\ r \in 0 .. W - 1 /\ x = W * p + r
    BY <1>1, DivMod
  <1>3. m \in Int /\ s \in 0 .. W - 1 /\ i + r = W * m + s
    BY <1>1, <1>2, DivMod
  <1> HIDE DEF p, r, m, s
  <1>4. i + x = W * (p + m) + s /\ i + (q * W + r) = W * (q + m) + s
    BY <1>1, <1>2, <1>3, WAssumption
  <1>5. (i + x) % W = s /\ (i + (q * W + r)) % W = s
    BY <1>2, <1>3, <1>4, DivModUnique
  <1>6. QED
    BY <1>5 DEF wrap, plus, r

\* below the last W numbers unwrap returns the closest number with the given wire form
LEMMA UnwrapClosest ==
    ASSUME NEW i \in WrappingInt32, NEW x \in UInt64, NEW c \in UInt64, c < U64 - W
    PROVE  IsClosest(unwrap(wrap(x, i), i, c), wrap(x, i), i, c)
  <1> DEFINE n == wrap(x, i)
             l == x % W
             res == unwrap(n, i, c)
  <1>1. /\ x \in 0 .. U64 - 1 /\ c \in 0 .. U64 - 1
        /\ n \in WrappingInt32
        /\ minus(n, i) = l
        /\ l \in 0 .. W - 1
    <2>1. x \in Int /\ i \in Int /\ i + x \in Int /\ x \in 0 .. U64 - 1 /\ c \in 0 .. U64 - 1
      BY U64Type, WAssumption DEF UInt64, WrappingInt32
    <2>2. QED
      BY <2>1, LowBits, DivMod DEF wrap, plus, WrappingInt32
  <1>2. ASSUME NEW v \in UInt64, wrap(v, i) = n
        PROVE  \E q \in Nat : v = q * W + l
    <2>1. v % W = l
      BY <1>1, <1>2, LowBits
    <2>2. v \in Nat /\ v \div W \in Int /\ v = W * (v \div W) + l
      BY <2>1, DivMod, U64Type DEF UInt64
    <2>3. v \div W \in Nat
      BY <1>1, <2>2, WAssumption
    <2>4. v = (v \div W) * W + l
      BY <2>2, <2>3, WAssumption
    <2>5. QED
      BY <2>3, <2>4, Zenon
  <1>3. /\ \E q \in Nat : res = q * W + l
        /\ res \in UInt64
        /\ \A q \in Nat : Distance(res, c) <= Distance(q * W + l, c)
    <2> HIDE DEF n, l
    <2>1. CASE c <= l
      <3>1. res = l
        BY <1>1, <2>1 DEF unwrap
      <3>2. res = 0 * W + l /\ l \in UInt64
        BY <1>1, <3>1, U64Type, WAssumption DEF UInt64
      <3>3. \A q \in Nat : q * W + l >= l /\ q * W + l \in Nat
        BY <1>1, WAssumption
      <3>4. \A q \in Nat : Distance(l, c) <= Distance(q * W + l, c)
        BY <1>1, <2>1, <3>3, U64Type, WAssumption DEF Distance
      <3>5. QED
        BY <3>1, <3>2, <3>4
    <2>2. CASE c > l
      <3>1. PICK u \in Nat, e \in 0 .. W - 1 :
              /\ c = W * u + l + e
              /\ res = IF e >= W - e THEN (W * u + l + W) % U64 ELSE W * u + l
        BY <1>1, <2>2, Candidates
      <3>2. W * u + l + W \in 0 .. U64 - 1
        BY <1>1, <3>1, U64Type, WAssumption
      <3>3. res = IF e >= W - e THEN W * u + l + W ELSE W * u + l
        BY <3>1, <3>2, ModU64, U64Type
      <3>4. res = (u + 1) * W + l \/ res = u * W + l
        BY <1>1, <3>1, <3>3, WAssumption
      <3>5. \E q \in Nat : res = q * W + l
        BY <3>1, <3>4
      <3>6. res \in UInt64
        BY <1>1, <3>1, <3>2, <3>3, U64Type, WAssumption DEF UInt64
      <3>7. ASSUME NEW q \in Nat
            PROVE  Distance(res, c) <= Distance(q * W + l, c)
        <4>1. Distance(res, c) = IF e >= W - e THEN W - e ELSE e
          BY <1>1, <3>1, <3>3, U64Type, WAssumption DEF Distance
        <4>2. (q * W + l) - c = W * (q - u) - e /\ q * W + l \in Nat /\ c \in Nat
          BY <1>1, <3>1, U64Type, WAssumption
        <4>3. CASE q <= u
          <5>1. W * (q - u) <= 0
            BY <4>3, <3>1, WAssumption
          <5>2. Distance(q * W + l, c) >= e
            BY <1>1, <3>1, <4>2, <5>1, WAssumption DEF Distance
          <5>3. QED
            BY <4>1, <4>2, <5>2, <3>1, WAssumption DEF Distance
        <4>4. CASE q > u
          <5>1. W * (q - u) >= W
            BY <4>4, <3>1, WAssumption
          <5>2. Distance(q * W + l, c) >= W - e
            BY <1>1, <3>1, <4>2, <5>1, WAssumption DEF Distance
          <5>3. QED
            BY <4>1, <4>2, <5>2, <3>1, WAssumption DEF Distance
        <4>5. QED
          BY <3>1, <4>3, <4>4
      <3>8. QED
        BY <3>5, <3>6, <3>7
    <2>3. QED
      BY <1>1, <2>1, <2>2, U64Type, WAssumption
  <1>4. wrap(res, i) = n
    BY <1>3, WrapResidue
  <1>5. QED
    BY <1>2, <1>3, <1>4 DEF IsClosest

-----------------------------------------------------------------------------
LEMMA SpecTypeOK == Spec => []TypeOK
  <1>1. Init => TypeOK
    BY U64Type, WAssumption DEF Init, TypeOK, UInt64
  <1>2. TypeOK /\ [Next]_vars => TypeOK'
    BY U64Type DEF TypeOK, UInt64, Next, AdvanceSent, AdvanceCheckpoint, vars
  <1>3. QED
    BY <1>1, <1>2, PTL DEF Spec

\* For every modulus W: whatever two numbers less than half the sequence space apart the two sides
\* of a connection hold, unwrap (wrapping_integers.cc:28) recovers the one that was wrapped.
THEOREM SpecRoundTrip == Spec => []RoundTrip
  <1>1. TypeOK => RoundTrip
    BY UnwrapWrap DEF TypeOK, RoundTrip
  <1>2. QED
    BY <1>1, SpecTypeOK, PTL

\* For every modulus W: up to the last W numbers of the 64-bit range, unwrap returns the number
\* closest to the checkpoint among those with the given wire form (wrapping_integers.cc:22).
THEOREM SpecClosest == Spec => []Closest
  <1>1. TypeOK => Closest
    BY UnwrapClosest DEF TypeOK, Closest
  <1>2. QED
    BY <1>1, SpecTypeOK, PTL
=============================================================================
