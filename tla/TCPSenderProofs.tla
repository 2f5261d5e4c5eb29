-------------------------- MODULE TCPSenderProofs --------------------------
(***************************************************************************)
(* For every modulus of the sequence numbers, every payload size, timeout, *)
(* stream and sequence of acknowledgments: what the sender puts on the     *)
(* wire is genuine, what it keeps tiles the unacknowledged numbers, its    *)
(* timer and timeout match what it keeps, and it respects the window.      *)
(***************************************************************************)
EXTENDS TCPSenderSpec, StreamLemmas

SegType ==
    [ seqno : WrappingInt32, syn : BOOLEAN, fin : BOOLEAN, payload : Seq(Byte),
      ack : {FALSE}, ackno : {0}, win : {0}, rst : {FALSE} ]

SenderType ==
    [ isn : {ISN}, window_size : Nat, receiver_window_size : Nat,
      segments_out : Seq(SegType), outstanding_segments : Seq(SegType),
      is_timer_on : BOOLEAN, retransmission_timeout : Nat, timer_elapsed : Nat,
      consecutive_retransmissions : Nat, stream : ByteStreamType(Byte), fin : BOOLEAN,
      current_seqno : Nat, next_seqno : Nat ]

\* the absolute sequence numbers at which a segment starts and ends; near the start of the stream,
\* where all of the model is, the checkpoint does not matter
At(seg) == unwrap(seg.seqno, ISN, 0)

After(seg) == At(seg) + length_in_sequence_space(seg)

\* seg carries what stream w, ended or not, has at its place
SegOK(seg, w, ended) ==
    LET first == At(seg) + int(seg.syn)
        size == Len(seg.payload)
    IN  /\ seg.seqno = wrap(At(seg), ISN) /\ At(seg) \in Nat
        /\ length_in_sequence_space(seg) > 0
        /\ seg.syn <=> At(seg) = 0
        /\ first + size <= Len(w) + 1
        /\ \A j \in 1 .. size : seg.payload[j] = w[first + j - 1]
        /\ seg.fin => ended /\ first + size = Len(w) + 1

\* the numbers of sender s after stream w has been written
Numbered(s, w) ==
    LET st == s.stream
    IN  /\ s \in SenderType
        /\ w \in Seq(Byte) /\ Len(w) <= MaxWritten
        /\ st.capacity = Capacity /\ Len(st.buffer) <= Capacity
        /\ st.bytes_read + Len(st.buffer) = Len(w)
        /\ \A j \in 1 .. Len(st.buffer) : st.buffer[j] = w[st.bytes_read + j]
        /\ s.next_seqno = 0 => st.bytes_read = 0 /\ ~s.fin /\ s.window_size = 1
        /\ s.next_seqno > 0 => s.next_seqno = 1 + st.bytes_read + int(s.fin)
        /\ s.fin => st.input_ended /\ Len(st.buffer) = 0
        /\ s.current_seqno <= s.next_seqno

\* the segments, one after the other, cover cur .. next - 1, and only the first may begin before cur
Tiles(segs, w, ended, cur, next) ==
    LET last == Len(segs)
    IN  /\ \A i \in 1 .. last : SegOK(segs[i], w, ended)
        /\ \A i \in 1 .. last - 1 : After(segs[i]) = At(segs[i + 1])
        /\ last = 0 => cur = next
        /\ last > 0 => At(segs[1]) <= cur /\ After(segs[1]) > cur /\ After(segs[last]) = next

Tiled(s, w) == Tiles(s.outstanding_segments, w, s.stream.input_ended, s.current_seqno, s.next_seqno)

Timed(s) ==
    /\ s.retransmission_timeout = RT_TIMEOUT * Doubled[s.consecutive_retransmissions]
    /\ s.timer_elapsed < s.retransmission_timeout

\* what a segment on the wire may be
Sendable(seg, s, w) ==
    \/ SegOK(seg, w, s.stream.input_ended)
    \/ length_in_sequence_space(seg) = 0 /\ seg.seqno = wrap(s.next_seqno, ISN)

\* what holds of the sender between any two of its methods
Sound(s, w) ==
    /\ Numbered(s, w) /\ Tiled(s, w) /\ Timed(s)
    /\ s.outstanding_segments # << >> => s.is_timer_on
    /\ \A i \in 1 .. Len(s.segments_out) : Sendable(s.segments_out[i], s, w)

\* the conjunction is inductive
IInv ==
    /\ Sound(sender, written)
    /\ sender.segments_out = << >>
    /\ sender.is_timer_on => sender.outstanding_segments # << >>
    /\ sent \in Seq(SegType)
    /\ \A i \in 1 .. Len(sent) : Sendable(sent[i], sender, written)
    /\ edge \in Nat /\ in_order \in BOOLEAN
    /\ in_order => sender.next_seqno + sender.window_size <= max(edge, sender.current_seqno + 1)

-----------------------------------------------------------------------------
\* what the recursive definition of the powers of two says, and that there are such numbers
LEMMA DoubledFacts ==
    /\ Doubled[0] = 1
    /\ \A n \in Nat : Doubled[n] \in Nat \ {0} /\ Doubled[n + 1] = 2 * Doubled[n]
  <1> DEFINE Rec(h, n) == /\ h \in [0 .. n -> Nat]
                          /\ \A k \in 0 .. n : h[k] = IF k = 0 THEN 1 ELSE 2 * h[k - 1]
             has == { n \in Nat : \E h : Rec(h, n) }
             at(n) == CHOOSE h : Rec(h, n)
             F == [ n \in Nat |-> at(n)[n] ]
             Eq(f) == f = [ n \in Nat |-> IF n = 0 THEN 1 ELSE 2 * f[n - 1] ]
  <1>1. 0 \in has
    <2>1. Rec([ k \in 0 .. 0 |-> 1 ], 0)
      OBVIOUS
    <2>2. QED
      BY <2>1, Zenon
  <1>2. ASSUME NEW n \in Nat, n \in has PROVE n + 1 \in has
    <2>1. PICK h : Rec(h, n)
      BY <1>2, Zenon
    <2> DEFINE g == [ k \in 0 .. n + 1 |-> IF k = n + 1 THEN 2 * h[n] ELSE h[k] ]
    <2>2. g \in [ 0 .. n + 1 -> Nat ]
      BY <2>1
    <2>3. ASSUME NEW k \in 0 .. n + 1 PROVE g[k] = IF k = 0 THEN 1 ELSE 2 * g[k - 1]
      <3>1. CASE k = n + 1
        <4>1. g[k] = 2 * h[n] /\ k - 1 = n /\ n \in 0 .. n + 1 /\ n # n + 1
          BY <3>1
        <4>2. g[n] = h[n]
          BY <4>1
        <4>3. QED
          BY <3>1, <4>1, <4>2
      <3>2. CASE k # n + 1
        <4>1. k \in 0 .. n /\ g[k] = h[k]
          BY <3>2
        <4>2. k # 0 => k - 1 \in 0 .. n /\ k - 1 # n + 1 /\ g[k - 1] = h[k - 1]
          BY <4>1
        <4>3. h[k] = IF k = 0 THEN 1 ELSE 2 * h[k - 1]
          BY <2>1, <4>1
        <4> HIDE DEF g
        <4>4. QED
          BY <4>1, <4>2, <4>3
      <3>3. QED
        BY <3>1, <3>2
    <2>4. Rec(g, n + 1)
      BY <2>2, <2>3
    <2> HIDE DEF g, Rec
    <2>5. QED
      BY <2>4
  <1>3. \A n \in Nat : \E h : Rec(h, n)
    <2> HIDE DEF has
    <2>1. Nat \subseteq has
      BY <1>1, <1>2, Induction, Zenon
    <2>2. QED
      BY <2>1, Zenon DEF has
  <1>4. ASSUME NEW n \in Nat PROVE Rec(at(n), n)
    <2> HIDE DEF Rec
    <2>1. QED
      BY <1>3, Zenon
  <1>5. ASSUME NEW n \in Nat, NEW g, NEW h, Rec(g, n), Rec(h, n + 1) PROVE g[n] = h[n]
    <2> DEFINE same == { k \in Nat : k <= n => g[k] = h[k] }
    <2>1. 0 \in same
      BY <1>5
    <2>2. ASSUME NEW k \in Nat, k \in same PROVE k + 1 \in same
      <3> SUFFICES ASSUME k + 1 <= n PROVE g[k + 1] = h[k + 1]
        OBVIOUS
      <3>1. g[k] = h[k] /\ k + 1 \in 0 .. n /\ k + 1 \in 0 .. n + 1 /\ k + 1 # 0 /\ (k + 1) - 1 = k
        BY <2>2
      <3>2. g[k + 1] = 2 * g[(k + 1) - 1] /\ h[k + 1] = 2 * h[(k + 1) - 1]
        BY <1>5, <3>1, Zenon
      <3>3. QED
        BY <3>1, <3>2
    <2>3. Nat \subseteq same
      <3> HIDE DEF same
      <3>1. QED
        BY <2>1, <2>2, Induction, Zenon
    <2>4. QED
      BY <2>3
  <1>6. ASSUME NEW n \in Nat PROVE F[n] = IF n = 0 THEN 1 ELSE 2 * F[n - 1]
    <2>1. F[n] = at(n)[n]
      OBVIOUS
    <2>2. CASE n = 0
      <3> HIDE DEF at, F
      <3>1. QED
        BY <1>4, <2>1, <2>2
    <2>3. CASE n # 0
      <3>1. n - 1 \in Nat /\ (n - 1) + 1 = n
        BY <2>3
      <3>2. Rec(at(n - 1), n - 1) /\ Rec(at(n), (n - 1) + 1)
        <4> HIDE DEF Rec, at
        <4>1. QED
          BY <1>4, <3>1
      <3>3. F[n - 1] = at(n - 1)[n - 1]
        BY <3>1
      <3> HIDE DEF at, F
      <3>4. at(n - 1)[n - 1] = at(n)[n - 1]
        <4> HIDE DEF Rec
        <4>1. QED
          BY <1>5, <3>1, <3>2
      <3>5. at(n)[n] = 2 * at(n)[n - 1]
        BY <2>3, <3>2
      <3>6. QED
        BY <2>1, <2>3, <3>3, <3>4, <3>5
    <2>4. QED
      BY <2>2, <2>3
  <1>7. Eq(F)
    <2> HIDE DEF at
    <2>1. F = [ n \in Nat |-> F[n] ]
      OBVIOUS
    <2> HIDE DEF F
    <2>2. QED
      BY <1>6, <2>1, Zenon
  <1>8. Eq(Doubled)
    <2>1. Doubled = CHOOSE f : Eq(f)
      BY DEF Doubled
    <2> HIDE DEF Eq, F
    <2>2. QED
      BY <1>7, <2>1, Zenon
  <1>9. Doubled[0] = 1
    BY <1>8
  <1>10. ASSUME NEW n \in Nat PROVE Doubled[n + 1] = 2 * Doubled[n]
    BY <1>8
  <1>11. Nat \subseteq { n \in Nat : Doubled[n] \in Nat \ {0} }
    <2> DEFINE good == { n \in Nat : Doubled[n] \in Nat \ {0} }
    <2>1. 0 \in good
      BY <1>9
    <2>2. ASSUME NEW n \in Nat, n \in good PROVE n + 1 \in good
      BY <1>10, <2>2
    <2> HIDE DEF good
    <2>3. Nat \subseteq good
      BY <2>1, <2>2, Induction, Zenon
    <2>4. QED
      BY <2>3 DEF good
  <1>12. QED
    BY <1>9, <1>10, <1>11

-----------------------------------------------------------------------------
\* only the lemmas about wrap and unwrap are used, which mention none of its variables
Seqnos == INSTANCE WrappingIntegersProofs WITH isn <- ISN, sent <- 0, checkpoint <- 0

\* half the sequence space is more than the stream takes, so no number is mistaken for another
LEMMA UnwrapNear ==
    ASSUME NEW p \in Nat, p <= MaxWritten + 3, NEW c \in Nat, c <= MaxWritten + 3
    PROVE  unwrap(wrap(p, ISN), ISN, c) = p
  <1>1. W \in Nat /\ W > 1 /\ MaxWritten \in Nat /\ 2 * (MaxWritten + 4) <= W /\ ISN \in 0 .. W - 1
    BY WAssumption, SenderSpecAssumption DEF WrappingInt32
  <1>2. U64 \in Nat /\ U64 > W
    BY <1>1 DEF U64
  <1>3. p \in UInt64 /\ c \in UInt64 /\ 2 * Distance(p, c) < W
    BY <1>1, <1>2 DEF UInt64, Distance
  <1>4. Seqnos!unwrap(Seqnos!wrap(p, ISN), ISN, c) = p
    BY <1>1, <1>3, WAssumption, Seqnos!UnwrapWrap
       DEF UInt64, U64, Distance, Seqnos!WrappingInt32, Seqnos!UInt64, Seqnos!U64, Seqnos!Distance
  <1>5. QED
    BY <1>4, Zenon DEF unwrap, wrap, plus, minus, U64, Seqnos!U64, Seqnos!unwrap, Seqnos!wrap,
                       Seqnos!plus, Seqnos!minus

LEMMA WrapType ==
    ASSUME NEW p \in Nat
    PROVE  wrap(p, ISN) \in WrappingInt32
  <1>1. W \in Nat /\ W > 1 /\ ISN + p \in Int
    BY WAssumption, SenderSpecAssumption DEF WrappingInt32
  <1>2. (ISN + p) % W \in 0 .. W - 1
    BY <1>1
  <1>3. QED
    BY <1>2 DEF wrap, plus, WrappingInt32

\* a slice that agrees with a sequence element by element is a slice of it
LEMMA SliceEqual ==
    ASSUME NEW S, NEW w \in Seq(S), NEW p \in Seq(S), NEW f \in Nat \ {0}, f + Len(p) <= Len(w) + 1,
           \A j \in 1 .. Len(p) : p[j] = w[f + j - 1]
    PROVE  p = SubSeq(w, f, f + Len(p) - 1)
  <1> DEFINE l == f + Len(p) - 1
             q == SubSeq(w, f, l)
  <1>1. Len(p) \in Nat /\ Len(w) \in Nat /\ l \in Int
    BY LenProperties
  <1>2. \A i \in f .. l : w[i] \in S
    BY <1>1, ElementOfSeq
  <1>3. /\ q \in Seq(S) /\ Len(q) = IF f <= l THEN l - f + 1 ELSE 0
        /\ \A i \in 1 .. l - f + 1 : q[i] = w[f + i - 1]
    BY <1>1, <1>2, SubSeqProperties
  <1> HIDE DEF q
  <1>4. Len(q) = Len(p) /\ l - f + 1 = Len(p)
    BY <1>1, <1>3
  <1>5. \A i \in 1 .. Len(p) : p[i] = q[i]
    BY <1>3, <1>4
  <1>6. p = q
    BY <1>3, <1>4, <1>5, SeqEqual
  <1>7. QED
    BY <1>6 DEF q

-----------------------------------------------------------------------------
\* the arithmetic of the window: how much of a buffer of b bytes goes out, and whether the FIN does
LEMMA WindowArithmetic ==
    ASSUME NEW b \in Nat, NEW v \in Nat, NEW ended \in BOOLEAN, NEW first \in BOOLEAN,
           first => v = 1
    PROVE  LET reach == ended /\ v >= int(first) + b + 1
               actual == min(int(first) + b + int(ended), v) - int(first) - int(reach)
           IN  /\ actual \in 0 .. b
               /\ reach => actual = b
               /\ first => actual = 0 /\ ~reach
               /\ int(first) + actual + int(reach) <= v
  <1>1. CASE first
    BY <1>1 DEF int, min
  <1>2. CASE ~first
    BY <1>2 DEF int, min
  <1>3. QED
    BY <1>1, <1>2

\* how a bytes are cut into n segments: the full ones before the i-th leave something for it, unless
\* there is nothing at all, and the last takes the rest
Cut(i, n, a) ==
    LET before == MAX_PAYLOAD_SIZE * (i - 1)
    IN  /\ before \in Nat /\ before <= a
        /\ a > 0 => before < a
        /\ i < n => before + MAX_PAYLOAD_SIZE < a /\ MAX_PAYLOAD_SIZE * i = before + MAX_PAYLOAD_SIZE
        /\ i = n => a - before <= MAX_PAYLOAD_SIZE

LEMMA Cuts ==
    ASSUME NEW a \in Nat, NEW b \in {0, 1}, NEW n, n = max((a + MAX_PAYLOAD_SIZE - 1) \div MAX_PAYLOAD_SIZE, b)
    PROVE  /\ n \in Nat
           /\ n = 0 => a = 0 /\ b = 0
           /\ a = 0 => n = b
           /\ \A i \in 1 .. n : Cut(i, n, a)
  <1> DEFINE M == MAX_PAYLOAD_SIZE
             k == (a + M - 1) \div M
             r == (a + M - 1) % M
  <1>1. M \in Nat /\ M > 0
    BY SenderAssumption
  <1>2. k \in Int /\ r \in 0 .. M - 1 /\ a + M - 1 = M * k + r
    BY <1>1
  <1> HIDE DEF M, k, r
  <1>3. k \in Nat
    BY <1>1, <1>2
  <1>4. (a = 0 => k = 0) /\ (a > 0 => k > 0)
    BY <1>1, <1>2, <1>3
  <1>5. M * (k - 1) = M * k - M
    BY <1>1, <1>3
  <1>6. M * (k - 1) < a \/ a = 0
    BY <1>1, <1>2, <1>5
  <1>7. a - M * (k - 1) <= M
    BY <1>1, <1>2, <1>5
  <1>8. n = max(k, b)
    BY DEF k, M
  <1>9. /\ n \in Nat /\ (n = 0 => a = 0 /\ b = 0) /\ (a = 0 => n = b)
        /\ a > 0 => n = k
    BY <1>3, <1>4, <1>8 DEF max
  <1>10. ASSUME NEW i \in 1 .. n
         PROVE  /\ M * (i - 1) \in Nat /\ M * (i - 1) <= a
                /\ a > 0 => M * (i - 1) < a
                /\ i < n => M * (i - 1) + M < a /\ M * i = M * (i - 1) + M
                /\ i = n => a - M * (i - 1) <= M
    <2>1. CASE a = 0
      <3>1. n = 1 /\ i = 1
        BY <1>9, <2>1
      <3>2. M * (i - 1) = 0
        BY <1>1, <3>1
      <3>3. QED
        BY <1>1, <2>1, <3>1, <3>2
    <2>2. CASE a > 0
      <3>1. n = k /\ i - 1 \in Nat /\ i - 1 <= k - 1
        BY <1>9, <2>2
      <3>2. M * (i - 1) \in Nat /\ M * (i - 1) <= M * (k - 1) /\ M * i = M * (i - 1) + M
        BY <1>1, <1>3, <3>1
      <3>3. i < n => M * i <= M * (k - 1)
        BY <1>1, <1>3, <3>1
      <3>4. M * (k - 1) \in Int
        BY <1>1, <1>3
      <3>5. QED
        BY <1>1, <1>6, <1>7, <2>2, <3>1, <3>2, <3>3, <3>4
    <2>3. QED
      BY <2>1, <2>2
  <1>11. ASSUME NEW i \in 1 .. n PROVE Cut(i, n, a)
    BY <1>10, Zenon DEF Cut, M
  <1>12. QED
    BY <1>9, <1>11, Zenon

-----------------------------------------------------------------------------
\* what the members of a sender are
LEMMA Members ==
    ASSUME NEW s, NEW w, Numbered(s, w)
    PROVE  /\ s.isn = ISN /\ s.window_size \in Nat /\ s.next_seqno \in Nat /\ s.current_seqno \in Nat
           /\ s.stream \in ByteStreamType(Byte) /\ s.stream.buffer \in Seq(Byte)
           /\ Len(s.stream.buffer) \in Nat /\ s.stream.bytes_read \in Nat
           /\ s.stream.input_ended \in BOOLEAN /\ s.fin \in BOOLEAN /\ s.is_timer_on \in BOOLEAN
           /\ w \in Seq(Byte) /\ Len(w) \in Nat /\ MaxWritten \in Nat
           /\ s.next_seqno <= Len(w) + 2 /\ s.next_seqno <= MaxWritten + 2
           /\ s.segments_out \in Seq(SegType) /\ s.outstanding_segments \in Seq(SegType)
           /\ Len(s.segments_out) \in Nat /\ Len(s.outstanding_segments) \in Nat
  <1>1. s \in SenderType /\ w \in Seq(Byte) /\ Len(w) <= MaxWritten /\ MaxWritten \in Nat
    BY SenderSpecAssumption DEF Numbered
  <1>2. /\ s.isn = ISN /\ s.window_size \in Nat /\ s.next_seqno \in Nat /\ s.current_seqno \in Nat
        /\ s.stream \in ByteStreamType(Byte) /\ s.fin \in BOOLEAN /\ s.is_timer_on \in BOOLEAN
        /\ s.segments_out \in Seq(SegType) /\ s.outstanding_segments \in Seq(SegType)
    BY <1>1 DEF SenderType
  <1>3. /\ s.stream.buffer \in Seq(Byte) /\ s.stream.bytes_read \in Nat
        /\ s.stream.input_ended \in BOOLEAN
    BY <1>2 DEF ByteStreamType
  <1>4. /\ Len(s.stream.buffer) \in Nat /\ Len(w) \in Nat
        /\ Len(s.segments_out) \in Nat /\ Len(s.outstanding_segments) \in Nat
    BY <1>1, <1>2, <1>3, LenProperties
  <1>5. /\ s.stream.bytes_read + Len(s.stream.buffer) = Len(w)
        /\ s.next_seqno > 0 => s.next_seqno = 1 + s.stream.bytes_read + int(s.fin)
    BY DEF Numbered
  <1>6. s.next_seqno <= Len(w) + 2 /\ s.next_seqno <= MaxWritten + 2
    <2> DEFINE n == s.next_seqno
               r == s.stream.bytes_read
               b == Len(s.stream.buffer)
               f == int(s.fin)
               l == Len(w)
    <2>1. /\ n \in Nat /\ r \in Nat /\ b \in Nat /\ f \in {0, 1} /\ l \in Nat /\ l <= MaxWritten
          /\ MaxWritten \in Nat /\ r + b = l /\ (n > 0 => n = 1 + r + f)
      BY <1>1, <1>2, <1>3, <1>4, <1>5, Zenon DEF int
    <2> HIDE DEF n, r, b, f, l
    <2>2. n <= l + 2 /\ n <= MaxWritten + 2
      BY <2>1
    <2>3. QED
      BY <2>2 DEF n, l
  <1>7. QED
    BY <1>1, <1>2, <1>3, <1>4, <1>6

\* how much one call of fill_window() sends
LEMMA Amounts ==
    ASSUME NEW s, NEW w, Numbered(s, w)
    PROVE  LET a == actual_payload_size(s)
               reach == reach_fin(s)
               b == Len(s.stream.buffer)
           IN  /\ a \in 0 .. b /\ a \in Nat /\ reach \in BOOLEAN
               /\ reach => s.stream.input_ended /\ ~s.fin /\ a = b
               /\ s.next_seqno = 0 => a = 0 /\ ~reach
               /\ s.fin => a = 0 /\ ~reach
               /\ int(s.next_seqno = 0) + a + int(reach) <= s.window_size
               /\ int(s.next_seqno = 0) + a + int(reach) \in Nat
  <1> DEFINE b == Len(s.stream.buffer)
             v == s.window_size
             ended == s.stream.input_ended /\ ~s.fin
             first == s.next_seqno = 0
             reach == ended /\ v >= int(first) + b + 1
             a == min(int(first) + b + int(ended), v) - int(first) - int(reach)
  <1>1. b \in Nat /\ v \in Nat /\ ended \in BOOLEAN /\ first \in BOOLEAN
    BY Members
  <1>2. first => v = 1
    BY DEF Numbered
  <1>3. reach_fin(s) <=> reach
    BY DEF reach_fin, buffer_size
  <1>4. actual_payload_size(s) = a
    BY <1>3, Zenon DEF actual_payload_size, buffer_size, int
  <1>5. s.fin => b = 0 /\ ~reach
    BY Zenon DEF Numbered
  <1>6. reach_fin(s) \in BOOLEAN /\ int(reach_fin(s)) = int(reach)
    BY <1>3, Zenon DEF reach_fin, int
  <1>7. /\ a \in 0 .. b
        /\ reach => a = b
        /\ first => a = 0 /\ ~reach
        /\ int(first) + a + int(reach) <= v
    <2> HIDE DEF b, v, ended, first
    <2>1. QED
      BY <1>1, <1>2, WindowArithmetic
  <1>8. reach => s.stream.input_ended /\ ~s.fin
    BY Zenon
  <1>9. int(first) \in Nat /\ int(reach) \in Nat
    BY DEF int
  <1> HIDE DEF a, b, v, ended, first, reach
  <1>10. a \in Nat /\ int(first) + a + int(reach) \in Nat /\ (b = 0 => a = 0)
    BY <1>1, <1>7, <1>9
  <1>11. QED
    BY <1>3, <1>4, <1>5, <1>6, <1>7, <1>8, <1>10, Zenon DEF b, v, first

\* the pieces that fill_window() cuts
LEMMA Pieces ==
    ASSUME NEW s, NEW w, Numbered(s, w)
    PROVE  LET n == num_segments(s)
               a == actual_payload_size(s)
           IN  /\ n \in Nat
               /\ n = 0 => a = 0 /\ ~reach_fin(s) /\ s.next_seqno > 0
               /\ n > 0 => ~s.fin /\ (a > 0 \/ reach_fin(s) \/ s.next_seqno = 0)
               /\ a = 0 => n <= 1
               /\ \A i \in 1 .. n : Cut(i, n, a)
  <1> DEFINE b == int(s.next_seqno = 0 \/ reach_fin(s))
             a == actual_payload_size(s)
             n == num_segments(s)
  <1>1. a \in Nat /\ b \in {0, 1} /\ n = max((a + MAX_PAYLOAD_SIZE - 1) \div MAX_PAYLOAD_SIZE, b)
    BY Amounts, Zenon DEF num_segments, int
  <1>2. b = 0 <=> ~(s.next_seqno = 0 \/ reach_fin(s))
    BY DEF int
  <1>3. s.fin => a = 0 /\ ~reach_fin(s) /\ s.next_seqno # 0
    BY Amounts, Zenon DEF Numbered
  <1>4. s.next_seqno \in Nat
    BY Members
  <1> HIDE DEF a, b, n
  <1>5. /\ n \in Nat /\ (n = 0 => a = 0 /\ b = 0) /\ (a = 0 => n = b)
        /\ \A i \in 1 .. n : Cut(i, n, a)
    BY <1>1, Cuts
  <1>6. /\ n = 0 => a = 0 /\ ~reach_fin(s) /\ s.next_seqno > 0
        /\ n > 0 => ~s.fin /\ (a > 0 \/ reach_fin(s) \/ s.next_seqno = 0)
        /\ a = 0 => n <= 1
    BY <1>1, <1>2, <1>3, <1>4, <1>5
  <1>7. QED
    BY <1>5, <1>6 DEF a, n

\* the i-th segment of one call of fill_window()
LEMMA OneSegment ==
    ASSUME NEW s, NEW w, Numbered(s, w), NEW i \in 1 .. num_segments(s)
    PROVE  LET seg == new_segment(s, i)
               before == MAX_PAYLOAD_SIZE * (i - 1)
               length == int(s.next_seqno = 0) + actual_payload_size(s) + int(reach_fin(s))
           IN  /\ seg \in SegType
               /\ At(seg) = s.next_seqno + before
               /\ i = num_segments(s) => After(seg) = s.next_seqno + length
               /\ i < num_segments(s) => After(seg) = s.next_seqno + MAX_PAYLOAD_SIZE * i
               /\ SegOK(seg, w, s.stream.input_ended)
  <1> DEFINE M == MAX_PAYLOAD_SIZE
             n == num_segments(s)
             a == actual_payload_size(s)
             reach == reach_fin(s)
             next == s.next_seqno
             before == M * (i - 1)
             size == min(M, a - before)
             buffer == s.stream.buffer
             payload == SubSeq(buffer, before + 1, before + size)
             syn == next = 0 /\ i = 1
             fin == reach /\ i = n
             seqno == next + before + int(next = 0 /\ i > 1)
             seg == new_segment(s, i)
             read == s.stream.bytes_read
             length == int(next = 0) + a + int(reach)
  <1>1. /\ next \in Nat /\ next <= Len(w) + 2 /\ Len(w) \in Nat /\ Len(w) <= MaxWritten
        /\ MaxWritten \in Nat /\ s.isn = ISN /\ read \in Nat /\ buffer \in Seq(Byte)
        /\ Len(buffer) \in Nat /\ read + Len(buffer) = Len(w) /\ w \in Seq(Byte)
        /\ \A j \in 1 .. Len(buffer) : buffer[j] = w[read + j]
        /\ next = 0 => read = 0
    BY Members DEF Numbered
  <1>2. /\ a \in 0 .. Len(buffer) /\ a \in Nat /\ reach \in BOOLEAN
        /\ reach => s.stream.input_ended /\ a = Len(buffer)
        /\ next = 0 => a = 0 /\ ~reach
    BY Amounts
  <1>3. /\ n \in Nat /\ n > 0 /\ i \in Nat /\ i >= 1 /\ i <= n
        /\ ~s.fin /\ (a > 0 \/ reach \/ next = 0) /\ (a = 0 => n <= 1)
    <2>1. n \in Nat /\ i \in 1 .. n
      BY Pieces
    <2>2. n > 0 /\ i \in Nat /\ i >= 1 /\ i <= n
      BY <2>1
    <2>3. QED
      BY <2>1, <2>2, Pieces
  <1>4. /\ before \in Nat /\ before <= a /\ (a > 0 => before < a)
        /\ i < n => before + M < a /\ M * i = before + M
        /\ i = n => a - before <= M
    BY Pieces DEF Cut
  <1>5. M \in Nat /\ M > 0
    BY SenderAssumption
  <1>6. next > 0 => next = 1 + read
    <2>1. (next > 0 => next = 1 + read + int(s.fin)) /\ int(s.fin) = 0
      BY <1>3 DEF Numbered, int
    <2> HIDE DEF next, read
    <2>2. QED
      BY <1>1, <2>1
  <1>7. seg = [ NewTCPSegment(wrap(seqno, ISN)) EXCEPT !.syn = syn, !.fin = fin, !.payload = payload ]
    BY <1>1, Zenon DEF new_segment
  <1> HIDE DEF M, n, a, reach, next, before, seg, read, buffer
  <1>8. /\ size \in Nat /\ before + size <= a
        /\ i < n => size = M
        /\ i = n => before + size = a
        /\ a > 0 => size > 0
        /\ a = 0 => size = 0 /\ i = n
    BY <1>2, <1>3, <1>4, <1>5 DEF min
  <1>9. seqno = next + before /\ seqno \in Nat /\ seqno <= MaxWritten + 3
    <2>1. next = 0 => i = 1
      BY <1>2, <1>3
    <2>2. int(next = 0 /\ i > 1) = 0
      BY <1>3, <2>1 DEF int
    <2>3. QED
      BY <1>1, <1>2, <1>4, <1>6, <2>2
  <1> HIDE DEF size, seqno
  <1>10. /\ payload \in Seq(Byte) /\ Len(payload) = size
         /\ \A j \in 1 .. size : payload[j] = buffer[before + j]
    <2> DEFINE f == before + 1
               l == before + size
    <2>1. f \in Int /\ l \in Int /\ l <= Len(buffer) /\ f >= 1
      BY <1>1, <1>2, <1>4, <1>8
    <2>2. \A j \in f .. l : buffer[j] \in Byte
      BY <1>1, <2>1, ElementOfSeq
    <2>3. l - f + 1 = size /\ \A j \in 1 .. size : f + j - 1 = before + j
      BY <1>4, <1>8
    <2> HIDE DEF f, l
    <2>4. /\ SubSeq(buffer, f, l) \in Seq(Byte)
          /\ Len(SubSeq(buffer, f, l)) = IF f <= l THEN l - f + 1 ELSE 0
          /\ \A j \in 1 .. l - f + 1 : SubSeq(buffer, f, l)[j] = buffer[f + j - 1]
      BY <2>1, <2>2, SubSeqProperties
    <2>5. Len(SubSeq(buffer, f, l)) = size
      BY <1>8, <2>1, <2>3, <2>4
    <2>6. \A j \in 1 .. size : SubSeq(buffer, f, l)[j] = buffer[before + j]
      BY <2>3, <2>4
    <2>7. QED
      BY <2>4, <2>5, <2>6 DEF f, l
  <1> DEFINE q == wrap(seqno, ISN)
  <1>11. q \in WrappingInt32
    BY <1>9, WrapType
  <1>12. syn \in BOOLEAN /\ fin \in BOOLEAN
    BY <1>2
  <1> HIDE DEF payload, syn, fin, q
  <1>13. seg \in SegType /\ seg.seqno = q /\ seg.syn = syn /\ seg.fin = fin /\ seg.payload = payload
    BY <1>7, <1>10, <1>11, <1>12, Zenon DEF NewTCPSegment, SegType, q
  <1>14. At(seg) = next + before /\ seg.seqno = wrap(At(seg), ISN) /\ At(seg) \in Nat
    <2>1. unwrap(wrap(seqno, ISN), ISN, 0) = seqno
      BY <1>1, <1>9, UnwrapNear
    <2>2. QED
      BY <1>9, <1>13, <2>1 DEF At, q
  <1>15. syn <=> next + before = 0
    BY <1>1, <1>2, <1>3, <1>4, <1>5 DEF syn
  <1>16. length_in_sequence_space(seg) = size + int(syn) + int(fin)
    BY <1>10, <1>13 DEF length_in_sequence_space
  <1>17. /\ size + int(syn) + int(fin) > 0
         /\ i = n => next + before + size + int(syn) + int(fin) = next + length
         /\ i < n => next + before + size + int(syn) + int(fin) = next + M * i
    <2>1. CASE next = 0
      BY <1>1, <1>2, <1>3, <1>4, <1>8, <2>1 DEF int, syn, fin
    <2>2. CASE next # 0
      BY <1>1, <1>2, <1>3, <1>4, <1>5, <1>8, <2>2 DEF int, syn, fin
    <2>3. QED
      BY <2>1, <2>2
  <1>18. LET first == next + before + int(syn)
         IN  /\ first + size <= Len(w) + 1
             /\ \A j \in 1 .. size : payload[j] = w[first + j - 1]
             /\ fin => s.stream.input_ended /\ first + size = Len(w) + 1
    <2>1. CASE next = 0
      <3>1. size = 0 /\ ~fin /\ next + before = 0
        BY <1>2, <1>4, <1>8, <2>1 DEF fin
      <3>2. QED
        BY <1>1, <3>1 DEF int
    <2>2. CASE next # 0
      <3>1. next = 1 + read /\ int(syn) = 0
        BY <1>1, <1>6, <2>2 DEF int, syn
      <3>2. 1 + read + before + size <= Len(w) + 1
        BY <1>1, <1>2, <1>4, <1>8
      <3>3. ASSUME NEW j \in 1 .. size PROVE payload[j] = w[(1 + read + before) + j - 1]
        <4>1. before + j \in 1 .. Len(buffer) /\ read + (before + j) = (1 + read + before) + j - 1
          BY <1>1, <1>2, <1>4, <1>8
        <4>2. QED
          BY <1>1, <1>10, <4>1, Zenon
      <3>4. fin => s.stream.input_ended /\ 1 + read + before + size = Len(w) + 1
        BY <1>1, <1>2, <1>4, <1>8 DEF fin
      <3>5. next + before + int(syn) = 1 + read + before
        BY <1>1, <1>4, <3>1
      <3>6. QED
        BY <3>2, <3>3, <3>4, <3>5, Zenon
    <2>3. QED
      BY <2>1, <2>2
  <1>19. SegOK(seg, w, s.stream.input_ended)
    BY <1>10, <1>13, <1>14, <1>15, <1>16, <1>17, <1>18, Zenon DEF SegOK
  <1>20. /\ i = n => After(seg) = next + length
         /\ i < n => After(seg) = next + M * i
    <2>1. After(seg) = (next + before) + (size + int(syn) + int(fin))
      BY <1>14, <1>16, Zenon DEF After
    <2>2. int(syn) \in Nat /\ int(fin) \in Nat
      BY DEF int
    <2>3. (next + before) + (size + int(syn) + int(fin)) = next + before + size + int(syn) + int(fin)
      BY <1>1, <1>4, <1>8, <2>2
    <2>4. QED
      BY <1>17, <2>1, <2>3
  <1>21. QED
    BY <1>13, <1>14, <1>19, <1>20 DEF n, a, M, reach, next, seg, before

\* all the segments of one call of fill_window() follow each other from next_seqno on
LEMMA NewSegments ==
    ASSUME NEW s, NEW w, Numbered(s, w)
    PROVE  LET n == num_segments(s)
               segments == [ i \in 1 .. n |-> new_segment(s, i) ]
               length == int(s.next_seqno = 0) + actual_payload_size(s) + int(reach_fin(s))
           IN  /\ n \in Nat /\ segments \in Seq(SegType) /\ Len(segments) = n
               /\ \A i \in 1 .. n : SegOK(segments[i], w, s.stream.input_ended)
               /\ \A i \in 1 .. n - 1 : After(segments[i]) = At(segments[i + 1])
               /\ n > 0 => At(segments[1]) = s.next_seqno /\ After(segments[n]) = s.next_seqno + length
               /\ n > 0 => length > 0
               /\ n = 0 => segments = << >> /\ length = 0
  <1> DEFINE n == num_segments(s)
             next == s.next_seqno
             a == actual_payload_size(s)
             segments == [ i \in 1 .. n |-> new_segment(s, i) ]
             length == int(next = 0) + a + int(reach_fin(s))
             M == MAX_PAYLOAD_SIZE
  <1>1. /\ n \in Nat
        /\ n = 0 => a = 0 /\ ~reach_fin(s) /\ next > 0
        /\ n > 0 => a > 0 \/ reach_fin(s) \/ next = 0
    BY Pieces
  <1>2. next \in Nat /\ a \in Nat /\ length \in Nat /\ M \in Nat
    BY Members, Amounts, SenderAssumption
  <1>3. ASSUME NEW i \in 1 .. n
        PROVE  /\ segments[i] = new_segment(s, i) /\ segments[i] \in SegType
               /\ At(segments[i]) = next + M * (i - 1)
               /\ i = n => After(segments[i]) = next + length
               /\ i < n => After(segments[i]) = next + M * i
               /\ SegOK(segments[i], w, s.stream.input_ended)
    <2>1. segments[i] = new_segment(s, i)
      OBVIOUS
    <2>2. QED
      BY <2>1, OneSegment
  <1> HIDE DEF n, next, a, length, M
  <1>4. segments \in Seq(SegType) /\ Len(segments) = n
    <2>1. \A i \in 1 .. n : new_segment(s, i) \in SegType
      BY <1>3
    <2>2. QED
      BY <1>1, <2>1
  <1> HIDE DEF segments
  <1>5. ASSUME NEW i \in 1 .. n - 1 PROVE After(segments[i]) = At(segments[i + 1])
    <2>1. i \in 1 .. n /\ i < n /\ i + 1 \in 1 .. n /\ (i + 1) - 1 = i
      BY <1>1
    <2>2. QED
      BY <1>3, <2>1
  <1>6. n > 0 => At(segments[1]) = next /\ After(segments[n]) = next + length
    <2> SUFFICES ASSUME n > 0 PROVE At(segments[1]) = next /\ After(segments[n]) = next + length
      OBVIOUS
    <2>1. 1 \in 1 .. n /\ n \in 1 .. n /\ M * (1 - 1) = 0
      BY <1>1, <1>2
    <2>2. At(segments[1]) = next + M * (1 - 1) /\ After(segments[n]) = next + length
      BY <1>3, <2>1
    <2>3. QED
      BY <1>2, <2>1, <2>2
  <1>7. (n > 0 => length > 0) /\ (n = 0 => length = 0)
    BY <1>1, <1>2 DEF length, int
  <1>8. n = 0 => segments = << >>
    BY <1>4, EmptySeq
  <1>9. QED
    BY <1>1, <1>3, <1>4, <1>5, <1>6, <1>7, <1>8 DEF n, next, a, segments, length

LEMMA LengthType ==
    ASSUME NEW seg \in SegType
    PROVE  length_in_sequence_space(seg) \in Nat
  <1>1. Len(seg.payload) \in Nat
    BY LenProperties DEF SegType
  <1>2. int(seg.syn) \in Nat /\ int(seg.fin) \in Nat
    BY DEF int
  <1>3. QED
    BY <1>1, <1>2 DEF length_in_sequence_space

\* segments that begin where the others end continue their tiling
LEMMA JoinTiles ==
    ASSUME NEW A \in Seq(SegType), NEW B \in Seq(SegType), NEW w, NEW ended,
           NEW cur \in Nat, NEW mid \in Nat, NEW next \in Nat,
           Tiles(A, w, ended, cur, mid), Len(B) > 0, mid < next,
           \A i \in 1 .. Len(B) : SegOK(B[i], w, ended),
           \A i \in 1 .. Len(B) - 1 : After(B[i]) = At(B[i + 1]),
           At(B[1]) = mid, After(B[Len(B)]) = next
    PROVE  Tiles(A \o B, w, ended, cur, next)
  <1> DEFINE m == Len(A)
             n == Len(B)
             C == A \o B
  <1>1. m \in Nat /\ n \in Nat /\ n > 0
    BY LenProperties
  <1>2. Len(C) = m + n /\ \A i \in 1 .. m + n : C[i] = IF i <= m THEN A[i] ELSE B[i - m]
    BY ConcatProperties
  <1>3. /\ \A i \in 1 .. m : SegOK(A[i], w, ended)
        /\ \A i \in 1 .. m - 1 : After(A[i]) = At(A[i + 1])
        /\ m = 0 => cur = mid
        /\ m > 0 => At(A[1]) <= cur /\ After(A[1]) > cur /\ After(A[m]) = mid
    BY DEF Tiles
  <1> HIDE DEF m, n, C
  <1>4. /\ \A i \in 1 .. m : C[i] = A[i]
        /\ \A i \in 1 .. n : C[m + i] = B[i]
    BY <1>1, <1>2
  <1>5. \A i \in 1 .. n : SegOK(B[i], w, ended)
    BY DEF n
  <1>6. ASSUME NEW i \in 1 .. m + n PROVE SegOK(C[i], w, ended)
    <2>1. CASE i <= m
      BY <1>1, <1>3, <1>4, <2>1
    <2>2. CASE i > m
      <3>1. i - m \in 1 .. n /\ C[i] = B[i - m]
        BY <1>1, <1>2, <2>2
      <3>2. QED
        BY <1>5, <3>1
    <2>3. QED
      BY <1>1, <2>1, <2>2
  <1>7. ASSUME NEW i \in 1 .. (m + n) - 1 PROVE After(C[i]) = At(C[i + 1])
    <2>1. CASE i < m
      <3>1. i \in 1 .. m - 1 /\ i \in 1 .. m /\ i + 1 \in 1 .. m
        BY <1>1, <2>1
      <3>2. QED
        BY <1>3, <1>4, <3>1
    <2>2. CASE i = m
      <3>1. i \in 1 .. m /\ 1 \in 1 .. n
        BY <1>1, <2>2
      <3>2. C[i] = A[m] /\ C[i + 1] = B[1] /\ m > 0
        BY <1>1, <1>4, <2>2, <3>1
      <3>3. QED
        BY <1>3, <3>2
    <2>3. CASE i > m
      <3>1. i - m \in 1 .. n - 1 /\ i - m \in 1 .. n /\ (i - m) + 1 \in 1 .. n
            /\ m + (i - m) = i /\ m + ((i - m) + 1) = i + 1
        BY <1>1, <2>3
      <3>2. C[i] = B[i - m] /\ C[i + 1] = B[(i - m) + 1]
        BY <1>4, <3>1
      <3>3. After(B[i - m]) = At(B[(i - m) + 1])
        BY <3>1 DEF n
      <3>4. QED
        BY <3>2, <3>3
    <2>4. QED
      BY <1>1, <2>1, <2>2, <2>3
  <1>8. At(C[1]) <= cur /\ After(C[1]) > cur
    <2>1. CASE m > 0
      <3>1. C[1] = A[1]
        BY <1>1, <1>4, <2>1
      <3>2. QED
        BY <1>3, <2>1, <3>1
    <2>2. CASE m = 0
      <3>1. C[1] = B[1] /\ cur = mid
        BY <1>1, <1>2, <1>3, <2>2
      <3>2. At(B[1]) = mid /\ SegOK(B[1], w, ended)
        BY <1>1, <1>5
      <3>3. length_in_sequence_space(B[1]) > 0 /\ length_in_sequence_space(B[1]) \in Nat
        <4>1. B[1] \in SegType /\ length_in_sequence_space(B[1]) > 0
          BY <1>1, <3>2, ElementOfSeq DEF SegOK, n
        <4>2. QED
          BY <4>1, LengthType
      <3>4. After(B[1]) > mid
        <4>1. After(B[1]) = mid + length_in_sequence_space(B[1])
          BY <3>2 DEF After
        <4>2. QED
          BY <3>3, <4>1
      <3>5. QED
        BY <3>1, <3>2, <3>4
    <2>3. QED
      BY <1>1, <2>1, <2>2
  <1>9. After(C[m + n]) = next
    <2>1. C[m + n] = B[n]
      BY <1>1, <1>4
    <2>2. QED
      BY <2>1 DEF n
  <1>10. m + n # 0
    BY <1>1
  <1>11. Tiles(C, w, ended, cur, next)
    BY <1>2, <1>6, <1>7, <1>8, <1>9, <1>10, Zenon DEF Tiles
  <1>12. QED
    BY <1>11 DEF C

-----------------------------------------------------------------------------
\* the members that the timer does not concern
SameButTimer(s, t) ==
    /\ t.window_size = s.window_size
    /\ t.segments_out = s.segments_out
    /\ t.outstanding_segments = s.outstanding_segments
    /\ t.stream = s.stream
    /\ t.fin = s.fin
    /\ t.current_seqno = s.current_seqno
    /\ t.next_seqno = s.next_seqno

\* a timer just started, or restarted, is right
LEMMA Restarted ==
    ASSUME NEW t, t.retransmission_timeout = RT_TIMEOUT, t.timer_elapsed = 0,
           t.consecutive_retransmissions = 0
    PROVE  Timed(t)
  <1>1. RT_TIMEOUT \in Nat /\ RT_TIMEOUT > 0 /\ Doubled[0] = 1
    BY SenderAssumption, DoubledFacts
  <1>2. RT_TIMEOUT * Doubled[0] = RT_TIMEOUT
    BY <1>1
  <1>3. QED
    BY <1>1, <1>2 DEF Timed

LEMMA StartTimer ==
    ASSUME NEW s \in SenderType
    PROVE  /\ start_timer(s) \in SenderType /\ start_timer(s).is_timer_on
           /\ SameButTimer(s, start_timer(s))
           /\ Timed(s) => Timed(start_timer(s))
  <1> DEFINE t == [ s EXCEPT !.is_timer_on = TRUE, !.retransmission_timeout = RT_TIMEOUT,
                             !.timer_elapsed = 0, !.consecutive_retransmissions = 0 ]
  <1>1. CASE s.is_timer_on
    <2>1. start_timer(s) = s
      BY <1>1 DEF start_timer
    <2>2. QED
      BY <1>1, <2>1 DEF SameButTimer
  <1>2. CASE ~s.is_timer_on
    <2>1. start_timer(s) = t
      BY <1>2, Zenon DEF start_timer
    <2>2. /\ t \in SenderType /\ t.is_timer_on = TRUE /\ t.retransmission_timeout = RT_TIMEOUT
          /\ t.timer_elapsed = 0 /\ t.consecutive_retransmissions = 0 /\ SameButTimer(s, t)
      BY SenderAssumption, Zenon DEF SenderType, SameButTimer
    <2> HIDE DEF t
    <2>3. Timed(t)
      BY <2>2, Restarted
    <2>4. QED
      BY <2>1, <2>2, <2>3
  <1>3. QED
    BY <1>1, <1>2

LEMMA StopTimer ==
    ASSUME NEW s \in SenderType
    PROVE  /\ stop_timer(s) \in SenderType
           /\ SameButTimer(s, stop_timer(s))
           /\ stop_timer(s).is_timer_on => s.is_timer_on
           /\ stop_timer(s).is_timer_on => s.outstanding_segments # << >>
           /\ s.outstanding_segments # << >> => stop_timer(s).is_timer_on = s.is_timer_on
           /\ Timed(s) => Timed(stop_timer(s))
  <1> DEFINE t == [ s EXCEPT !.is_timer_on = FALSE ]
  <1>1. CASE s.outstanding_segments # << >>
    <2>1. stop_timer(s) = s
      BY <1>1 DEF stop_timer
    <2>2. QED
      BY <1>1, <2>1 DEF SameButTimer
  <1>2. CASE s.outstanding_segments = << >>
    <2>1. stop_timer(s) = t
      BY <1>2, Zenon DEF stop_timer
    <2>2. /\ t \in SenderType /\ t.is_timer_on = FALSE /\ SameButTimer(s, t)
          /\ t.retransmission_timeout = s.retransmission_timeout /\ t.timer_elapsed = s.timer_elapsed
          /\ t.consecutive_retransmissions = s.consecutive_retransmissions
      BY Zenon DEF SenderType, SameButTimer
    <2> HIDE DEF t
    <2>3. Timed(s) => Timed(t)
      BY <2>2 DEF Timed
    <2>4. QED
      BY <1>2, <2>1, <2>2, <2>3
  <1>3. QED
    BY <1>1, <1>2

\* the timer has no part in the numbers, the tiling and what was sent
LEMMA TimerApart ==
    ASSUME NEW s, NEW t \in SenderType, NEW w, SameButTimer(s, t)
    PROVE  /\ Numbered(s, w) => Numbered(t, w)
           /\ Tiled(s, w) => Tiled(t, w)
           /\ \A seg : Sendable(seg, s, w) => Sendable(seg, t, w)
  BY Zenon DEF SameButTimer, Numbered, Tiled, Sendable

-----------------------------------------------------------------------------
\* what fill_window() leaves in the members when it sends something
LEMMA FilledMembers ==
    ASSUME NEW s, NEW w, Numbered(s, w), num_segments(s) > 0
    PROVE  LET n == num_segments(s)
               a == actual_payload_size(s)
               segments == [ i \in 1 .. n |-> new_segment(s, i) ]
               length == int(s.next_seqno = 0) + a + int(reach_fin(s))
               t == fill_window(s)
           IN  /\ t \in SenderType /\ t.is_timer_on
               /\ t.stream = pop_output(s.stream, a)
               /\ t.next_seqno = s.next_seqno + length
               /\ t.window_size = s.window_size - length
               /\ t.segments_out = s.segments_out \o segments
               /\ t.outstanding_segments = s.outstanding_segments \o segments
               /\ t.fin = (s.fin \/ reach_fin(s))
               /\ t.current_seqno = s.current_seqno
               /\ Timed(s) => Timed(t)
  <1> DEFINE n == num_segments(s)
             a == actual_payload_size(s)
             segments == [ i \in 1 .. n |-> new_segment(s, i) ]
             length == int(s.next_seqno = 0) + a + int(reach_fin(s))
             stream == pop_output(s.stream, a)
             next == s.next_seqno + length
             window == s.window_size - length
             out == s.segments_out \o segments
             kept == s.outstanding_segments \o segments
             fin == s.fin \/ reach_fin(s)
             f == [ s EXCEPT !.stream = stream, !.next_seqno = next, !.window_size = window,
                             !.segments_out = out, !.outstanding_segments = kept, !.fin = fin ]
  <1>1. segments \in Seq(SegType) /\ Len(segments) = n /\ n \in Nat
    BY NewSegments, Zenon
  <1>2. segments # << >>
    <2> HIDE DEF segments, n
    <2>1. n > 0
      BY DEF n
    <2>2. QED
      BY <1>1, <2>1, EmptySeq
  <1>3. fill_window(s) = start_timer(f)
    BY <1>2, Zenon DEF fill_window
  <1>4. /\ s.next_seqno \in Nat /\ s.window_size \in Nat /\ length \in Nat /\ length <= s.window_size
        /\ s.segments_out \in Seq(SegType) /\ s.outstanding_segments \in Seq(SegType)
        /\ s.stream \in ByteStreamType(Byte) /\ a \in 0 .. Len(s.stream.buffer)
        /\ Len(s.stream.buffer) \in Nat
    BY Members, Amounts
  <1>5. fin \in BOOLEAN
    OBVIOUS
  <1>6. stream \in ByteStreamType(Byte)
    <2>1. available_output(s.stream, a) = a
      BY <1>4 DEF available_output, buffer_size, min
    <2>2. QED
      BY <1>4, <2>1, PopFields
  <1> HIDE DEF segments, length, stream, fin
  <1>7. next \in Nat /\ window \in Nat
    BY <1>4
  <1>8. out \in Seq(SegType) /\ kept \in Seq(SegType)
    BY <1>1, <1>4, ConcatProperties
  <1> HIDE DEF next, window, out, kept
  <1>9. s \in SenderType
    BY DEF Numbered
  <1>10. /\ f \in SenderType /\ f.stream = stream /\ f.next_seqno = next /\ f.window_size = window
         /\ f.segments_out = out /\ f.outstanding_segments = kept /\ f.fin = fin
         /\ f.current_seqno = s.current_seqno /\ f.timer_elapsed = s.timer_elapsed
         /\ f.retransmission_timeout = s.retransmission_timeout
         /\ f.consecutive_retransmissions = s.consecutive_retransmissions
    BY <1>5, <1>6, <1>7, <1>8, <1>9, Zenon DEF SenderType
  <1> HIDE DEF f
  <1>11. Timed(s) => Timed(f)
    BY <1>10 DEF Timed
  <1> DEFINE t == fill_window(s)
  <1>12. /\ t \in SenderType /\ t.is_timer_on /\ SameButTimer(f, t) /\ (Timed(s) => Timed(t))
    BY <1>3, <1>10, <1>11, StartTimer
  <1> HIDE DEF t
  <1>13. /\ t.stream = stream /\ t.next_seqno = next /\ t.window_size = window
         /\ t.segments_out = out /\ t.outstanding_segments = kept /\ t.fin = fin
         /\ t.current_seqno = s.current_seqno
    BY <1>10, <1>12, Zenon DEF SameButTimer
  <1>14. QED
    BY <1>12, <1>13, Zenon DEF t, segments, length, stream, fin, next, window, out, kept

\* the numbers, the tiling and what is sent stay right
LEMMA FilledSound ==
    ASSUME NEW s, NEW w, Sound(s, w), num_segments(s) > 0, s.segments_out = << >>
    PROVE  /\ Sound(fill_window(s), w)
           /\ fill_window(s).outstanding_segments # << >>
           /\ fill_window(s).next_seqno + fill_window(s).window_size = s.next_seqno + s.window_size
           /\ fill_window(s).current_seqno = s.current_seqno
  <1> DEFINE t == fill_window(s)
             n == num_segments(s)
             a == actual_payload_size(s)
             reach == reach_fin(s)
             segments == [ i \in 1 .. n |-> new_segment(s, i) ]
             length == int(s.next_seqno = 0) + a + int(reach)
             buffer == s.stream.buffer
             read == s.stream.bytes_read
             ended == s.stream.input_ended
  <1>1. Numbered(s, w) /\ Tiled(s, w) /\ Timed(s)
    BY DEF Sound
  <1>2. /\ t \in SenderType /\ t.is_timer_on /\ t.stream = pop_output(s.stream, a)
        /\ t.next_seqno = s.next_seqno + length /\ t.window_size = s.window_size - length
        /\ t.segments_out = << >> \o segments
        /\ t.outstanding_segments = s.outstanding_segments \o segments
        /\ t.fin = (s.fin \/ reach) /\ t.current_seqno = s.current_seqno /\ Timed(t)
    BY <1>1, FilledMembers, Zenon
  <1>3. /\ n \in Nat /\ n > 0 /\ segments \in Seq(SegType) /\ Len(segments) = n
        /\ \A i \in 1 .. n : SegOK(segments[i], w, ended)
        /\ \A i \in 1 .. n - 1 : After(segments[i]) = At(segments[i + 1])
        /\ At(segments[1]) = s.next_seqno /\ After(segments[n]) = s.next_seqno + length
        /\ length > 0
    BY <1>1, NewSegments, Zenon
  <1>4. /\ s.next_seqno \in Nat /\ s.current_seqno \in Nat /\ s.window_size \in Nat
        /\ s.stream \in ByteStreamType(Byte) /\ buffer \in Seq(Byte) /\ Len(buffer) \in Nat
        /\ read \in Nat /\ s.outstanding_segments \in Seq(SegType)
        /\ w \in Seq(Byte) /\ Len(w) \in Nat
    BY <1>1, Members
  <1>5. /\ a \in 0 .. Len(buffer) /\ a \in Nat /\ reach \in BOOLEAN
        /\ reach => ended /\ a = Len(buffer)
        /\ s.next_seqno = 0 => a = 0 /\ ~reach
        /\ length \in Nat /\ length <= s.window_size
    BY <1>1, Amounts
  <1>6. ~s.fin
    BY <1>1, Pieces
  <1>7. /\ s.stream.capacity = Capacity /\ Len(buffer) <= Capacity /\ Len(w) <= MaxWritten
        /\ read + Len(buffer) = Len(w)
        /\ \A j \in 1 .. Len(buffer) : buffer[j] = w[read + j]
        /\ s.next_seqno = 0 => read = 0
        /\ s.next_seqno > 0 => s.next_seqno = 1 + read + int(s.fin)
        /\ s.current_seqno <= s.next_seqno
    BY <1>1 DEF Numbered
  <1>8. /\ t.stream.buffer = SubSeq(buffer, a + 1, Len(buffer))
        /\ t.stream.bytes_read = read + a /\ t.stream.capacity = Capacity
        /\ t.stream.input_ended = ended
    <2>1. available_output(s.stream, a) = a
      BY <1>4, <1>5 DEF available_output, buffer_size, min
    <2> DEFINE p == pop_output(s.stream, a)
    <2>2. /\ p.buffer = SubSeq(buffer, a + 1, Len(buffer)) /\ p.bytes_read = read + a
          /\ p.capacity = s.stream.capacity /\ p.input_ended = ended
      <3> HIDE DEF a
      <3>1. available_output(s.stream, a) \in 0 .. Len(s.stream.buffer)
        BY <1>5, <2>1
      <3>2. s.stream \in ByteStreamType(Byte)
        BY <1>4
      <3> DEFINE k == available_output(s.stream, a)
      <3>3. /\ p.buffer = SubSeq(buffer, k + 1, Len(buffer)) /\ p.bytes_read = read + k
            /\ p.capacity = s.stream.capacity /\ p.input_ended = ended
        BY <3>1, <3>2, PopFields, Zenon
      <3> HIDE DEF p, k
      <3>4. QED
        BY <2>1, <3>3, Zenon DEF k
    <2> HIDE DEF p, t
    <2>3. t.stream = p
      BY <1>2 DEF p
    <2>4. QED
      BY <1>7, <2>2, <2>3, Zenon
  <1> DEFINE rest == SubSeq(buffer, a + 1, Len(buffer))
  <1>9. /\ Len(rest) = Len(buffer) - a
        /\ \A j \in 1 .. Len(buffer) - a : rest[j] = buffer[a + j]
    <2> HIDE DEF a, buffer
    <2>1. \A j \in a + 1 .. Len(buffer) : buffer[j] \in Byte
      BY <1>4, <1>5, ElementOfSeq
    <2>2. /\ Len(rest) = IF a + 1 <= Len(buffer) THEN Len(buffer) - (a + 1) + 1 ELSE 0
          /\ \A j \in 1 .. Len(buffer) - (a + 1) + 1 : rest[j] = buffer[(a + 1) + j - 1]
      BY <1>4, <1>5, <2>1, SubSeqProperties
    <2> HIDE DEF rest
    <2>3. Len(rest) = Len(buffer) - a
      BY <1>4, <1>5, <2>2
    <2>4. ASSUME NEW j \in 1 .. Len(buffer) - a PROVE rest[j] = buffer[a + j]
      <3>1. j \in 1 .. Len(buffer) - (a + 1) + 1 /\ (a + 1) + j - 1 = a + j
        BY <1>4, <1>5
      <3>2. QED
        BY <2>2, <3>1
    <2>5. QED
      BY <2>3, <2>4
  <1> HIDE DEF t, n, a, reach, segments, length, buffer, read, ended, rest
  <1>10. Numbered(t, w)
    <2>1. Len(rest) <= Capacity /\ (read + a) + Len(rest) = Len(w)
      <3>1. /\ Len(rest) = Len(buffer) - a /\ a \in Nat /\ a <= Len(buffer) /\ Len(buffer) \in Nat
            /\ Len(buffer) <= Capacity /\ Capacity \in Nat /\ read \in Nat /\ Len(w) \in Nat
            /\ read + Len(buffer) = Len(w)
        BY <1>4, <1>5, <1>7, <1>9, SenderSpecAssumption
      <3>2. QED
        BY <3>1
    <2>2. ASSUME NEW j \in 1 .. Len(rest) PROVE rest[j] = w[(read + a) + j]
      <3>1. j \in 1 .. Len(buffer) - a /\ a + j \in 1 .. Len(buffer) /\ read + (a + j) = (read + a) + j
        BY <1>4, <1>5, <1>9
      <3>2. QED
        BY <1>7, <1>9, <3>1
    <2>3. s.next_seqno + length > 0
      BY <1>3, <1>4, <1>5
    <2>4. s.next_seqno + length = 1 + (read + a) + int(s.fin \/ reach)
      <3>1. int(s.fin \/ reach) = int(reach) /\ int(s.fin) = 0
        BY <1>5, <1>6 DEF int
      <3>2. int(reach) \in Nat /\ (~reach => int(reach) = 0)
        BY DEF int
      <3>3. CASE s.next_seqno = 0
        <4>1. length = 1 /\ read = 0 /\ a = 0 /\ int(reach) = 0
          BY <1>4, <1>5, <1>7, <3>2, <3>3 DEF length, int
        <4>2. QED
          BY <3>1, <3>3, <4>1
      <3>4. CASE s.next_seqno # 0
        <4>1. length = a + int(reach)
          BY <1>5, <3>2, <3>4 DEF length, int
        <4>2. s.next_seqno = 1 + read
          BY <1>4, <1>7, <3>1, <3>4
        <4>3. QED
          BY <1>4, <1>5, <3>1, <3>2, <4>1, <4>2
      <3>5. QED
        BY <3>3, <3>4
    <2>5. s.fin \/ reach => ended /\ Len(rest) = 0
      BY <1>4, <1>5, <1>6, <1>9
    <2>6. s.current_seqno <= s.next_seqno + length
      BY <1>4, <1>5, <1>7
    <2>7. s.next_seqno + length # 0
      BY <2>3
    <2>8. QED
      BY <1>2, <1>4, <1>7, <1>8, <2>1, <2>2, <2>4, <2>5, <2>6, <2>7, Zenon DEF Numbered, rest
  <1>11. Tiled(t, w)
    <2>1. Tiles(s.outstanding_segments, w, ended, s.current_seqno, s.next_seqno)
      BY <1>1 DEF Tiled, ended
    <2>2. s.next_seqno < s.next_seqno + length /\ s.next_seqno + length \in Nat
      BY <1>3, <1>4, <1>5
    <2>3. Tiles(s.outstanding_segments \o segments, w, ended, s.current_seqno, s.next_seqno + length)
      BY <1>3, <1>4, <2>1, <2>2, JoinTiles, Zenon
    <2>4. QED
      BY <1>2, <1>8, <2>3, Zenon DEF Tiled
  <1>12. t.outstanding_segments # << >>
    <2>1. Len(s.outstanding_segments \o segments) = Len(s.outstanding_segments) + n
      BY <1>3, <1>4, ConcatProperties, Zenon
    <2>2. Len(s.outstanding_segments) + n > 0
      BY <1>3, <1>4, LenProperties
    <2>3. QED
      BY <1>2, <2>1, <2>2, EmptySeq
  <1>13. \A i \in 1 .. Len(t.segments_out) : Sendable(t.segments_out[i], t, w)
    <2>1. t.segments_out = segments
      BY <1>2, <1>3, ConcatEmptySeq
    <2>2. QED
      BY <1>3, <1>8, <2>1, Zenon DEF Sendable
  <1>14. t.next_seqno + t.window_size = s.next_seqno + s.window_size
    BY <1>2, <1>4, <1>5
  <1>15. Sound(t, w)
    BY <1>2, <1>10, <1>11, <1>13, Zenon DEF Sound
  <1>16. QED
    BY <1>2, <1>12, <1>14, <1>15 DEF t

\* fill_window() keeps the sender sound and stays in the window it has
LEMMA FillSound ==
    ASSUME NEW s, NEW w, Sound(s, w), s.segments_out = << >>
    PROVE  /\ Sound(fill_window(s), w)
           /\ fill_window(s) = s \/ fill_window(s).outstanding_segments # << >>
           /\ fill_window(s).next_seqno + fill_window(s).window_size = s.next_seqno + s.window_size
           /\ fill_window(s).current_seqno = s.current_seqno
  <1>1. num_segments(s) \in Nat /\ (num_segments(s) = 0 => [ i \in 1 .. num_segments(s) |-> new_segment(s, i) ] = << >>)
    BY NewSegments, Zenon DEF Sound
  <1>2. CASE num_segments(s) = 0
    <2>1. fill_window(s) = s
      BY <1>1, <1>2, Zenon DEF fill_window
    <2>2. QED
      BY <2>1
  <1>3. CASE num_segments(s) > 0
    BY <1>3, FilledSound
  <1>4. QED
    BY <1>1, <1>2, <1>3

-----------------------------------------------------------------------------
\* the sender's numbers stay near the start of the stream
LEMMA NextBound ==
    ASSUME NEW s, NEW w, Numbered(s, w)
    PROVE  s.next_seqno \in Nat /\ s.next_seqno <= Len(w) + 2 /\ s.next_seqno <= MaxWritten + 2
  <1> DEFINE next == s.next_seqno
             read == s.stream.bytes_read
             size == Len(s.stream.buffer)
             fin == int(s.fin)
             all == Len(w)
  <1>1. /\ next \in Nat /\ read \in Nat /\ s.stream.buffer \in Seq(Byte) /\ w \in Seq(Byte)
        /\ all <= MaxWritten /\ read + size = all
        /\ next > 0 => next = 1 + read + fin
    BY DEF Numbered, SenderType, ByteStreamType
  <1>2. size \in Nat /\ all \in Nat /\ fin \in 0 .. 1
    BY <1>1, LenProperties DEF int
  <1>3. MaxWritten \in Nat
    BY SenderSpecAssumption
  <1> HIDE DEF next, read, size, fin, all
  <1>4. next <= all + 2 /\ next <= MaxWritten + 2
    BY <1>1, <1>2, <1>3
  <1>5. QED
    BY <1>1, <1>4 DEF next, all

\* every checkpoint the sender uses finds where a genuine segment starts
LEMMA StartOfSegment ==
    ASSUME NEW seg \in SegType, NEW w \in Seq(Byte), NEW ended, Len(w) <= MaxWritten,
           SegOK(seg, w, ended), NEW c \in Nat, c <= MaxWritten + 3
    PROVE  unwrap(seg.seqno, ISN, c) = At(seg) /\ At(seg) \in Nat /\ After(seg) \in Nat
  <1>1. /\ seg.seqno = wrap(At(seg), ISN) /\ At(seg) \in Nat
        /\ At(seg) + int(seg.syn) + Len(seg.payload) <= Len(w) + 1
    BY DEF SegOK
  <1>2. Len(seg.payload) \in Nat /\ Len(w) \in Nat
    BY LenProperties DEF SegType
  <1>3. int(seg.syn) \in Nat
    BY DEF int
  <1>4. At(seg) <= MaxWritten + 3
    BY <1>1, <1>2, <1>3, SenderSpecAssumption
  <1>5. unwrap(wrap(At(seg), ISN), ISN, c) = At(seg)
    BY <1>1, <1>4, UnwrapNear
  <1>6. length_in_sequence_space(seg) \in Nat
    BY LengthType
  <1>7. QED
    BY <1>1, <1>5, <1>6 DEF After

\* dropping the segments that are wholly acknowledged leaves a tiling of the rest
LEMMA DropTiles ==
    ASSUME NEW A \in Seq(SegType), NEW w, NEW ended, NEW old \in Nat, NEW cur \in Nat, NEW next \in Nat,
           Tiles(A, w, ended, old, next), old <= cur, cur <= next,
           NEW n \in 0 .. Len(A), \A i \in 1 .. Len(A) : At(A[i]) \in Nat /\ After(A[i]) \in Nat,
           \A i \in 1 .. n : After(A[i]) <= cur,
           n < Len(A) => After(A[n + 1]) > cur
    PROVE  Tiles(SubSeq(A, n + 1, Len(A)), w, ended, cur, next)
  <1> DEFINE B == SubSeq(A, n + 1, Len(A))
             m == Len(A)
             k == m - n
  <1>1. m \in Nat /\ n \in Nat /\ n <= m
    BY LenProperties
  <1>2. Len(B) = k /\ \A i \in 1 .. k : B[i] = A[n + i]
    <2>1. \A i \in n + 1 .. m : A[i] \in SegType
      BY <1>1, ElementOfSeq
    <2> DEFINE p == n + 1
    <2>2. p \in Int /\ m \in Int /\ B = SubSeq(A, p, m) /\ p = n + 1
      BY <1>1
    <2> HIDE DEF B, m, p
    <2>3. (\A i \in p .. m : A[i] \in SegType) /\ p \in Int /\ m \in Int
      BY <2>1, <2>2
    <2>4. /\ Len(SubSeq(A, p, m)) = IF p <= m THEN m - p + 1 ELSE 0
          /\ \A i \in 1 .. m - p + 1 : SubSeq(A, p, m)[i] = A[p + i - 1]
      BY <2>3, SubSeqProperties
    <2>5. m - p + 1 = k /\ \A i \in 1 .. k : p + i - 1 = n + i
      BY <1>1, <2>2
    <2>6. Len(B) = k
      BY <1>1, <2>2, <2>4
    <2>7. QED
      BY <2>2, <2>4, <2>5, <2>6
  <1>3. /\ \A i \in 1 .. m : SegOK(A[i], w, ended)
        /\ \A i \in 1 .. m - 1 : After(A[i]) = At(A[i + 1])
        /\ m = 0 => old = next
        /\ m > 0 => At(A[1]) <= old /\ After(A[1]) > old /\ After(A[m]) = next
    BY DEF Tiles
  <1>4. \A i \in 1 .. m : At(A[i]) \in Nat /\ After(A[i]) \in Nat
    OBVIOUS
  <1>5. n < m => After(A[n + 1]) > cur
    OBVIOUS
  <1> HIDE DEF B, m
  <1>6. \A i \in 1 .. k : SegOK(B[i], w, ended)
    <2>1. \A i \in 1 .. k : n + i \in 1 .. m
      BY <1>1
    <2>2. QED
      BY <1>2, <1>3, <2>1
  <1>7. ASSUME NEW i \in 1 .. k - 1 PROVE After(B[i]) = At(B[i + 1])
    <2>1. i \in 1 .. k /\ i + 1 \in 1 .. k /\ n + i \in 1 .. m - 1 /\ n + (i + 1) = (n + i) + 1
      BY <1>1
    <2>2. QED
      BY <1>2, <1>3, <2>1
  <1>8. k = 0 => cur = next
    <2> SUFFICES ASSUME k = 0 PROVE cur = next
      OBVIOUS
    <2>1. n = m
      BY <1>1
    <2>2. CASE m = 0
      BY <1>3, <2>2
    <2>3. CASE m > 0
      <3>1. After(A[m]) <= cur /\ After(A[m]) = next
        BY <1>1, <1>3, <2>1, <2>3
      <3>2. QED
        BY <3>1
    <2>4. QED
      BY <1>1, <2>2, <2>3
  <1>9. k > 0 => At(B[1]) <= cur /\ After(B[1]) > cur /\ After(B[k]) = next
    <2> SUFFICES ASSUME k > 0 PROVE At(B[1]) <= cur /\ After(B[1]) > cur /\ After(B[k]) = next
      OBVIOUS
    <2>1. /\ 1 \in 1 .. k /\ k \in 1 .. k /\ n + k = m /\ n < m /\ m > 0
          /\ n + 1 \in 1 .. m /\ (n > 0 => n \in 1 .. m - 1 /\ n \in 1 .. n)
      BY <1>1
    <2>2. B[1] = A[n + 1] /\ B[k] = A[m]
      BY <1>2, <2>1
    <2>3. At(A[n + 1]) <= cur
      <3>1. CASE n = 0
        <4>1. At(A[1]) <= old /\ At(A[1]) \in Nat
          BY <1>3, <1>4, <2>1, <3>1
        <4>2. QED
          BY <3>1, <4>1
      <3>2. CASE n > 0
        <4>1. After(A[n]) = At(A[n + 1]) /\ After(A[n]) <= cur
          BY <1>3, <2>1, <3>2
        <4>2. QED
          BY <4>1
      <3>3. QED
        BY <1>1, <3>1, <3>2
    <2>4. QED
      BY <1>3, <1>5, <2>1, <2>2, <2>3
  <1>10. Tiles(B, w, ended, cur, next)
    BY <1>2, <1>6, <1>7, <1>8, <1>9, Zenon DEF Tiles
  <1>11. QED
    BY <1>10 DEF B, m

\* the loop of ack_received() pops what is wholly acknowledged, and restarts the timer if it popped
LEMMA PopAcked ==
    ASSUME NEW s, NEW w, NEW old \in Nat, Numbered(s, w), Timed(s), old <= s.current_seqno,
           Tiles(s.outstanding_segments, w, s.stream.input_ended, old, s.next_seqno)
    PROVE  LET t == pop_acked(s)
           IN  /\ Numbered(t, w) /\ Tiled(t, w) /\ Timed(t)
               /\ t.is_timer_on = s.is_timer_on /\ t.segments_out = s.segments_out
               /\ t.next_seqno = s.next_seqno /\ t.current_seqno = s.current_seqno
               /\ t.window_size = s.window_size
  <1> DEFINE segs == s.outstanding_segments
             ended == s.stream.input_ended
             cur == s.current_seqno
             next == s.next_seqno
             stops(n) == /\ n \in 0 .. Len(segs)
                         /\ \A i \in 1 .. n : segment_end(s, segs[i]) <= cur
                         /\ n < Len(segs) => segment_end(s, segs[n + 1]) > cur
             n == CHOOSE n \in 0 .. Len(segs) :
                      /\ \A i \in 1 .. n : segment_end(s, segs[i]) <= cur
                      /\ n < Len(segs) => segment_end(s, segs[n + 1]) > cur
             rest == SubSeq(segs, n + 1, Len(segs))
             popped == [ s EXCEPT !.outstanding_segments = rest,
                                  !.retransmission_timeout = RT_TIMEOUT,
                                  !.timer_elapsed = 0,
                                  !.consecutive_retransmissions = 0 ]
  <1>1. /\ s \in SenderType /\ segs \in Seq(SegType) /\ cur \in Nat /\ next \in Nat /\ cur <= next
        /\ s.isn = ISN /\ w \in Seq(Byte) /\ Len(w) <= MaxWritten
    BY DEF Numbered, SenderType
  <1>2. next <= MaxWritten + 3
    BY NextBound, SenderSpecAssumption
  <1>3. Len(segs) \in Nat /\ \A i \in 1 .. Len(segs) : segs[i] \in SegType /\ SegOK(segs[i], w, ended)
    BY <1>1, LenProperties, ElementOfSeq DEF Tiles
  <1>4. ASSUME NEW i \in 1 .. Len(segs)
        PROVE  segment_end(s, segs[i]) = After(segs[i]) /\ At(segs[i]) \in Nat /\ After(segs[i]) \in Nat
    <2>1. unwrap(segs[i].seqno, ISN, next) = At(segs[i]) /\ At(segs[i]) \in Nat /\ After(segs[i]) \in Nat
      BY <1>1, <1>2, <1>3, StartOfSegment
    <2>2. QED
      BY <1>1, <2>1 DEF segment_end, After
  <1>5. stops(n)
    <2> DEFINE S == { i \in Nat : segment_end(s, segs[i]) <= cur }
    <2>1. PICK k \in 0 .. Len(segs) : (\A i \in 1 .. k : i \in S) /\ (k < Len(segs) => k + 1 \notin S)
      <3> HIDE DEF S
      <3>1. QED
        BY <1>3, LoopStops, Zenon
    <2>2. k < Len(segs) => segment_end(s, segs[k + 1]) > cur
      <3> SUFFICES ASSUME k < Len(segs) PROVE segment_end(s, segs[k + 1]) > cur
        OBVIOUS
      <3>1. k + 1 \in 1 .. Len(segs) /\ k + 1 \in Nat
        BY <1>3
      <3>2. segment_end(s, segs[k + 1]) \in Nat
        BY <1>4, <3>1
      <3>3. ~(segment_end(s, segs[k + 1]) <= cur)
        BY <2>1, <3>1
      <3>4. QED
        BY <1>1, <3>2, <3>3
    <2>3. stops(k)
      BY <2>1, <2>2
    <2>4. QED
      BY <2>3, Zenon
  <1> HIDE DEF n
  <1>6. n \in 0 .. Len(segs) /\ n \in Nat
    BY <1>3, <1>5
  <1>7. Tiles(rest, w, ended, cur, next)
    <2>1. \A i \in 1 .. n : After(segs[i]) <= cur
      <3>1. \A i \in 1 .. n : i \in 1 .. Len(segs)
        BY <1>3, <1>6
      <3>2. QED
        BY <1>4, <1>5, <3>1
    <2>2. n < Len(segs) => After(segs[n + 1]) > cur
      <3>1. n < Len(segs) => n + 1 \in 1 .. Len(segs)
        BY <1>3, <1>6
      <3>2. QED
        BY <1>4, <1>5, <3>1
    <2>3. \A i \in 1 .. Len(segs) : At(segs[i]) \in Nat /\ After(segs[i]) \in Nat
      BY <1>4
    <2> HIDE DEF segs, cur, next, ended
    <2>4. Tiles(segs, w, ended, old, next) /\ old <= cur
      BY DEF segs, cur, next, ended
    <2>5. QED
      BY <1>1, <1>6, <2>1, <2>2, <2>3, <2>4, DropTiles, Zenon
  <1>8. CASE n = 0
    <2>1. pop_acked(s) = s
      BY <1>8, Zenon DEF pop_acked, n
    <2>2. rest = segs
      <3>1. n + 1 = 1
        BY <1>8
      <3>2. SubSeq(segs, 1, Len(segs)) = segs
        BY <1>1
      <3>3. QED
        BY <3>1, <3>2
    <2>3. QED
      BY <1>7, <2>1, <2>2, Zenon DEF Tiled
  <1>9. CASE n # 0
    <2>1. pop_acked(s) = popped
      BY <1>9, Zenon DEF pop_acked, n
    <2>2. rest \in Seq(SegType)
      <3>1. \A i \in n + 1 .. Len(segs) : segs[i] \in SegType
        BY <1>3, <1>6
      <3>2. n + 1 \in Int /\ Len(segs) \in Int
        BY <1>3, <1>6
      <3>3. QED
        BY <3>1, <3>2, SubSeqProperties
    <2> HIDE DEF rest
    <2>3. /\ popped \in SenderType /\ popped.outstanding_segments = rest
          /\ popped.retransmission_timeout = RT_TIMEOUT /\ popped.timer_elapsed = 0
          /\ popped.consecutive_retransmissions = 0
          /\ popped.is_timer_on = s.is_timer_on /\ popped.segments_out = s.segments_out
          /\ popped.next_seqno = s.next_seqno /\ popped.current_seqno = s.current_seqno
          /\ popped.window_size = s.window_size /\ popped.stream = s.stream /\ popped.fin = s.fin
      BY <1>1, <2>2, SenderAssumption, Zenon DEF SenderType
    <2> HIDE DEF popped
    <2>4. Timed(popped)
      BY <2>3, Restarted
    <2>5. Tiled(popped, w)
      BY <1>7, <2>3 DEF Tiled
    <2>6. Numbered(popped, w)
      BY <2>3, Zenon DEF Numbered
    <2>7. QED
      BY <2>1, <2>3, <2>4, <2>5, <2>6
  <1>10. QED
    BY <1>8, <1>9

\* stopping the timer when nothing is outstanding keeps the sender sound
LEMMA StopSound ==
    ASSUME NEW s, NEW w, Sound(s, w)
    PROVE  /\ Sound(stop_timer(s), w) /\ SameButTimer(s, stop_timer(s))
           /\ stop_timer(s).is_timer_on => stop_timer(s).outstanding_segments # << >>
  <1> DEFINE t == stop_timer(s)
  <1>1. s \in SenderType
    BY DEF Sound, Numbered
  <1>2. /\ t \in SenderType /\ SameButTimer(s, t) /\ (t.is_timer_on => s.outstanding_segments # << >>)
        /\ s.outstanding_segments # << >> => t.is_timer_on = s.is_timer_on
        /\ Timed(s) => Timed(t)
    BY <1>1, StopTimer
  <1> HIDE DEF t
  <1>3. t.outstanding_segments = s.outstanding_segments /\ t.segments_out = s.segments_out
    BY <1>2 DEF SameButTimer
  <1>4. Numbered(t, w) /\ Tiled(t, w) /\ \A seg : Sendable(seg, s, w) => Sendable(seg, t, w)
    BY <1>2, TimerApart DEF Sound
  <1>5. Sound(t, w)
    BY <1>2, <1>3, <1>4 DEF Sound
  <1>6. QED
    BY <1>2, <1>3, <1>5 DEF t

\* the estimate of the window is a 16-bit number
LEMMA EstimateType ==
    ASSUME NEW window \in Int, NEW in_flight \in Int
    PROVE  estimated_window(window, in_flight) \in Nat
  <1>1. max(window, 1) - in_flight \in Int
    BY DEF max
  <1>2. U16 \in Nat /\ U16 > 1
    BY SenderAssumption
  <1>3. \A d \in Int : d % U16 \in Nat
    BY <1>2
  <1>4. QED
    BY <1>1, <1>3 DEF estimated_window

\* the sender after the first lines of ack_received()
Updated(s, a, window) ==
    LET current == max(s.current_seqno, a)
    IN  [ s EXCEPT !.current_seqno = current,
                   !.receiver_window_size = window,
                   !.window_size = estimated_window(window, s.next_seqno - current) ]

\* what an acknowledgment of nothing unsent changes first
LEMMA Acknowledged ==
    ASSUME NEW s, NEW w, Numbered(s, w), NEW a \in Nat, a >= 1, a <= s.next_seqno,
           NEW window \in Nat
    PROVE  LET current == max(s.current_seqno, a)
               u == Updated(s, a, window)
           IN  /\ Numbered(u, w)
               /\ u.current_seqno = current /\ s.current_seqno <= current /\ current <= s.next_seqno
               /\ u.window_size = estimated_window(window, s.next_seqno - current)
               /\ u.next_seqno = s.next_seqno /\ u.is_timer_on = s.is_timer_on /\ u.stream = s.stream
               /\ u.segments_out = s.segments_out /\ u.outstanding_segments = s.outstanding_segments
               /\ Timed(s) => Timed(u)
  <1> DEFINE current == max(s.current_seqno, a)
             size == estimated_window(window, s.next_seqno - current)
             u == [ s EXCEPT !.current_seqno = current,
                             !.receiver_window_size = window,
                             !.window_size = size ]
  <1>1. s \in SenderType /\ s.current_seqno \in Nat /\ s.next_seqno \in Nat /\ s.current_seqno <= s.next_seqno
    BY DEF Numbered, SenderType
  <1>2. current \in Nat /\ s.current_seqno <= current /\ current <= s.next_seqno
    BY <1>1 DEF max
  <1> HIDE DEF current
  <1>3. size \in Nat
    <2>1. window \in Int /\ s.next_seqno - current \in Int
      BY <1>1, <1>2
    <2>2. QED
      BY <2>1, EstimateType, Zenon
  <1> HIDE DEF size
  <1>4. /\ u \in SenderType /\ u.current_seqno = current /\ u.window_size = size
        /\ u.next_seqno = s.next_seqno /\ u.is_timer_on = s.is_timer_on /\ u.stream = s.stream
        /\ u.segments_out = s.segments_out /\ u.outstanding_segments = s.outstanding_segments
        /\ u.fin = s.fin /\ u.retransmission_timeout = s.retransmission_timeout
        /\ u.timer_elapsed = s.timer_elapsed
        /\ u.consecutive_retransmissions = s.consecutive_retransmissions
    BY <1>1, <1>2, <1>3, Zenon DEF SenderType
  <1> HIDE DEF u
  <1>5. s.next_seqno # 0 /\ u.current_seqno <= u.next_seqno
    BY <1>1, <1>2, <1>4
  <1>6. Numbered(u, w)
    BY <1>4, <1>5, Zenon DEF Numbered
  <1>7. Timed(s) => Timed(u)
    BY <1>4, Zenon DEF Timed
  <1>8. QED
    BY <1>2, <1>4, <1>6, <1>7, Zenon DEF u, size, current, Updated

\* ack_received() keeps the sender sound, and the window ends where the estimate says
LEMMA AckSound ==
    ASSUME NEW s, NEW w, Sound(s, w), s.segments_out = << >>,
           s.is_timer_on => s.outstanding_segments # << >>,
           NEW a \in Nat, a >= 1, a <= s.next_seqno + 1, NEW window \in Nat
    PROVE  LET t == ack_received(s, wrap(a, ISN), window)
               current == max(s.current_seqno, a)
           IN  /\ Sound(t, w)
               /\ t.is_timer_on => t.outstanding_segments # << >>
               /\ a > s.next_seqno => /\ t.next_seqno = s.next_seqno /\ t.window_size = s.window_size
                                      /\ t.current_seqno = s.current_seqno
               /\ a <= s.next_seqno =>
                      /\ t.current_seqno = current
                      /\ t.next_seqno + t.window_size
                             = s.next_seqno + estimated_window(window, s.next_seqno - current)
  <1> DEFINE t == ack_received(s, wrap(a, ISN), window)
             current == max(s.current_seqno, a)
             u == Updated(s, a, window)
             p == pop_acked(u)
             f == fill_window(p)
  <1>1. /\ Numbered(s, w) /\ Tiled(s, w) /\ Timed(s) /\ s.isn = ISN
        /\ s.current_seqno \in Nat /\ s.next_seqno \in Nat
    BY Zenon DEF Sound, Numbered, SenderType
  <1>2. unwrap(wrap(a, ISN), s.isn, s.next_seqno) = a
    <2>1. a <= MaxWritten + 3 /\ s.next_seqno <= MaxWritten + 3
      BY <1>1, NextBound, SenderSpecAssumption
    <2>2. QED
      BY <1>1, <2>1, UnwrapNear
  <1>3. t = IF a > s.next_seqno THEN stop_timer(s)
            ELSE IF ~s.is_timer_on THEN u ELSE stop_timer(f)
    BY <1>2, Zenon DEF ack_received, Updated
  <1>4. CASE a > s.next_seqno
    <2>1. t = stop_timer(s)
      BY <1>3, <1>4
    <2>2. ~(a <= s.next_seqno)
      BY <1>1, <1>4
    <2> HIDE DEF t
    <2>3. Sound(t, w) /\ SameButTimer(s, t) /\ (t.is_timer_on => t.outstanding_segments # << >>)
      BY <2>1, StopSound
    <2>4. QED
      BY <2>2, <2>3 DEF SameButTimer, t
  <1>5. CASE a <= s.next_seqno
    <2>1. /\ Numbered(u, w) /\ Timed(u)
          /\ u.current_seqno = current /\ s.current_seqno <= current /\ current <= s.next_seqno
          /\ u.window_size = estimated_window(window, s.next_seqno - current)
          /\ u.next_seqno = s.next_seqno /\ u.is_timer_on = s.is_timer_on /\ u.stream = s.stream
          /\ u.segments_out = s.segments_out /\ u.outstanding_segments = s.outstanding_segments
      <3>1. Numbered(s, w) /\ Timed(s) /\ s.current_seqno \in Nat /\ s.next_seqno \in Nat /\ a <= s.next_seqno
        BY <1>1, <1>5
      <3>2. QED
        BY <3>1, Acknowledged
    <2>2. ~(a > s.next_seqno)
      BY <1>1, <1>5
    <2>3. u.segments_out = << >> /\ Len(u.segments_out) = 0
      BY <2>1
    <2>4. Tiles(u.outstanding_segments, w, u.stream.input_ended, s.current_seqno, u.next_seqno)
      BY <1>1, <2>1 DEF Tiled
    <2> HIDE DEF u
    <2>5. CASE ~s.is_timer_on
      <3>1. t = u /\ s.outstanding_segments = << >>
        BY <1>3, <2>2, <2>5 DEF Sound
      <3>2. Len(s.outstanding_segments) = 0
        BY <3>1
      <3>3. s.current_seqno = s.next_seqno
        BY <2>1, <2>4, <3>2 DEF Tiles
      <3>4. u.current_seqno = s.current_seqno
        <4>1. current \in Nat
          BY <1>1 DEF max
        <4> HIDE DEF current
        <4>2. current = s.current_seqno
          BY <1>1, <2>1, <3>3, <4>1
        <4>3. QED
          BY <2>1, <4>2
      <3>5. Tiled(u, w)
        BY <2>4, <3>4 DEF Tiled
      <3>6. Sound(u, w)
        BY <2>1, <2>3, <3>1, <3>5 DEF Sound
      <3> HIDE DEF current, t
      <3>7. QED
        BY <2>1, <2>2, <2>5, <3>1, <3>6 DEF current, t
    <2>6. CASE s.is_timer_on
      <3>1. t = stop_timer(f)
        BY <1>3, <2>2, <2>6
      <3>2. /\ Numbered(p, w) /\ Tiled(p, w) /\ Timed(p)
            /\ p.is_timer_on = u.is_timer_on /\ p.segments_out = u.segments_out
            /\ p.next_seqno = u.next_seqno /\ p.current_seqno = u.current_seqno
            /\ p.window_size = u.window_size
        <4>1. s.current_seqno <= u.current_seqno
          BY <2>1
        <4>2. QED
          BY <1>1, <2>1, <2>4, <4>1, PopAcked, Zenon
      <3> HIDE DEF p, t, current
      <3>3. Sound(p, w) /\ p.segments_out = << >>
        BY <2>1, <2>3, <2>6, <3>2 DEF Sound
      <3>4. /\ Sound(f, w) /\ f.current_seqno = p.current_seqno
            /\ f.next_seqno + f.window_size = p.next_seqno + p.window_size
        BY <3>3, FillSound
      <3> HIDE DEF f
      <3>5. Sound(t, w) /\ SameButTimer(f, t) /\ (t.is_timer_on => t.outstanding_segments # << >>)
        BY <3>1, <3>4, StopSound
      <3>6. /\ t.current_seqno = current
            /\ t.next_seqno + t.window_size
                   = s.next_seqno + estimated_window(window, s.next_seqno - current)
        BY <2>1, <3>2, <3>4, <3>5, Zenon DEF SameButTimer
      <3>7. QED
        BY <2>2, <3>5, <3>6, Zenon DEF t, current
    <2>7. QED
      BY <2>5, <2>6, Zenon
  <1>6. a > s.next_seqno \/ a <= s.next_seqno
    BY <1>1
  <1>7. QED
    BY <1>4, <1>5, <1>6, Zenon

-----------------------------------------------------------------------------
\* the owner takes what is in segments_out()
LEMMA DrainSound ==
    ASSUME NEW t, NEW w, Sound(t, w)
    PROVE  LET u == [ t EXCEPT !.segments_out = << >> ]
           IN  /\ Sound(u, w) /\ u.segments_out = << >>
               /\ u.is_timer_on = t.is_timer_on /\ u.outstanding_segments = t.outstanding_segments
               /\ u.next_seqno = t.next_seqno /\ u.window_size = t.window_size
               /\ u.current_seqno = t.current_seqno
               /\ t.segments_out \in Seq(SegType)
               /\ \A i \in 1 .. Len(t.segments_out) : Sendable(t.segments_out[i], u, w)
  <1> DEFINE u == [ t EXCEPT !.segments_out = << >> ]
  <1>1. t \in SenderType /\ t.segments_out \in Seq(SegType)
    BY DEF Sound, Numbered, SenderType
  <1>2. << >> \in Seq(SegType) /\ Len(<< >>) = 0
    BY EmptySeq
  <1>3. /\ u \in SenderType /\ u.segments_out = << >>
        /\ u.is_timer_on = t.is_timer_on /\ u.outstanding_segments = t.outstanding_segments
        /\ u.next_seqno = t.next_seqno /\ u.window_size = t.window_size
        /\ u.current_seqno = t.current_seqno /\ u.stream = t.stream /\ u.fin = t.fin
        /\ u.retransmission_timeout = t.retransmission_timeout /\ u.timer_elapsed = t.timer_elapsed
        /\ u.consecutive_retransmissions = t.consecutive_retransmissions
    BY <1>1, <1>2, Zenon DEF SenderType
  <1> HIDE DEF u
  <1>4. /\ Numbered(u, w) /\ Tiled(u, w) /\ Timed(u)
        /\ \A seg : Sendable(seg, t, w) => Sendable(seg, u, w)
    BY <1>3, Zenon DEF Sound, Numbered, Tiled, Timed, Sendable
  <1>5. Sound(u, w)
    BY <1>2, <1>3, <1>4 DEF Sound
  <1>6. \A i \in 1 .. Len(t.segments_out) : Sendable(t.segments_out[i], u, w)
    BY <1>4 DEF Sound
  <1>7. QED
    BY <1>1, <1>3, <1>5, <1>6, Zenon DEF u

\* a sound sender to whose empty queue a sendable segment is added, with the timer right, is sound
LEMMA PushSound ==
    ASSUME NEW s, NEW w, Sound(s, w), s.segments_out = << >>, NEW seg \in SegType, Sendable(seg, s, w),
           NEW t \in SenderType, t.segments_out = << seg >>, Timed(t),
           t.is_timer_on = s.is_timer_on, t.outstanding_segments = s.outstanding_segments,
           t.next_seqno = s.next_seqno, t.window_size = s.window_size,
           t.current_seqno = s.current_seqno, t.stream = s.stream, t.fin = s.fin
    PROVE  Sound(t, w)
  <1>1. /\ Numbered(t, w) /\ Tiled(t, w)
        /\ \A x : Sendable(x, s, w) => Sendable(x, t, w)
    BY Zenon DEF Sound, Numbered, Tiled, Sendable
  <1>2. Len(t.segments_out) = 1 /\ t.segments_out[1] = seg
    OBVIOUS
  <1>3. \A i \in 1 .. Len(t.segments_out) : Sendable(t.segments_out[i], t, w)
    <2>1. \A i \in 1 .. 1 : i = 1
      OBVIOUS
    <2>2. QED
      BY <1>1, <1>2, <2>1
  <1>4. QED
    BY <1>1, <1>3 DEF Sound

\* send_empty_segment() puts an empty segment at the end of what was sent
LEMMA EmptySound ==
    ASSUME NEW s, NEW w, Sound(s, w), s.segments_out = << >>
    PROVE  LET t == send_empty_segment(s)
           IN  /\ Sound(t, w)
               /\ t.is_timer_on = s.is_timer_on /\ t.outstanding_segments = s.outstanding_segments
               /\ t.next_seqno = s.next_seqno /\ t.window_size = s.window_size
               /\ t.current_seqno = s.current_seqno
  <1> DEFINE seg == NewTCPSegment(wrap(s.next_seqno, ISN))
             t == [ s EXCEPT !.segments_out = << seg >> ]
  <1>1. s \in SenderType /\ s.isn = ISN /\ s.next_seqno \in Nat /\ Timed(s)
    BY DEF Sound, Numbered, SenderType
  <1>2. seg \in SegType /\ seg.seqno = wrap(s.next_seqno, ISN)
    BY <1>1, WrapType, EmptySeq DEF NewTCPSegment, SegType
  <1>3. length_in_sequence_space(seg) = 0
    BY DEF length_in_sequence_space, NewTCPSegment, int
  <1>4. send_empty_segment(s) = t
    <2>1. Append(<< >>, seg) = << seg >>
      BY <1>2
    <2>2. QED
      BY <1>1, <2>1, Zenon DEF send_empty_segment
  <1> HIDE DEF seg
  <1>5. << seg >> \in Seq(SegType)
    BY <1>2
  <1>6. /\ t \in SenderType /\ t.segments_out = << seg >>
        /\ t.is_timer_on = s.is_timer_on /\ t.outstanding_segments = s.outstanding_segments
        /\ t.next_seqno = s.next_seqno /\ t.window_size = s.window_size
        /\ t.current_seqno = s.current_seqno /\ t.stream = s.stream /\ t.fin = s.fin
        /\ t.retransmission_timeout = s.retransmission_timeout /\ t.timer_elapsed = s.timer_elapsed
        /\ t.consecutive_retransmissions = s.consecutive_retransmissions
    BY <1>1, <1>5, Zenon DEF SenderType
  <1> HIDE DEF t
  <1>7. Timed(t) /\ Sendable(seg, s, w)
    BY <1>1, <1>2, <1>3, <1>6, Zenon DEF Timed, Sendable
  <1>8. Sound(t, w)
    BY <1>2, <1>6, <1>7, PushSound
  <1>9. QED
    BY <1>4, <1>6, <1>8, Zenon

\* tick() counts, or sends the oldest outstanding segment again
LEMMA TickSound ==
    ASSUME NEW s, NEW w, Sound(s, w), s.segments_out = << >>,
           s.is_timer_on => s.outstanding_segments # << >>, NEW ms \in Nat
    PROVE  LET t == sender_tick(s, ms)
           IN  /\ Sound(t, w)
               /\ t.is_timer_on = s.is_timer_on /\ t.outstanding_segments = s.outstanding_segments
               /\ t.next_seqno = s.next_seqno /\ t.window_size = s.window_size
               /\ t.current_seqno = s.current_seqno
  <1> DEFINE elapsed == s.timer_elapsed + ms
             n == s.consecutive_retransmissions
             rto == s.retransmission_timeout
             seg == Head(s.outstanding_segments)
             counted == [ s EXCEPT !.timer_elapsed = elapsed ]
             again == [ s EXCEPT !.segments_out = Append(@, seg), !.timer_elapsed = 0 ]
             doubled == [ again EXCEPT !.consecutive_retransmissions = @ + 1,
                                       !.retransmission_timeout = 2 * @ ]
  <1>1. /\ s \in SenderType /\ Timed(s) /\ elapsed \in Nat /\ n \in Nat /\ rto \in Nat
        /\ s.timer_elapsed \in Nat /\ s.outstanding_segments \in Seq(SegType)
    <2>1. s \in SenderType /\ Timed(s)
      BY Zenon DEF Sound, Numbered
    <2>2. n \in Nat /\ rto \in Nat /\ s.timer_elapsed \in Nat /\ s.outstanding_segments \in Seq(SegType)
      BY <2>1, Zenon DEF SenderType
    <2>3. elapsed \in Nat
      BY <2>2
    <2>4. QED
      BY <2>1, <2>2, <2>3
  <1>2. sender_tick(s, ms) = IF ~s.is_timer_on THEN s
                             ELSE IF elapsed < rto THEN counted
                             ELSE IF s.receiver_window_size = 0 THEN again ELSE doubled
    BY Zenon DEF sender_tick
  <1>3. CASE ~s.is_timer_on
    BY <1>2, <1>3
  <1>4. CASE s.is_timer_on /\ elapsed < rto
    <2>1. sender_tick(s, ms) = counted
      BY <1>2, <1>4
    <2> HIDE DEF elapsed
    <2>2. /\ counted \in SenderType /\ SameButTimer(s, counted)
          /\ counted.is_timer_on = s.is_timer_on /\ counted.timer_elapsed = elapsed
          /\ counted.retransmission_timeout = rto /\ counted.consecutive_retransmissions = n
      BY <1>1 DEF SenderType, SameButTimer
    <2> HIDE DEF counted
    <2>3. Timed(counted)
      BY <1>1, <1>4, <2>2, Zenon DEF Timed
    <2>4. Numbered(counted, w) /\ Tiled(counted, w)
      BY <2>2, TimerApart DEF Sound
    <2>5. /\ counted.outstanding_segments = s.outstanding_segments /\ counted.segments_out = << >>
          /\ counted.next_seqno = s.next_seqno /\ counted.window_size = s.window_size
          /\ counted.current_seqno = s.current_seqno /\ Len(counted.segments_out) = 0
      BY <2>2 DEF SameButTimer
    <2>6. Sound(counted, w)
      BY <2>2, <2>3, <2>4, <2>5 DEF Sound
    <2>7. QED
      BY <2>1, <2>2, <2>5, <2>6
  <1>5. CASE s.is_timer_on /\ ~(elapsed < rto)
    <2>1. /\ seg \in SegType /\ Sendable(seg, s, w) /\ << seg >> \in Seq(SegType)
          /\ again = [ s EXCEPT !.segments_out = << seg >>, !.timer_elapsed = 0 ]
      <3>1. Len(s.outstanding_segments) \in Nat /\ Len(s.outstanding_segments) > 0
        BY <1>1, <1>5, LenProperties, EmptySeq
      <3>2. seg = s.outstanding_segments[1] /\ 1 \in 1 .. Len(s.outstanding_segments)
        BY <1>1, <3>1
      <3>3. seg \in SegType
        BY <1>1, <3>2, ElementOfSeq
      <3>4. SegOK(seg, w, s.stream.input_ended)
        BY <3>2 DEF Sound, Tiled, Tiles
      <3> HIDE DEF seg
      <3>5. Append(<< >>, seg) = << seg >> /\ << seg >> \in Seq(SegType)
        BY <3>3
      <3>6. again = [ s EXCEPT !.segments_out = << seg >>, !.timer_elapsed = 0 ]
        BY <1>1, <3>5, Zenon
      <3>7. QED
        BY <3>3, <3>4, <3>5, <3>6 DEF Sendable
    <2> HIDE DEF seg
    <2> DEFINE sole == [ s EXCEPT !.segments_out = << seg >>, !.timer_elapsed = 0 ]
    <2>2. /\ sole \in SenderType /\ sole.segments_out = << seg >> /\ sole.timer_elapsed = 0
          /\ sole.is_timer_on = s.is_timer_on /\ sole.outstanding_segments = s.outstanding_segments
          /\ sole.next_seqno = s.next_seqno /\ sole.window_size = s.window_size
          /\ sole.current_seqno = s.current_seqno /\ sole.stream = s.stream /\ sole.fin = s.fin
          /\ sole.retransmission_timeout = rto /\ sole.consecutive_retransmissions = n
      BY <1>1, <2>1, Zenon DEF SenderType
    <2>3. again = sole
      BY <2>1
    <2> HIDE DEF again, sole
    <2>4. rto = RT_TIMEOUT * Doubled[n] /\ s.timer_elapsed < rto
      BY <1>1 DEF Timed
    <2>5. 0 < rto
      BY <1>1, <2>4
    <2>6. CASE s.receiver_window_size = 0
      <3>1. sender_tick(s, ms) = sole
        BY <1>2, <1>5, <2>3, <2>6
      <3>2. Timed(sole)
        BY <2>2, <2>4, <2>5, Zenon DEF Timed
      <3>3. Sound(sole, w)
        BY <2>1, <2>2, <3>2, PushSound
      <3>4. QED
        BY <2>2, <3>1, <3>3
    <2>7. CASE s.receiver_window_size # 0
      <3> DEFINE t == [ sole EXCEPT !.consecutive_retransmissions = @ + 1,
                                    !.retransmission_timeout = 2 * @ ]
      <3>1. sender_tick(s, ms) = t
        BY <1>2, <1>5, <2>3, <2>7, Zenon
      <3>2. n + 1 \in Nat /\ 2 * rto \in Nat
        BY <1>1
      <3>3. /\ t \in SenderType /\ t.segments_out = << seg >> /\ t.timer_elapsed = 0
            /\ t.is_timer_on = s.is_timer_on /\ t.outstanding_segments = s.outstanding_segments
            /\ t.next_seqno = s.next_seqno /\ t.window_size = s.window_size
            /\ t.current_seqno = s.current_seqno /\ t.stream = s.stream /\ t.fin = s.fin
            /\ t.retransmission_timeout = 2 * rto /\ t.consecutive_retransmissions = n + 1
        BY <2>2, <3>2, Zenon DEF SenderType
      <3> HIDE DEF t
      <3>4. 2 * rto = RT_TIMEOUT * Doubled[n + 1] /\ 0 < 2 * rto
        <4>1. \A r, d \in Nat : 2 * (r * d) = r * (2 * d)
          OBVIOUS
        <4>2. Doubled[n] \in Nat /\ Doubled[n + 1] = 2 * Doubled[n] /\ RT_TIMEOUT \in Nat
          BY <1>1, DoubledFacts, SenderAssumption, Zenon
        <4>3. 2 * (RT_TIMEOUT * Doubled[n]) = RT_TIMEOUT * (2 * Doubled[n])
          BY <4>1, <4>2, Zenon
        <4> HIDE DEF rto
        <4>4. 0 < 2 * rto
          BY <1>1, <2>5
        <4>5. QED
          BY <2>4, <4>2, <4>3, <4>4, Zenon
      <3>5. Timed(t)
        BY <3>3, <3>4, Zenon DEF Timed
      <3>6. Sound(t, w)
        BY <2>1, <3>3, <3>5, PushSound
      <3>7. QED
        BY <3>1, <3>3, <3>6
    <2>8. QED
      BY <2>6, <2>7
  <1>6. QED
    BY <1>3, <1>4, <1>5

-----------------------------------------------------------------------------
\* a segment of a stream is one of the stream when it has grown, or ended
LEMMA SegmentStays ==
    ASSUME NEW seg \in SegType, NEW w \in Seq(Byte), NEW x \in Seq(Byte), NEW ended \in BOOLEAN,
           SegOK(seg, w, ended)
    PROVE  /\ ~ended => SegOK(seg, w \o x, ended)
           /\ SegOK(seg, w, TRUE)
  <1> DEFINE at == At(seg)
             first == at + int(seg.syn)
             size == Len(seg.payload)
             len == Len(w)
  <1>1. /\ seg.seqno = wrap(at, ISN) /\ at \in Nat /\ length_in_sequence_space(seg) > 0
        /\ seg.syn <=> at = 0
        /\ first + size <= len + 1
        /\ \A j \in 1 .. size : seg.payload[j] = w[first + j - 1]
        /\ seg.fin => ended /\ first + size = len + 1
    BY DEF SegOK
  <1>2. SegOK(seg, w, TRUE)
    BY <1>1, Zenon DEF SegOK
  <1>3. ASSUME ~ended PROVE SegOK(seg, w \o x, ended)
    <2>1. /\ len \in Nat /\ size \in Nat /\ Len(x) \in Nat /\ Len(w \o x) = len + Len(x)
          /\ \A i \in 1 .. len : (w \o x)[i] = w[i]
      BY LenProperties, ConcatProperties DEF SegType
    <2>2. first \in Nat /\ first >= 1
      BY <1>1 DEF int
    <2>3. ~seg.fin
      BY <1>1, <1>3
    <2> HIDE DEF at, first, size, len
    <2>4. first + size <= Len(w \o x) + 1
      <3>1. \A a, b, c, d \in Nat : a + b <= c + 1 => a + b <= c + d + 1
        OBVIOUS
      <3>2. QED
        BY <1>1, <2>1, <2>2, <3>1
    <2>5. ASSUME NEW j \in 1 .. size PROVE seg.payload[j] = (w \o x)[first + j - 1]
      <3>1. first + j - 1 \in 1 .. len
        BY <1>1, <2>1, <2>2
      <3>2. QED
        BY <1>1, <2>1, <3>1
    <2>6. QED
      BY <1>1, <2>3, <2>4, <2>5, Zenon DEF SegOK, at, first, size
  <1>4. QED
    BY <1>2, <1>3, Zenon

\* end_input() keeps the sender sound
LEMMA EndSound ==
    ASSUME NEW s, NEW w, Sound(s, w), s.segments_out = << >>
    PROVE  LET t == [ s EXCEPT !.stream = end_input(@) ]
           IN  /\ Sound(t, w) /\ t.segments_out = << >>
               /\ t.is_timer_on = s.is_timer_on /\ t.outstanding_segments = s.outstanding_segments
               /\ t.next_seqno = s.next_seqno /\ t.window_size = s.window_size
               /\ t.current_seqno = s.current_seqno
  <1> DEFINE stream == end_input(s.stream)
             t == [ s EXCEPT !.stream = stream ]
             segs == s.outstanding_segments
             ended == s.stream.input_ended
  <1>1. /\ s \in SenderType /\ s.stream \in ByteStreamType(Byte) /\ segs \in Seq(SegType)
        /\ w \in Seq(Byte) /\ ended \in BOOLEAN
    BY DEF Sound, Numbered, SenderType, ByteStreamType
  <1>2. /\ stream \in ByteStreamType(Byte) /\ stream.buffer = s.stream.buffer
        /\ stream.bytes_read = s.stream.bytes_read /\ stream.capacity = s.stream.capacity
        /\ stream.input_ended = TRUE
    BY <1>1, EndInputFields, Zenon
  <1> HIDE DEF stream
  <1>3. /\ t \in SenderType /\ t.segments_out = << >> /\ t.stream = stream /\ t.fin = s.fin
        /\ t.is_timer_on = s.is_timer_on /\ t.outstanding_segments = segs
        /\ t.next_seqno = s.next_seqno /\ t.window_size = s.window_size
        /\ t.current_seqno = s.current_seqno
        /\ t.retransmission_timeout = s.retransmission_timeout /\ t.timer_elapsed = s.timer_elapsed
        /\ t.consecutive_retransmissions = s.consecutive_retransmissions
    BY <1>1, <1>2 DEF SenderType
  <1>4. [ s EXCEPT !.stream = end_input(@) ] = t
    BY <1>1, Zenon DEF stream
  <1> HIDE DEF t
  <1>5. Numbered(t, w)
    BY <1>2, <1>3, Zenon DEF Sound, Numbered
  <1>6. \A i \in 1 .. Len(segs) : SegOK(segs[i], w, TRUE)
    <2>1. \A i \in 1 .. Len(segs) : segs[i] \in SegType /\ SegOK(segs[i], w, ended)
      BY <1>1, ElementOfSeq DEF Sound, Tiled, Tiles
    <2>2. QED
      BY <1>1, <2>1, SegmentStays, Zenon
  <1>7. Tiled(t, w)
    BY <1>2, <1>3, <1>6, Zenon DEF Sound, Tiled, Tiles
  <1>8. Timed(t) /\ Len(t.segments_out) = 0
    BY <1>3 DEF Sound, Timed
  <1>9. Sound(t, w)
    BY <1>3, <1>5, <1>7, <1>8 DEF Sound
  <1>10. QED
    BY <1>3, <1>4, <1>9

\* buffer b holds what stream w has after its first r bytes
Buffers(b, w, r) == r + Len(b) = Len(w) /\ \A j \in 1 .. Len(b) : b[j] = w[r + j]

\* what is added to the buffer of a stream is added to the stream
LEMMA GrownBuffer ==
    ASSUME NEW w \in Seq(Byte), NEW b \in Seq(Byte), NEW x \in Seq(Byte), NEW r \in Nat,
           Buffers(b, w, r)
    PROVE  Buffers(b \o x, w \o x, r)
  <1> DEFINE m == Len(b)
             l == Len(w)
             k == Len(x)
  <1>1. m \in Nat /\ l \in Nat /\ k \in Nat /\ r + m = l
    BY LenProperties DEF Buffers
  <1>2. /\ w \o x \in Seq(Byte) /\ Len(w \o x) = l + k /\ Len(b \o x) = m + k
        /\ \A i \in 1 .. l + k : (w \o x)[i] = IF i <= l THEN w[i] ELSE x[i - l]
        /\ \A i \in 1 .. m + k : (b \o x)[i] = IF i <= m THEN b[i] ELSE x[i - m]
    BY ConcatProperties
  <1>3. \A j \in 1 .. m : b[j] = w[r + j]
    BY Zenon DEF Buffers
  <1> HIDE DEF m, l, k
  <1>4. r + (m + k) = l + k
    BY <1>1
  <1>5. ASSUME NEW j \in 1 .. m + k PROVE (b \o x)[j] = (w \o x)[r + j]
    <2>1. r + j \in 1 .. l + k
      BY <1>1
    <2>2. (j <= m <=> r + j <= l) /\ (r + j) - l = j - m /\ (j <= m => j \in 1 .. m)
      BY <1>1
    <2>3. j <= m => b[j] = w[r + j]
      BY <1>3, <2>2
    <2>4. /\ (w \o x)[r + j] = IF r + j <= l THEN w[r + j] ELSE x[(r + j) - l]
          /\ (b \o x)[j] = IF j <= m THEN b[j] ELSE x[j - m]
      BY <1>2, <2>1
    <2>5. CASE j <= m
      <3>1. (w \o x)[r + j] = w[r + j] /\ (b \o x)[j] = b[j]
        BY <2>2, <2>4, <2>5
      <3>2. QED
        BY <2>3, <2>5, <3>1
    <2>6. CASE ~(j <= m)
      <3>1. (w \o x)[r + j] = x[(r + j) - l] /\ (b \o x)[j] = x[j - m]
        BY <2>2, <2>4, <2>6
      <3>2. QED
        BY <2>2, <3>1
    <2>7. QED
      BY <2>5, <2>6, Zenon
  <1>6. QED
    BY <1>2, <1>4, <1>5, Zenon DEF m, l, k, Buffers

\* write() keeps the sender sound, of the longer stream
LEMMA WriteSound ==
    ASSUME NEW s, NEW w, Sound(s, w), s.segments_out = << >>, ~s.stream.input_ended,
           NEW data \in Seq(Byte), Len(w) + Len(data) <= MaxWritten
    PROVE  LET t == [ s EXCEPT !.stream = write(@, data) ]
           IN  /\ Sound(t, w \o SubSeq(data, 1, accepted_size(s.stream, data))) /\ t.segments_out = << >>
               /\ t.is_timer_on = s.is_timer_on /\ t.outstanding_segments = s.outstanding_segments
               /\ t.next_seqno = s.next_seqno /\ t.window_size = s.window_size
               /\ t.current_seqno = s.current_seqno
  <1> DEFINE old == s.stream
             size == accepted_size(old, data)
             x == SubSeq(data, 1, size)
             all == w \o x
             stream == write(old, data)
             t == [ s EXCEPT !.stream = stream ]
             segs == s.outstanding_segments
             buffer == old.buffer
             read == old.bytes_read
  <1>1. /\ s \in SenderType /\ old \in ByteStreamType(Byte) /\ segs \in Seq(SegType)
        /\ w \in Seq(Byte) /\ buffer \in Seq(Byte) /\ read \in Nat
        /\ old.capacity = Capacity /\ Len(buffer) <= Capacity /\ read + Len(buffer) = Len(w)
        /\ \A j \in 1 .. Len(buffer) : buffer[j] = w[read + j]
        /\ ~s.fin
    BY DEF Sound, Numbered, SenderType, ByteStreamType
  <1>2. Len(w) \in Nat /\ Len(buffer) \in Nat /\ Len(data) \in Nat /\ Capacity \in Nat
    BY <1>1, LenProperties, SenderSpecAssumption
  <1>3. size \in 0 .. Len(data) /\ size \in Nat /\ Len(buffer) + size <= Capacity
    <2>1. size = min(Len(data), Capacity - Len(buffer))
      BY <1>1 DEF accepted_size, remaining_capacity, buffer_size
    <2> HIDE DEF size, buffer
    <2>2. QED
      BY <1>1, <1>2, <2>1, MinRoom
  <1>4. x \in Seq(Byte) /\ Len(x) = size
    BY <1>2, <1>3, CutJoin
  <1>5. /\ stream \in ByteStreamType(Byte) /\ stream.buffer = buffer \o x
        /\ stream.bytes_read = read /\ stream.capacity = Capacity /\ stream.input_ended = old.input_ended
    BY <1>1, <1>3, WriteFields, Zenon
  <1> HIDE DEF stream, x, size
  <1>6. /\ t \in SenderType /\ t.segments_out = << >> /\ t.stream = stream /\ t.fin = s.fin
        /\ t.is_timer_on = s.is_timer_on /\ t.outstanding_segments = segs
        /\ t.next_seqno = s.next_seqno /\ t.window_size = s.window_size
        /\ t.current_seqno = s.current_seqno
        /\ t.retransmission_timeout = s.retransmission_timeout /\ t.timer_elapsed = s.timer_elapsed
        /\ t.consecutive_retransmissions = s.consecutive_retransmissions
    BY <1>1, <1>5, Zenon DEF SenderType
  <1>7. [ s EXCEPT !.stream = write(@, data) ] = t
    BY <1>1, Zenon DEF stream
  <1> HIDE DEF t
  <1>8. /\ all \in Seq(Byte) /\ Len(all) = Len(w) + Len(x) /\ Len(buffer \o x) = Len(buffer) + Len(x)
        /\ read + Len(buffer \o x) = Len(all)
        /\ \A j \in 1 .. Len(buffer \o x) : (buffer \o x)[j] = all[read + j]
    <2> HIDE DEF buffer, read
    <2>1. Buffers(buffer, w, read)
      BY <1>1 DEF Buffers
    <2>2. Buffers(buffer \o x, w \o x, read)
      BY <1>1, <1>4, <2>1, GrownBuffer, Zenon
    <2>3. w \o x \in Seq(Byte) /\ Len(w \o x) = Len(w) + Len(x)
      BY <1>1, <1>4, ConcatProperties, Zenon
    <2>4. Len(buffer \o x) = Len(buffer) + Len(x)
      BY <1>1, <1>4, ConcatProperties, Zenon
    <2>5. QED
      BY <2>2, <2>3, <2>4, Zenon DEF Buffers
  <1>9. Len(buffer \o x) <= Capacity /\ Len(all) <= MaxWritten
    <2>1. Len(all) = Len(w) + size
      BY <1>4, <1>8
    <2>2. Len(buffer \o x) <= Capacity
      BY <1>3, <1>4, <1>8
    <2>3. Len(all) <= MaxWritten
      <3>1. \A a, b, c, m \in Nat : b <= c /\ a + c <= m => a + b <= m
        OBVIOUS
      <3>2. size <= Len(data) /\ MaxWritten \in Nat
        BY <1>3, SenderSpecAssumption
      <3>3. QED
        BY <1>2, <1>3, <2>1, <3>1, <3>2
    <2>4. QED
      BY <2>2, <2>3
  <1> HIDE DEF all
  <1>11. Numbered(t, all)
    <2>1. /\ s.next_seqno = 0 => read = 0 /\ s.window_size = 1
          /\ s.next_seqno > 0 => s.next_seqno = 1 + read + int(s.fin)
          /\ s.current_seqno <= s.next_seqno
      BY DEF Sound, Numbered
    <2> HIDE DEF buffer, read, old
    <2>2. QED
      BY <1>1, <1>5, <1>6, <1>8, <1>9, <2>1, Zenon DEF Numbered
  <1>12. \A i \in 1 .. Len(segs) : SegOK(segs[i], all, FALSE)
    <2>1. \A i \in 1 .. Len(segs) : segs[i] \in SegType /\ SegOK(segs[i], w, FALSE)
      <3>1. s.stream.input_ended = FALSE
        BY <1>1 DEF ByteStreamType
      <3>2. QED
        BY <1>1, <3>1, ElementOfSeq, Zenon DEF Sound, Tiled, Tiles
    <2>2. QED
      BY <1>1, <1>4, <2>1, SegmentStays, Zenon DEF all
  <1>13. Tiled(t, all)
    <2>1. t.stream.input_ended = FALSE
      BY <1>1, <1>5, <1>6 DEF ByteStreamType
    <2>2. QED
      BY <1>6, <1>12, <2>1, Zenon DEF Sound, Tiled, Tiles
  <1>14. Timed(t) /\ Len(t.segments_out) = 0
    BY <1>6 DEF Sound, Timed
  <1>15. Sound(t, all)
    BY <1>6, <1>11, <1>13, <1>14 DEF Sound
  <1>16. QED
    BY <1>6, <1>7, <1>15 DEF all, x, size

-----------------------------------------------------------------------------
\* a call that leaves a sound sender t, and nothing running for nothing, re-establishes the invariant
LEMMA DrainIInv ==
    ASSUME NEW t, Drain(t), Sound(t, written'),
           t.is_timer_on => t.outstanding_segments # << >>,
           edge' \in Nat, in_order' \in BOOLEAN,
           in_order' => t.next_seqno + t.window_size <= max(edge', t.current_seqno + 1)
    PROVE  IInv'
  <1> DEFINE u == [ t EXCEPT !.segments_out = << >> ]
             w == written'
  <1>1. sender' = u /\ sent' = t.segments_out
    BY DEF Drain
  <1> HIDE DEF w
  <1>2. Sound(t, w)
    BY DEF w
  <1>3. /\ Sound(u, w) /\ u.segments_out = << >>
        /\ u.is_timer_on = t.is_timer_on /\ u.outstanding_segments = t.outstanding_segments
        /\ u.next_seqno = t.next_seqno /\ u.window_size = t.window_size
        /\ u.current_seqno = t.current_seqno
        /\ t.segments_out \in Seq(SegType)
        /\ \A i \in 1 .. Len(t.segments_out) : Sendable(t.segments_out[i], u, w)
    BY <1>2, DrainSound, Zenon
  <1> HIDE DEF u
  <1>4. Sound(sender, written)' /\ \A i \in 1 .. Len(sent') : Sendable(sent[i], sender, written)'
    BY <1>1, <1>3, Zenon DEF w, Sound, Numbered, Tiled, Timed, Sendable
  <1>5. QED
    BY <1>1, <1>3, <1>4 DEF IInv

LEMMA InitIInv == Init => IInv
  <1> SUFFICES ASSUME Init PROVE IInv
    OBVIOUS
  <1> DEFINE s == NewTCPSender(Capacity, ISN)
  <1>1. sender = s /\ written = << >> /\ sent = << >> /\ edge = 1 /\ in_order = TRUE
    BY DEF Init
  <1>2. << >> \in Seq(Byte) /\ << >> \in Seq(SegType) /\ Len(<< >>) = 0
    BY EmptySeq
  <1>3. /\ Capacity \in Nat /\ MaxWritten \in Nat /\ RT_TIMEOUT \in Nat
    BY SenderSpecAssumption, SenderAssumption
  <1>4. NewByteStream(Capacity) \in ByteStreamType(Byte)
    BY <1>2, <1>3 DEF NewByteStream, ByteStreamType
  <1>5. s \in SenderType
    BY <1>2, <1>3, <1>4 DEF NewTCPSender, SenderType
  <1>6. /\ s.segments_out = << >> /\ s.outstanding_segments = << >> /\ s.is_timer_on = FALSE
        /\ s.retransmission_timeout = RT_TIMEOUT /\ s.timer_elapsed = 0
        /\ s.consecutive_retransmissions = 0 /\ s.fin = FALSE
        /\ s.current_seqno = 0 /\ s.next_seqno = 0 /\ s.window_size = 1
        /\ s.stream.capacity = Capacity /\ s.stream.buffer = << >> /\ s.stream.bytes_read = 0
    BY DEF NewTCPSender, NewByteStream
  <1> HIDE DEF s
  <1>7. Numbered(s, << >>)
    BY <1>2, <1>3, <1>5, <1>6 DEF Numbered
  <1>8. Tiled(s, << >>)
    BY <1>2, <1>6 DEF Tiled, Tiles
  <1>9. Timed(s)
    BY <1>6, Restarted
  <1>10. Sound(s, << >>)
    BY <1>2, <1>6, <1>7, <1>8, <1>9 DEF Sound
  <1>11. s.next_seqno + s.window_size <= max(edge, s.current_seqno + 1)
    BY <1>1, <1>6 DEF max
  <1>12. QED
    BY <1>1, <1>2, <1>6, <1>10, <1>11 DEF IInv

\* filling the window of a sound sender that stands where the old one did re-establishes the invariant
LEMMA FillIInv ==
    ASSUME IInv, NEW s, Sound(s, written'), s.segments_out = << >>, Drain(fill_window(s)),
           s.is_timer_on = sender.is_timer_on,
           s.outstanding_segments = sender.outstanding_segments,
           s.next_seqno = sender.next_seqno, s.window_size = sender.window_size,
           s.current_seqno = sender.current_seqno, UNCHANGED <<edge, in_order>>
    PROVE  IInv'
  <1> DEFINE t == fill_window(s)
             w == written'
  <1> HIDE DEF w
  <1>1. Sound(s, w)
    BY DEF w
  <1>2. /\ Sound(t, w) /\ (t = s \/ t.outstanding_segments # << >>)
        /\ t.next_seqno + t.window_size = s.next_seqno + s.window_size
        /\ t.current_seqno = s.current_seqno
    BY <1>1, FillSound
  <1>3. Drain(t)
    OBVIOUS
  <1> HIDE DEF t
  <1>4. t.is_timer_on => t.outstanding_segments # << >>
    BY <1>2 DEF IInv
  <1>5. edge' \in Nat /\ in_order' \in BOOLEAN /\ edge' = edge /\ in_order' = in_order
    BY DEF IInv
  <1>6. in_order' => t.next_seqno + t.window_size <= max(edge', t.current_seqno + 1)
    BY <1>2, <1>5 DEF IInv
  <1>7. Sound(t, written')
    BY <1>2 DEF w
  <1>8. QED
    BY <1>3, <1>4, <1>5, <1>6, <1>7, DrainIInv

\* with acknowledgments in order, the estimate is exact: the window ends where the peer said
LEMMA WindowExact ==
    ASSUME NEW next \in Nat, NEW current \in Nat, NEW size \in Nat, NEW old \in Nat,
           NEW a \in Nat, NEW window \in Nat, window < U16, a <= next, a >= current,
           a + window >= old, next + size <= max(old, current + 1)
    PROVE  /\ max(current, a) = a
           /\ next + estimated_window(window, next - a) <= max(a + window, a + 1)
  <1>1. U16 \in Nat /\ U16 > 1
    BY SenderAssumption
  <1>2. max(current, a) = a
    BY DEF max
  <1> DEFINE offered == max(window, 1)
             d == offered - (next - a)
  <1>3. offered \in Nat /\ offered < U16 /\ max(a + window, a + 1) = a + offered
    BY <1>1 DEF max
  <1>4. next <= a + offered
    BY DEF max
  <1> HIDE DEF offered
  <1>5. d \in Nat /\ d < U16 /\ next + d = a + offered
    BY <1>1, <1>3, <1>4
  <1>6. estimated_window(window, next - a) = d % U16
    BY DEF estimated_window, offered
  <1> HIDE DEF d
  <1>7. d % U16 = d
    BY <1>1, <1>5
  <1>8. QED
    BY <1>2, <1>3, <1>5, <1>6, <1>7

LEMMA AckIInv ==
    ASSUME IInv, NEW a \in 1 .. sender.next_seqno + 1, NEW window \in Windows, Ack(a, window)
    PROVE  IInv'
  <1> DEFINE s == sender
             t == ack_received(s, wrap(a, ISN), window)
             current == max(s.current_seqno, a)
  <1>1. /\ Sound(s, written) /\ s.segments_out = << >>
        /\ s.is_timer_on => s.outstanding_segments # << >>
        /\ edge \in Nat /\ in_order \in BOOLEAN
        /\ in_order => s.next_seqno + s.window_size <= max(edge, s.current_seqno + 1)
    BY DEF IInv
  <1>2. s.next_seqno \in Nat /\ s.current_seqno \in Nat /\ s.window_size \in Nat
    BY <1>1 DEF Sound, Numbered, SenderType
  <1>3. a \in Nat /\ a >= 1 /\ a <= s.next_seqno + 1 /\ window \in Nat /\ window < U16
    BY <1>2, SenderSpecAssumption, SenderAssumption
  <1>4. /\ edge' = IF a > s.next_seqno THEN edge ELSE a + window
        /\ in_order' = (in_order /\ a >= s.current_seqno /\ edge' >= edge)
        /\ Drain(t) /\ written' = written
    BY DEF Ack
  <1>5. /\ Sound(t, written)
        /\ t.is_timer_on => t.outstanding_segments # << >>
        /\ a > s.next_seqno => /\ t.next_seqno = s.next_seqno /\ t.window_size = s.window_size
                               /\ t.current_seqno = s.current_seqno
        /\ a <= s.next_seqno =>
               /\ t.current_seqno = current
               /\ t.next_seqno + t.window_size
                      = s.next_seqno + estimated_window(window, s.next_seqno - current)
    BY <1>1, <1>3, AckSound
  <1> HIDE DEF t
  <1>6. edge' \in Nat /\ in_order' \in BOOLEAN
    BY <1>1, <1>3, <1>4
  <1>7. Sound(t, written')
    BY <1>4, <1>5
  <1>8. in_order' => t.next_seqno + t.window_size <= max(edge', t.current_seqno + 1)
    <2> SUFFICES ASSUME in_order' PROVE t.next_seqno + t.window_size <= max(edge', t.current_seqno + 1)
      OBVIOUS
    <2>1. /\ in_order /\ a >= s.current_seqno /\ edge' >= edge
          /\ s.next_seqno + s.window_size <= max(edge, s.current_seqno + 1)
      BY <1>1, <1>4, Zenon
    <2>2. CASE a > s.next_seqno
      BY <1>4, <1>5, <2>1, <2>2
    <2>3. CASE a <= s.next_seqno
      <3>1. edge' = a + window
        BY <1>2, <1>3, <1>4, <2>3
      <3>2. a + window >= edge
        BY <2>1, <3>1
      <3>3. /\ current = a
            /\ s.next_seqno + estimated_window(window, s.next_seqno - a) <= max(a + window, a + 1)
        BY <1>1, <1>2, <1>3, <2>1, <2>3, <3>2, WindowExact, Zenon
      <3> HIDE DEF current
      <3>4. QED
        BY <1>5, <2>3, <3>1, <3>3
    <2>4. QED
      BY <1>2, <1>3, <2>2, <2>3
  <1>9. QED
    BY <1>4, <1>5, <1>6, <1>7, <1>8, DrainIInv

\* an action that moves none of the numbers
LEMMA StillIInv ==
    ASSUME IInv, NEW t, Sound(t, written), Drain(t), UNCHANGED <<written, edge, in_order>>,
           t.is_timer_on = sender.is_timer_on,
           t.outstanding_segments = sender.outstanding_segments,
           t.next_seqno = sender.next_seqno, t.window_size = sender.window_size,
           t.current_seqno = sender.current_seqno
    PROVE  IInv'
  <1>1. edge' = edge /\ in_order' = in_order /\ edge' \in Nat /\ in_order' \in BOOLEAN
    BY DEF IInv
  <1>2. Sound(t, written') /\ (t.is_timer_on => t.outstanding_segments # << >>)
    BY DEF IInv
  <1>3. in_order' => t.next_seqno + t.window_size <= max(edge', t.current_seqno + 1)
    BY <1>1 DEF IInv
  <1>4. QED
    BY <1>1, <1>2, <1>3, DrainIInv

\* each call of the owner keeps the invariant
LEMMA NextIInv == IInv /\ [Next]_vars => IInv'
  <1> SUFFICES ASSUME IInv, [Next]_vars PROVE IInv'
    OBVIOUS
  <1>1. /\ Sound(sender, written) /\ sender.segments_out = << >>
        /\ sender.is_timer_on => sender.outstanding_segments # << >>
    BY DEF IInv
  <1>2. CASE Connect
    <2>1. /\ Drain(fill_window(sender)) /\ UNCHANGED <<edge, in_order>>
          /\ Sound(sender, written')
      BY <1>1, <1>2 DEF Connect
    <2>2. QED
      BY <1>1, <2>1, FillIInv
  <1>3. ASSUME NEW data \in Chunks, Write(data) PROVE IInv'
    <2> DEFINE s == [ sender EXCEPT !.stream = write(@, data) ]
    <2>1. /\ ~sender.stream.input_ended /\ Len(written) + Len(data) <= MaxWritten
          /\ written' = written \o SubSeq(data, 1, accepted_size(sender.stream, data))
          /\ Drain(fill_window(s)) /\ UNCHANGED <<edge, in_order>>
      BY <1>3 DEF Write
    <2>2. data \in Seq(Byte)
      BY SenderSpecAssumption
    <2>3. /\ Sound(s, written \o SubSeq(data, 1, accepted_size(sender.stream, data)))
          /\ s.segments_out = << >>
          /\ s.is_timer_on = sender.is_timer_on
          /\ s.outstanding_segments = sender.outstanding_segments
          /\ s.next_seqno = sender.next_seqno /\ s.window_size = sender.window_size
          /\ s.current_seqno = sender.current_seqno
      BY <1>1, <2>1, <2>2, WriteSound
    <2> HIDE DEF s
    <2>4. Sound(s, written')
      BY <2>1, <2>3
    <2>5. QED
      BY <2>1, <2>3, <2>4, FillIInv
  <1>4. CASE EndInput
    <2> DEFINE s == [ sender EXCEPT !.stream = end_input(@) ]
    <2>1. Drain(fill_window(s)) /\ written' = written /\ UNCHANGED <<edge, in_order>>
      BY <1>4 DEF EndInput
    <2>2. /\ Sound(s, written) /\ s.segments_out = << >>
          /\ s.is_timer_on = sender.is_timer_on
          /\ s.outstanding_segments = sender.outstanding_segments
          /\ s.next_seqno = sender.next_seqno /\ s.window_size = sender.window_size
          /\ s.current_seqno = sender.current_seqno
      BY <1>1, EndSound
    <2> HIDE DEF s
    <2>3. Sound(s, written')
      BY <2>1, <2>2
    <2>4. QED
      BY <2>1, <2>2, <2>3, FillIInv
  <1>5. CASE AckAny
    BY <1>5, AckIInv DEF AckAny
  <1>6. ASSUME NEW ms \in 1 .. RT_TIMEOUT, Tick(ms) PROVE IInv'
    <2> DEFINE t == sender_tick(sender, ms)
    <2>1. Drain(t) /\ UNCHANGED <<written, edge, in_order>>
      BY <1>6 DEF Tick
    <2>2. ms \in Nat
      BY SenderAssumption
    <2>3. /\ Sound(t, written) /\ t.is_timer_on = sender.is_timer_on
          /\ t.outstanding_segments = sender.outstanding_segments
          /\ t.next_seqno = sender.next_seqno /\ t.window_size = sender.window_size
          /\ t.current_seqno = sender.current_seqno
      BY <1>1, <2>2, TickSound
    <2> HIDE DEF t
    <2>4. QED
      BY <2>1, <2>3, StillIInv
  <1>7. CASE SendEmpty
    <2> DEFINE t == send_empty_segment(sender)
    <2>1. Drain(t) /\ UNCHANGED <<written, edge, in_order>>
      BY <1>7 DEF SendEmpty
    <2>2. /\ Sound(t, written) /\ t.is_timer_on = sender.is_timer_on
          /\ t.outstanding_segments = sender.outstanding_segments
          /\ t.next_seqno = sender.next_seqno /\ t.window_size = sender.window_size
          /\ t.current_seqno = sender.current_seqno
      BY <1>1, EmptySound
    <2> HIDE DEF t
    <2>3. QED
      BY <2>1, <2>2, StillIInv
  <1>8. CASE UNCHANGED vars
    BY <1>8, Zenon DEF vars, IInv, Sound, Numbered, Tiled, Timed, Sendable
  <1>9. QED
    BY <1>2, <1>3, <1>4, <1>5, <1>6, <1>7, <1>8 DEF Next

LEMMA SpecIInv == Spec => []IInv
  BY InitIInv, NextIInv, PTL DEF Spec

-----------------------------------------------------------------------------
\* what the invariant says of a segment is what the properties ask
LEMMA GenuineSegment ==
    ASSUME IInv, NEW seg \in SegType, SegOK(seg, written, sender.stream.input_ended)
    PROVE  Start(seg) = At(seg) /\ End(seg) = After(seg) /\ Genuine(seg)
  <1> DEFINE first == At(seg) + int(seg.syn)
             size == Len(seg.payload)
  <1>1. Numbered(sender, written) /\ written \in Seq(Byte) /\ Len(written) <= MaxWritten
    BY Zenon DEF IInv, Sound, Numbered
  <1>2. sender.next_seqno \in Nat /\ sender.next_seqno <= MaxWritten + 3
    BY <1>1, NextBound, SenderSpecAssumption
  <1>3. unwrap(seg.seqno, ISN, sender.next_seqno) = At(seg)
    BY <1>1, <1>2, StartOfSegment
  <1>4. Start(seg) = At(seg) /\ End(seg) = After(seg)
    BY <1>3 DEF Start, End, After
  <1>5. /\ At(seg) \in Nat /\ (seg.syn <=> At(seg) = 0)
        /\ first + size <= Len(written) + 1
        /\ \A j \in 1 .. size : seg.payload[j] = written[first + j - 1]
        /\ seg.fin => sender.stream.input_ended /\ first + size = Len(written) + 1
    BY DEF SegOK
  <1>6. first \in Nat \ {0} /\ seg.payload \in Seq(Byte)
    BY <1>5 DEF int, SegType
  <1> HIDE DEF first
  <1>7. seg.payload = SubSeq(written, first, first + size - 1)
    BY <1>1, <1>5, <1>6, SliceEqual
  <1>8. Genuine(seg)
    BY <1>4, <1>5, <1>7, Zenon DEF Genuine, first
  <1>9. QED
    BY <1>4, <1>8

\* Every segment that fill_window() makes or tick() sends again carries what the stream has at its
\* place, and one of send_empty_segment() is at the end of what was sent: for every ISN, payload
\* size, stream of less than half the sequence space and order of acknowledgments, ticks and writes
\* (tcp_sender.cc:54-71, :145, :162).
THEOREM SpecSentGenuine == Spec => []SentGenuine
  <1>1. IInv => SentGenuine
    <2> SUFFICES ASSUME IInv, NEW i \in DOMAIN sent
                 PROVE  IF length_in_sequence_space(sent[i]) > 0
                        THEN Genuine(sent[i])
                        ELSE Start(sent[i]) = sender.next_seqno
      BY DEF SentGenuine
    <2> DEFINE seg == sent[i]
    <2>1. sent \in Seq(SegType) /\ \A j \in 1 .. Len(sent) : Sendable(sent[j], sender, written)
      BY DEF IInv
    <2>2. i \in 1 .. Len(sent) /\ seg \in SegType
      BY <2>1, LenProperties, ElementOfSeq
    <2>3. Sendable(seg, sender, written)
      BY <2>1, <2>2
    <2> HIDE DEF seg
    <2>4. CASE SegOK(seg, written, sender.stream.input_ended)
      <3>1. length_in_sequence_space(seg) > 0
        BY <2>4 DEF SegOK
      <3>2. Genuine(seg)
        BY <2>2, <2>4, GenuineSegment
      <3>3. QED
        BY <3>1, <3>2 DEF seg
    <2>5. CASE length_in_sequence_space(seg) = 0 /\ seg.seqno = wrap(sender.next_seqno, ISN)
      <3>1. Numbered(sender, written)
        BY DEF IInv, Sound
      <3>2. sender.next_seqno \in Nat /\ sender.next_seqno <= MaxWritten + 3
        BY <3>1, NextBound, SenderSpecAssumption
      <3>3. Start(seg) = sender.next_seqno
        BY <2>5, <3>2, UnwrapNear DEF Start
      <3>4. ~(length_in_sequence_space(seg) > 0)
        BY <2>5
      <3>5. QED
        BY <3>3, <3>4 DEF seg
    <2>6. QED
      BY <2>3, <2>4, <2>5 DEF Sendable
  <1>2. QED
    BY <1>1, SpecIInv, PTL

\* What is kept for retransmission covers exactly what is in flight, in order, and nothing that is
\* wholly acknowledged, after every call (tcp_sender.cc:110-123).
THEOREM SpecTiling == Spec => []Tiling
  <1>1. IInv => Tiling
    <2> SUFFICES ASSUME IInv PROVE Tiling
      OBVIOUS
    <2> DEFINE segs == sender.outstanding_segments
               last == Len(segs)
    <2>1. /\ Tiles(segs, written, sender.stream.input_ended, sender.current_seqno, sender.next_seqno)
          /\ segs \in Seq(SegType) /\ sender.next_seqno \in Nat
      BY DEF IInv, Sound, Tiled, Numbered, SenderType
    <2>2. last \in Nat /\ DOMAIN segs = 1 .. last /\ \A i \in 1 .. last : segs[i] \in SegType
      BY <2>1, LenProperties, ElementOfSeq
    <2>3. /\ \A i \in 1 .. last : SegOK(segs[i], written, sender.stream.input_ended)
          /\ \A i \in 1 .. last - 1 : After(segs[i]) = At(segs[i + 1])
          /\ last = 0 => sender.current_seqno = sender.next_seqno
          /\ last > 0 => /\ At(segs[1]) <= sender.current_seqno
                         /\ After(segs[1]) > sender.current_seqno
                         /\ After(segs[last]) = sender.next_seqno
      BY <2>1 DEF Tiles
    <2>4. \A i \in 1 .. last : /\ Start(segs[i]) = At(segs[i]) /\ End(segs[i]) = After(segs[i])
                               /\ Genuine(segs[i]) /\ length_in_sequence_space(segs[i]) > 0
      <3>1. \A i \in 1 .. last : length_in_sequence_space(segs[i]) > 0
        BY <2>3 DEF SegOK
      <3>2. QED
        BY <2>2, <2>3, <3>1, GenuineSegment
    <2>5. last = 0 => bytes_in_flight(sender) = 0
      BY <2>1, <2>3 DEF bytes_in_flight
    <2> HIDE DEF segs, last
    <2>6. \A i \in 1 .. last - 1 : End(segs[i]) = Start(segs[i + 1])
      <3>1. \A i \in 1 .. last - 1 : i \in 1 .. last /\ i + 1 \in 1 .. last
        BY <2>2
      <3>2. QED
        BY <2>3, <2>4, <3>1, Zenon
    <2>7. last > 0 => /\ Start(segs[1]) <= sender.current_seqno
                      /\ End(segs[1]) > sender.current_seqno
                      /\ End(segs[last]) = sender.next_seqno
      <3>1. last > 0 => 1 \in 1 .. last /\ last \in 1 .. last
        BY <2>2
      <3>2. QED
        BY <2>3, <2>4, <3>1, Zenon
    <2>8. QED
      BY <2>2, <2>4, <2>5, <2>6, <2>7, Zenon DEF Tiling, segs, last
  <1>2. QED
    BY <1>1, SpecIInv, PTL

\* The timer runs exactly while something is unacknowledged, whatever acknowledgments arrive: tick()
\* never takes the front of an empty queue (tcp_sender.cc:137-145).
THEOREM SpecTimerMatches == Spec => []TimerMatches
  <1>1. IInv => TimerMatches
    BY DEF IInv, Sound, Numbered, SenderType, TimerMatches
  <1>2. QED
    BY <1>1, SpecIInv, PTL

\* The timeout is the initial one doubled once per retransmission counted, for every initial timeout
\* and any number of retransmissions, and the timer never reaches it unnoticed (tcp_sender.cc:77-82,
\* :118-120, :149-154).
THEOREM SpecBackoff == Spec => []Backoff
  <1>1. IInv => Backoff
    BY DEF IInv, Sound, Timed, Backoff
  <1>2. QED
    BY <1>1, SpecIInv, PTL

\* While acknowledgments arrive in order, nothing goes beyond the window the peer last offered, or
\* beyond one byte of a closed one, in every modulus of the 16-bit estimate (tcp_sender.cc:27-84,
\* :99-108).
THEOREM SpecFlowControl == Spec => []FlowControl
  <1>1. IInv => FlowControl
    <2> SUFFICES ASSUME IInv, in_order
                 PROVE  sender.next_seqno <= max(edge, sender.current_seqno + 1)
      BY DEF FlowControl
    <2>1. /\ sender.next_seqno \in Nat /\ sender.window_size \in Nat /\ sender.current_seqno \in Nat
          /\ edge \in Nat
          /\ sender.next_seqno + sender.window_size <= max(edge, sender.current_seqno + 1)
      BY DEF IInv, Sound, Numbered, SenderType
    <2>2. max(edge, sender.current_seqno + 1) \in Nat
      BY <2>1 DEF max
    <2>3. QED
      BY <2>1, <2>2
  <1>2. QED
    BY <1>1, SpecIInv, PTL
=============================================================================
