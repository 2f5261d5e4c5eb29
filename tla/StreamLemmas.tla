---------------------------- MODULE StreamLemmas ----------------------------
(***************************************************************************)
(* Facts about sequences and about the ByteStream operators that the       *)
(* proofs of the layers above share.                                       *)
(***************************************************************************)
EXTENDS ByteStream, WellFoundedInduction, TLAPS

-----------------------------------------------------------------------------
(***************************************************************************)
(* Sequences: a few facts under the names they have in the library, which  *)
(* the provers find by themselves.  Restated here, they spare every step   *)
(* of the long proofs the whole library as its context.                    *)
(***************************************************************************)
\* the length, the positions and the elements
LEMMA LenProperties ==
    ASSUME NEW S, NEW s \in Seq(S)
    PROVE  /\ Len(s) \in Nat
           /\ DOMAIN s = 1 .. Len(s)
           /\ s \in [1 .. Len(s) -> S]
  OBVIOUS

LEMMA ElementOfSeq ==
    ASSUME NEW S, NEW s \in Seq(S), NEW n \in 1 .. Len(s)
    PROVE  s[n] \in S
  OBVIOUS

LEMMA EmptySeq ==
    ASSUME NEW S
    PROVE  /\ << >> \in Seq(S)
           /\ Len(<< >>) = 0
           /\ \A s \in Seq(S) : s # << >> => Len(s) \in Nat \ {0}
  OBVIOUS

\* joining two sequences
LEMMA ConcatProperties ==
    ASSUME NEW S, NEW s1 \in Seq(S), NEW s2 \in Seq(S)
    PROVE  /\ s1 \o s2 \in Seq(S)
           /\ Len(s1 \o s2) = Len(s1) + Len(s2)
           /\ \A i \in 1 .. Len(s1) + Len(s2) :
                (s1 \o s2)[i] = IF i <= Len(s1) THEN s1[i] ELSE s2[i - Len(s1)]
  OBVIOUS

LEMMA ConcatEmptySeq ==
    ASSUME NEW S, NEW s \in Seq(S)
    PROVE  s \o << >> = s /\ << >> \o s = s
  OBVIOUS

LEMMA ConcatAssociative ==
    ASSUME NEW S, NEW s \in Seq(S), NEW t \in Seq(S), NEW u \in Seq(S)
    PROVE  (s \o t) \o u = s \o (t \o u)
  OBVIOUS

\* adding an element at the end, taking one from the front
LEMMA AppendProperties ==
    ASSUME NEW S, NEW s \in Seq(S), NEW e \in S
    PROVE  /\ Append(s, e) \in Seq(S)
           /\ Append(s, e) # << >>
           /\ Len(Append(s, e)) = Len(s) + 1
           /\ \A i \in 1 .. Len(s) : Append(s, e)[i] = s[i]
           /\ Append(s, e)[Len(s) + 1] = e
  OBVIOUS

LEMMA HeadTailProperties ==
    ASSUME NEW S, NEW s \in Seq(S), s # << >>
    PROVE  /\ Head(s) \in S
           /\ Tail(s) \in Seq(S)
           /\ Len(Tail(s)) = Len(s) - 1
           /\ \A i \in 1 .. Len(Tail(s)) : Tail(s)[i] = s[i + 1]
  OBVIOUS

\* a part of a sequence
LEMMA SubSeqProperties ==
    ASSUME NEW S, NEW s, NEW m \in Int, NEW n \in Int, \A i \in m .. n : s[i] \in S
    PROVE  /\ SubSeq(s, m, n) \in Seq(S)
           /\ Len(SubSeq(s, m, n)) = IF m <= n THEN n - m + 1 ELSE 0
           /\ \A i \in 1 .. n - m + 1 : SubSeq(s, m, n)[i] = s[m + i - 1]
  OBVIOUS

LEMMA SubSeqEmpty ==
    ASSUME NEW s, NEW m \in Int, NEW n \in Int, n < m
    PROVE  SubSeq(s, m, n) = << >>
  OBVIOUS

LEMMA SubSeqFull ==
    ASSUME NEW S, NEW s \in Seq(S)
    PROVE  SubSeq(s, 1, Len(s)) = s
  OBVIOUS

LEMMA SubSeqOfConcat1 ==
    ASSUME NEW S, NEW s \in Seq(S), NEW t \in Seq(S), NEW m \in 1 .. Len(s), NEW n \in 1 .. Len(s)
    PROVE  SubSeq(s \o t, m, n) = SubSeq(s, m, n)
  OBVIOUS

LEMMA ConcatAdjacentSubSeq ==
    ASSUME NEW S, NEW s \in Seq(S), NEW m \in 1 .. Len(s) + 1, NEW k \in m - 1 .. Len(s), NEW n \in k .. Len(s)
    PROVE  SubSeq(s, m, k) \o SubSeq(s, k + 1, n) = SubSeq(s, m, n)
  OBVIOUS

LEMMA SeqEqual ==
    ASSUME NEW S, NEW s \in Seq(S), NEW t \in Seq(S),
           Len(s) = Len(t), \A i \in 1 .. Len(s) : s[i] = t[i]
    PROVE  s = t
  OBVIOUS

\* cutting a sequence in two and joining the parts again
LEMMA CutJoin ==
    ASSUME NEW S, NEW s \in Seq(S), NEW n \in 0 .. Len(s)
    PROVE  /\ SubSeq(s, 1, n) \in Seq(S) /\ Len(SubSeq(s, 1, n)) = n
           /\ SubSeq(s, n + 1, Len(s)) \in Seq(S) /\ Len(SubSeq(s, n + 1, Len(s))) = Len(s) - n
           /\ s = SubSeq(s, 1, n) \o SubSeq(s, n + 1, Len(s))
  <1>1. Len(s) \in Nat /\ \A i \in 1 .. Len(s) : s[i] \in S
    BY LenProperties, ElementOfSeq
  <1>2. SubSeq(s, 1, n) \in Seq(S) /\ Len(SubSeq(s, 1, n)) = n
    BY <1>1, SubSeqProperties
  <1>3. SubSeq(s, n + 1, Len(s)) \in Seq(S) /\ Len(SubSeq(s, n + 1, Len(s))) = Len(s) - n
    BY <1>1, SubSeqProperties
  <1>4. SubSeq(s, 1, n) \o SubSeq(s, n + 1, Len(s)) = SubSeq(s, 1, Len(s))
    <2>1. 1 \in 1 .. Len(s) + 1 /\ n \in 1 - 1 .. Len(s) /\ Len(s) \in n .. Len(s)
      BY <1>1
    <2>2. QED
      BY <2>1, ConcatAdjacentSubSeq, Zenon
  <1>5. QED
    BY <1>2, <1>3, <1>4, SubSeqFull

\* a sequence is a prefix of its extensions
LEMMA PrefixOfConcat ==
    ASSUME NEW S, NEW s \in Seq(S), NEW t \in Seq(S)
    PROVE  /\ s \o t \in Seq(S) /\ Len(s) <= Len(s \o t)
           /\ SubSeq(s, 1, Len(s)) = SubSeq(s \o t, 1, Len(s))
  <1>1. Len(s \o t) = Len(s) + Len(t) /\ s \o t \in Seq(S) /\ Len(s) \in Nat /\ Len(t) \in Nat
    BY ConcatProperties, LenProperties
  <1>2. SubSeq(s \o t, 1, Len(s)) = SubSeq(s, 1, Len(s))
    <2>1. CASE Len(s) = 0
      BY <2>1, SubSeqEmpty
    <2>2. CASE Len(s) # 0
      BY <1>1, <2>2, SubSeqOfConcat1
    <2>3. QED
      BY <2>1, <2>2
  <1>3. QED
    BY <1>1, <1>2

-----------------------------------------------------------------------------
(***************************************************************************)
(* The ByteStream                                                          *)
(***************************************************************************)
\* the smaller of what is offered and the room left
LEMMA MinRoom ==
    ASSUME NEW l \in Nat, NEW b \in Nat, NEW c \in Nat, b <= c
    PROVE  /\ min(l, c - b) \in 0 .. l /\ min(l, c - b) \in Nat
           /\ b + min(l, c - b) <= c
  BY DEF min

\* what write() and pop_output() leave in each member
LEMMA WriteFields ==
    ASSUME NEW Byte, NEW s \in ByteStreamType(Byte), NEW data \in Seq(Byte),
           accepted_size(s, data) \in 0 .. Len(data)
    PROVE  /\ write(s, data) \in ByteStreamType(Byte)
           /\ write(s, data).buffer = s.buffer \o SubSeq(data, 1, accepted_size(s, data))
           /\ write(s, data).bytes_written = s.bytes_written + accepted_size(s, data)
           /\ write(s, data).bytes_read = s.bytes_read
           /\ write(s, data).capacity = s.capacity
           /\ write(s, data).input_ended = s.input_ended
  <1> DEFINE size == accepted_size(s, data)
             joined == s.buffer \o SubSeq(data, 1, size)
             n == s.bytes_written + size
  <1>1. joined \in Seq(Byte) /\ n \in Nat
    <2>1. SubSeq(data, 1, size) \in Seq(Byte) /\ size \in Nat
      BY CutJoin, LenProperties
    <2>2. QED
      BY <2>1, ConcatProperties DEF ByteStreamType
  <1>2. write(s, data) = [ s EXCEPT !.buffer = joined, !.bytes_written = n ]
    BY Zenon DEF write
  <1> DEFINE t == [ s EXCEPT !.buffer = joined, !.bytes_written = n ]
  <1> HIDE DEF joined, n
  <1>3. /\ t \in ByteStreamType(Byte)
        /\ t.buffer = joined /\ t.bytes_written = n
        /\ t.bytes_read = s.bytes_read /\ t.capacity = s.capacity
        /\ t.input_ended = s.input_ended
    BY <1>1 DEF ByteStreamType
  <1> HIDE DEF t
  <1>4. QED
    BY <1>2, <1>3, Zenon DEF joined, n, t

LEMMA PopFields ==
    ASSUME NEW Byte, NEW s \in ByteStreamType(Byte), NEW len,
           available_output(s, len) \in 0 .. Len(s.buffer)
    PROVE  /\ pop_output(s, len) \in ByteStreamType(Byte)
           /\ pop_output(s, len).buffer = SubSeq(s.buffer, available_output(s, len) + 1, Len(s.buffer))
           /\ pop_output(s, len).bytes_written = s.bytes_written
           /\ pop_output(s, len).bytes_read = s.bytes_read + available_output(s, len)
           /\ pop_output(s, len).capacity = s.capacity
           /\ pop_output(s, len).input_ended = s.input_ended
  <1> DEFINE size == available_output(s, len)
             rest == SubSeq(s.buffer, size + 1, Len(s.buffer))
             n == s.bytes_read + size
  <1>1. rest \in Seq(Byte) /\ n \in Nat
    <2>1. s.buffer \in Seq(Byte) /\ s.bytes_read \in Nat /\ Len(s.buffer) \in Nat
      BY LenProperties DEF ByteStreamType
    <2>2. QED
      BY <2>1, CutJoin
  <1>2. pop_output(s, len) = [ s EXCEPT !.buffer = rest, !.bytes_read = n ]
    BY Zenon DEF pop_output
  <1> DEFINE t == [ s EXCEPT !.buffer = rest, !.bytes_read = n ]
  <1> HIDE DEF rest, n
  <1>3. /\ t \in ByteStreamType(Byte)
        /\ t.buffer = rest /\ t.bytes_read = n
        /\ t.bytes_written = s.bytes_written /\ t.capacity = s.capacity
        /\ t.input_ended = s.input_ended
    BY <1>1 DEF ByteStreamType
  <1> HIDE DEF t
  <1>4. QED
    BY <1>2, <1>3, Zenon DEF rest, n, t

LEMMA EndInputFields ==
    ASSUME NEW Byte, NEW s \in ByteStreamType(Byte)
    PROVE  LET t == end_input(s)
           IN  /\ t \in ByteStreamType(Byte)
               /\ t.buffer = s.buffer
               /\ t.bytes_written = s.bytes_written
               /\ t.bytes_read = s.bytes_read
               /\ t.capacity = s.capacity
               /\ t.input_ended = TRUE
  BY DEF end_input, ByteStreamType

-----------------------------------------------------------------------------
(***************************************************************************)
(* Induction                                                               *)
(***************************************************************************)
\* induction, for a property given as the set of numbers that have it
LEMMA Induction ==
    ASSUME NEW S, 0 \in S, \A n \in Nat : n \in S => n + 1 \in S
    PROVE  Nat \subseteq S
  <1> DEFINE bad == { n \in Nat : n \notin S }
             less == { ss \in Nat \X Nat : ss[1] < ss[2] }
  <1> SUFFICES ASSUME bad # {} PROVE FALSE
    OBVIOUS
  <1>1. IsWellFoundedOn(less, Nat)
    BY NatLessThanWellFounded DEF OpToRel
  <1>2. PICK k \in bad : \A j \in bad : ~(<<j, k>> \in less)
    <2>1. bad \subseteq Nat
      OBVIOUS
    <2> HIDE DEF bad, less
    <2>2. QED
      BY <1>1, <2>1, WFMin, Zenon
  <1>3. k \in Nat /\ k # 0 /\ k \notin S
    OBVIOUS
  <1>4. k - 1 \in Nat /\ k - 1 < k /\ (k - 1) + 1 = k
    BY <1>3
  <1>5. k - 1 \in S
    <2>1. k - 1 \notin bad
      BY <1>2, <1>4
    <2>2. QED
      BY <1>4, <2>1
  <1>6. QED
    BY <1>3, <1>4, <1>5

\* a loop that goes on while the next number is in S stops within its bound
LEMMA LoopStops ==
    ASSUME NEW S, NEW bound \in Nat
    PROVE  \E n \in 0 .. bound : (\A i \in 1 .. n : i \in S) /\ (n < bound => n + 1 \notin S)
  <1> DEFINE stop(n, b) == n \in 0 .. b /\ (\A i \in 1 .. n : i \in S) /\ (n < b => n + 1 \notin S)
             good == { b \in Nat : \E n : stop(n, b) }
  <1>1. 0 \in good
    <2>1. stop(0, 0)
      OBVIOUS
    <2>2. QED
      BY <2>1
  <1>2. ASSUME NEW b \in Nat, b \in good PROVE b + 1 \in good
    <2>1. PICK n : stop(n, b)
      BY <1>2
    <2>2. CASE n < b \/ b + 1 \notin S
      <3>1. stop(n, b + 1)
        BY <2>1, <2>2
      <3>2. QED
        BY <3>1
    <2>3. CASE n >= b /\ b + 1 \in S
      <3>1. stop(b + 1, b + 1)
        BY <2>1, <2>3
      <3>2. QED
        BY <3>1
    <2>4. QED
      BY <2>1, <2>2, <2>3
  <1>3. Nat \subseteq good
    <2> HIDE DEF good
    <2>1. QED
      BY <1>1, <1>2, Induction, Zenon
  <1>4. QED
    BY <1>3
=============================================================================
