---------------------- MODULE StreamReassemblerProofs ----------------------
(***************************************************************************)
(* For every capacity, every stream and every order of substrings: what is *)
(* assembled is a prefix of the stream, within the capacity, counted once. *)
(* When no empty eof substring overtakes data, the StreamReassembler       *)
(* implements ReliableStream.                                              *)
(***************************************************************************)
EXTENDS StreamReassemblerSpec, StreamLemmas, FiniteSetTheorems, WellFoundedInduction

\* the drain loop stops at a point its exit condition describes
LEMMA DrainedFacts ==
    ASSUME NEW held, NEW first \in Nat, NEW room \in Nat
    PROVE  LET n == drained(held, first, room)
           IN  /\ n \in 0 .. room
               /\ \A i \in first .. first + n - 1 : i \in held
               /\ n < room => first + n \notin held
  <1> DEFINE stops == { k \in Nat : k <= room /\ (k < room => first + k \notin held) }
             less == { ss \in Nat \X Nat : ss[1] < ss[2] }
             P(k) == /\ \A i \in first .. first + k - 1 : i \in held
                     /\ k < room => first + k \notin held
  <1>1. room \in stops /\ stops \subseteq Nat
    OBVIOUS
  <1>2. IsWellFoundedOn(less, Nat)
    BY NatLessThanWellFounded DEF OpToRel
  <1>3. PICK k \in stops : \A j \in stops : ~(<<j, k>> \in less)
    <2> HIDE DEF stops, less
    <2>1. QED
      BY <1>1, <1>2, WFMin, Zenon
  <1>4. \A j \in stops : ~(j < k)
    BY <1>1, <1>3, Zenon
  <1>5. k \in 0 .. room /\ (k < room => first + k \notin held)
    OBVIOUS
  <1>6. \A i \in first .. first + k - 1 : i \in held
    <2> SUFFICES ASSUME NEW i \in first .. first + k - 1, i \notin held PROVE FALSE
      OBVIOUS
    <2>1. i - first \in Nat /\ i - first < k /\ first + (i - first) = i
      BY <1>5
    <2>2. i - first \in stops
      BY <1>5, <2>1
    <2>3. QED
      BY <1>4, <2>1, <2>2
  <1>7. \E m \in 0 .. room : P(m)
    BY <1>5, <1>6
  <1>8. drained(held, first, room) = CHOOSE m \in 0 .. room : P(m)
    BY Zenon DEF drained
  <1> HIDE DEF P
  <1>9. drained(held, first, room) \in 0 .. room /\ P(drained(held, first, room))
    BY <1>7, <1>8, Zenon
  <1>10. QED
    BY <1>9, Zenon DEF P

\* what the counter of unassembled bytes does in one push
LEMMA CountHeld ==
    ASSUME NEW D, NEW K, IsFiniteSet(D), IsFiniteSet(K),
           NEW first \in Nat, NEW n \in Nat, first .. first + n - 1 \subseteq D \union K
    PROVE  /\ Cardinality((D \union K) \ (first .. first + n - 1)) =
                  Cardinality(D) + Cardinality(K \ D) - n
           /\ IsFiniteSet((D \union K) \ (first .. first + n - 1))
  <1> DEFINE all == D \union K
             out == first .. first + n - 1
  <1>1. IsFiniteSet(K \ D) /\ IsFiniteSet(all) /\ Cardinality(all) = Cardinality(D) + Cardinality(K \ D)
    <2>1. IsFiniteSet(K \ D)
      BY FS_Subset
    <2>2. all = D \union (K \ D) /\ D \intersect (K \ D) = {}
      OBVIOUS
    <2>3. Cardinality(D) \in Nat /\ Cardinality(K \ D) \in Nat
      BY <2>1, FS_CardinalityType
    <2>4. QED
      BY <2>1, <2>2, <2>3, FS_Union, FS_EmptySet
  <1>2. IsFiniteSet(out) /\ Cardinality(out) = n
    BY FS_Interval
  <1>3. all \intersect out = out
    OBVIOUS
  <1>4. IsFiniteSet(all \ out) /\ Cardinality(all \ out) = Cardinality(all) - Cardinality(all \intersect out)
    BY <1>1, FS_Difference, Zenon
  <1> HIDE DEF all, out
  <1>5. IsFiniteSet(all \ out) /\ Cardinality(all \ out) = Cardinality(D) + Cardinality(K \ D) - n
    <2>1. Cardinality(all \intersect out) = n
      BY <1>2, <1>3, Zenon
    <2>2. Cardinality(all) \in Nat /\ Cardinality(D) \in Nat /\ Cardinality(K \ D) \in Nat
      BY <1>1, FS_CardinalityType
    <2>3. Cardinality(all) - n = Cardinality(D) + Cardinality(K \ D) - n
      BY <1>1, <2>2
    <2>4. Cardinality(all \ out) = Cardinality(all) - n
      BY <1>4, <2>1
    <2>5. QED
      BY <1>4, <2>3, <2>4
  <1>6. QED
    BY <1>5 DEF all, out

\* what is read, buffered and free adds up
LEMMA Room ==
    ASSUME NEW a \in Nat, NEW b \in Nat, NEW c \in Nat, b <= c
    PROVE  c - b \in Nat /\ (a + b) + (c - b) = a + c
  OBVIOUS

LEMMA BytesAssociative ==
    ASSUME NEW s \in Seq(Byte), NEW t \in Seq(Byte), NEW u \in Seq(Byte)
    PROVE  (s \o t) \o u = s \o (t \o u)
  BY ConcatAssociative

\* the first of three parts is a prefix of the whole
LEMMA PrefixOfTwo ==
    ASSUME NEW s \in Seq(Byte), NEW t \in Seq(Byte), NEW u \in Seq(Byte),
           NEW w, w = (s \o t) \o u
    PROVE  Abstract!IsPrefix(s, w)
  <1>1. w = s \o (t \o u) /\ t \o u \in Seq(Byte)
    BY BytesAssociative, ConcatProperties
  <1>2. QED
    BY <1>1, PrefixOfConcat DEF Abstract!IsPrefix

\* an excerpt of a sequence
LEMMA SliceFacts ==
    ASSUME NEW s \in Seq(Byte), NEW last \in 0 .. Len(s), NEW index \in 0 .. last
    PROVE  /\ Len(s) \in Nat
           /\ SubSeq(s, index + 1, last) \in Seq(Byte)
           /\ Len(SubSeq(s, index + 1, last)) = last - index
           /\ \A j \in 1 .. last - index : SubSeq(s, index + 1, last)[j] = s[index + j]
  <1>1. Len(s) \in Nat /\ \A i \in 1 .. Len(s) : s[i] \in Byte
    BY LenProperties, ElementOfSeq
  <1>2. \A i \in index + 1 .. last : s[i] \in Byte
    BY <1>1
  <1>3. QED
    BY <1>1, <1>2, SubSeqProperties

\* the bytes drained are the next bytes of the stream
LEMMA RetFacts ==
    ASSUME NEW s \in Seq(Byte), NEW first \in Nat, NEW n \in Nat, first + n <= Len(s),
           NEW ret \in [ 1 .. n -> Byte ], \A j \in 1 .. n : ret[j] = s[first + j]
    PROVE  ret = SubSeq(s, first + 1, first + n) /\ ret \in Seq(Byte) /\ Len(ret) = n
  <1> DEFINE t == SubSeq(s, first + 1, first + n)
  <1>1. Len(s) \in Nat /\ first + n \in 0 .. Len(s) /\ first \in 0 .. first + n
    BY LenProperties
  <1>2. t \in Seq(Byte) /\ Len(t) = n /\ \A j \in 1 .. n : t[j] = s[first + j]
    BY <1>1, SliceFacts
  <1>3. t = [ j \in 1 .. n |-> t[j] ]
    <2>1. DOMAIN t = 1 .. n
      BY <1>2, LenProperties
    <2>2. QED
      BY <1>2, <2>1, LenProperties, Zenon
  <1>4. ret = t
    <2> HIDE DEF t
    <2>1. \A j \in 1 .. n : ret[j] = t[j]
      BY <1>2
    <2>2. QED
      BY <1>3, <2>1
  <1>5. QED
    BY <1>2, <1>4, Zenon

-----------------------------------------------------------------------------
\* the conjunction is inductive, whether or not eof substrings overtake data
IInv ==
    /\ TypeOK
    /\ Len(input) <= MaxWritten
    /\ reassembler.output.bytes_read = Len(received)
    /\ Faithful
    /\ WithinCapacity
    /\ CountedOnce
    /\ Eager

\* what the invariant says of the numbers the push works with
LEMMA Numbers ==
    ASSUME IInv
    PROVE  LET r == reassembler
               first == first_unassembled(r)
           IN  /\ r.output \in ByteStreamType(Byte)
               /\ r.capacity = Capacity /\ r.output.capacity = Capacity /\ Capacity \in Nat
               /\ r.output.buffer \in Seq(Byte) /\ Len(r.output.buffer) \in Nat
               /\ first = r.output.bytes_written /\ first \in Nat
               /\ r.output.bytes_read = Len(received) /\ Len(received) \in Nat
               /\ first = Len(received) + Len(r.output.buffer)
               /\ remaining_capacity(r.output) \in Nat
               /\ first + remaining_capacity(r.output) = Len(received) + Capacity
               /\ input \in Seq(Byte) /\ Len(input) \in Nat /\ first <= Len(input)
               /\ IsFiniteSet(DOMAIN r.pending) /\ DOMAIN r.pending \subseteq 0 .. Len(input) - 1
  <1> DEFINE r == reassembler
             first == first_unassembled(r)
  <1>1. /\ r.output \in ByteStreamType(Byte) /\ r.pending \in PendingType
        /\ r.capacity = Capacity /\ r.output.capacity = Capacity /\ Capacity \in Nat
        /\ input \in Seq(Byte) /\ received \in Seq(Byte)
    BY ReassemblerAssumption DEF IInv, TypeOK, ReassemblerType
  <1>2. /\ r.output.buffer \in Seq(Byte) /\ Len(r.output.buffer) \in Nat
        /\ first = r.output.bytes_written /\ first \in Nat
        /\ Len(input) \in Nat /\ Len(received) \in Nat
    BY <1>1, LenProperties DEF first_unassembled, ByteStreamType
  <1>3. first <= Len(input) /\ Len(r.output.buffer) <= Capacity /\ r.output.bytes_read = Len(received)
    BY DEF IInv, Faithful, WithinCapacity
  <1>4. first = Len(received) + Len(r.output.buffer)
    <2>1. Len(received \o r.output.buffer) = Len(received) + Len(r.output.buffer)
      BY <1>1, <1>2, ConcatProperties
    <2>2. Len(SubSeq(input, 1, first)) = first
      BY <1>1, <1>2, <1>3, CutJoin
    <2>3. QED
      BY <2>1, <2>2, Zenon DEF IInv, Faithful
  <1>5. /\ remaining_capacity(r.output) \in Nat
        /\ first + remaining_capacity(r.output) = Len(received) + Capacity
    <2>1. remaining_capacity(r.output) = Capacity - Len(r.output.buffer)
      BY <1>1, Zenon DEF remaining_capacity, buffer_size
    <2>2. /\ Capacity \in Nat /\ Len(received) \in Nat
          /\ Len(r.output.buffer) \in Nat /\ Len(r.output.buffer) <= Capacity
      BY <1>1, <1>2, <1>3
    <2>3. /\ Capacity - Len(r.output.buffer) \in Nat
          /\ (Len(received) + Len(r.output.buffer)) + (Capacity - Len(r.output.buffer)) =
                 Len(received) + Capacity
      BY <2>2, Room, Zenon
    <2>4. QED
      BY <1>4, <2>1, <2>3, Zenon
  <1>6. DOMAIN r.pending \subseteq 0 .. Len(input) - 1
    BY <1>1 DEF PendingType
  <1>7. IsFiniteSet(DOMAIN r.pending)
    <2>1. IsFiniteSet(0 .. Len(input) - 1)
      BY <1>2, FS_Interval
    <2>2. DOMAIN r.pending \in SUBSET (0 .. Len(input) - 1)
      BY <1>6
    <2>3. QED
      BY <2>1, <2>2, FS_Subset, Zenon
  <1>8. QED
    BY <1>1, <1>2, <1>3, <1>4, <1>5, <1>6, <1>7

\* after the store loop, what is held carries the bytes of the stream and lies in the window
LEMMA StoreFacts ==
    ASSUME IInv, NEW last \in 0 .. Len(input), NEW index \in 0 .. last
    PROVE  LET r == reassembler
               data == SubSeq(input, index + 1, last)
               first == first_unassembled(r)
               room == remaining_capacity(r.output)
           IN  /\ \A i \in DOMAIN r.pending : i \in first .. first + room - 1
               /\ \A i : i \in kept(r, data, index) <=>
                             i \in first .. first + room - 1 /\ i \in index .. last - 1
               /\ DOMAIN merged(r, data, index) = DOMAIN r.pending \union kept(r, data, index)
               /\ \A i \in DOMAIN merged(r, data, index) :
                      /\ i \in first .. first + room - 1 /\ i < Len(input)
                      /\ merged(r, data, index)[i] = input[i + 1]
  <1> DEFINE r == reassembler
             data == SubSeq(input, index + 1, last)
             first == first_unassembled(r)
             room == remaining_capacity(r.output)
             D == DOMAIN r.pending
             end == r.output.bytes_read + Capacity
  <1>a. /\ first \in Nat /\ room \in Nat /\ Len(input) \in Nat /\ input \in Seq(Byte)
        /\ end = first + room
        /\ D \subseteq 0 .. Len(input) - 1
    BY Numbers, Zenon
  <1>b. \A i \in D : first <= i /\ i < end
    BY DEF IInv, WithinCapacity
  <1>c. \A i \in D : r.pending[i] = input[i + 1]
    BY DEF IInv, Faithful
  <1>d. \A i \in D : i \in first .. first + room - 1 /\ i < Len(input) /\ r.pending[i] = input[i + 1]
    <2> HIDE DEF D, first, room, r, end
    <2>1. \A i \in D : i \in first .. first + room - 1
      BY <1>a, <1>b
    <2>2. \A i \in D : i < Len(input)
      BY <1>a
    <2>3. QED
      BY <1>c, <2>1, <2>2, Zenon
  <1> DEFINE K == kept(r, data, index)
             h == [ i \in D \union K |-> IF i \in K THEN data[i - index + 1] ELSE r.pending[i] ]
  <1>1. /\ Len(input) \in Nat /\ Len(data) = last - index
        /\ \A j \in 1 .. last - index : data[j] = input[index + j]
    BY <1>a, SliceFacts
  <1> HIDE DEF data, first, room
  <1>2. K = { i \in first .. first + room - 1 : i - index \in 0 .. Len(data) - 1 }
    BY Zenon DEF kept, first, room
  <1>3. \A i : i \in K <=> i \in first .. first + room - 1 /\ i \in index .. last - 1
    BY <1>1, <1>2
  <1>4. \A i \in K : data[i - index + 1] = input[i + 1]
    <2> SUFFICES ASSUME NEW i \in K PROVE data[i - index + 1] = input[i + 1]
      OBVIOUS
    <2>1. i \in index .. last - 1 /\ i \in Int
      BY <1>3
    <2>2. i - index + 1 \in 1 .. last - index /\ index + (i - index + 1) = i + 1
      BY <2>1
    <2>3. QED
      BY <1>1, <2>2
  <1>5. merged(r, data, index) = h
    BY Zenon DEF merged
  <1> HIDE DEF K, D, r
  <1>6. \A i \in D \union K : /\ i \in first .. first + room - 1 /\ i < Len(input)
                              /\ h[i] = input[i + 1]
    <2> SUFFICES ASSUME NEW i \in D \union K
                 PROVE  i \in first .. first + room - 1 /\ i < Len(input) /\ h[i] = input[i + 1]
      BY Zenon
    <2>1. CASE i \in K
      <3>1. i \in first .. first + room - 1 /\ i < Len(input)
        BY <1>1, <1>3, <2>1
      <3>2. h[i] = data[i - index + 1]
        BY <2>1
      <3>3. QED
        BY <1>4, <2>1, <3>1, <3>2, Zenon
    <2>2. CASE i \notin K
      <3>1. i \in D
        BY <2>2
      <3>2. h[i] = r.pending[i]
        BY <2>2
      <3>3. QED
        BY <1>d, <3>1, <3>2, Zenon
    <2>3. QED
      BY <2>1, <2>2
  <1>7. DOMAIN h = D \union K
    OBVIOUS
  <1> HIDE DEF h
  <1>8. QED
    BY <1>3, <1>5, <1>6, <1>7, <1>d, Zenon DEF K, D, r, data, first, room

\* what one push_substring() of an honest excerpt does to the state
LEMMA PushEffect ==
    ASSUME IInv, NEW last \in 0 .. Len(input), NEW index \in 0 .. last, NEW fin \in BOOLEAN,
           Push(index, last, fin)
    PROVE  LET r == reassembler
               q == reassembler'
               first == first_unassembled(r)
               next == first_unassembled(q)
               end == Len(received) + Capacity
           IN  /\ q \in ReassemblerType /\ q.capacity = Capacity /\ q.output.capacity = Capacity
               /\ next \in Nat /\ first <= next /\ next <= Len(input)
               /\ received \o q.output.buffer = SubSeq(input, 1, next)
               /\ Len(q.output.buffer) <= Capacity
               /\ q.output.bytes_read = r.output.bytes_read
               /\ \A i : i \in DOMAIN q.pending <=>
                      /\ i \in DOMAIN r.pending \/ (i \in first .. end - 1 /\ i \in index .. last - 1)
                      /\ i \notin first .. next - 1
               /\ \A i \in DOMAIN q.pending : /\ i \in next .. end - 1 /\ i < Len(input)
                                              /\ q.pending[i] = input[i + 1]
               /\ next \notin DOMAIN q.pending
               /\ q.unassembled_bytes = Cardinality(DOMAIN q.pending)
               /\ IsFiniteSet(DOMAIN q.pending)
               /\ q.eof = (r.eof \/ (fin /\ last <= end))
               /\ q.output.input_ended = (r.output.input_ended \/ (q.eof /\ q.unassembled_bytes = 0))
  <1> DEFINE r == reassembler
             q == reassembler'
             first == first_unassembled(r)
             room == remaining_capacity(r.output)
             end == Len(received) + Capacity
             data == SubSeq(input, index + 1, last)
             K == kept(r, data, index)
             held == merged(r, data, index)
             n == drained(DOMAIN held, first, room)
             ret == [ i \in 1 .. n |-> held[first + i - 1] ]
             written == write(r.output, ret)
             ended == r.eof \/ accepts_eof(r, data, index, fin)
             waiting == r.unassembled_bytes + fresh_bytes(r, data, index) - n
             left == DOMAIN held \ (first .. first + n - 1)
  <1>1. /\ q.output = (IF ended /\ waiting = 0 THEN end_input(written) ELSE written)
        /\ q.capacity = r.capacity /\ q.unassembled_bytes = waiting /\ q.eof = ended
        /\ q.pending = [ i \in left |-> held[i] ]
        /\ q = [ output |-> q.output, capacity |-> q.capacity, unassembled_bytes |-> q.unassembled_bytes,
                 eof |-> q.eof, pending |-> q.pending ]
    <2>1. q = push_substring(r, data, index, fin)
      BY Zenon DEF Push
    <2>2. q = [ output |-> IF ended /\ waiting = 0 THEN end_input(written) ELSE written,
                capacity |-> r.capacity, unassembled_bytes |-> waiting, eof |-> ended,
                pending |-> [ i \in left |-> held[i] ] ]
      BY <2>1, Zenon DEF push_substring
    <2> HIDE DEF ended, waiting, written, left, held, r
    <2>3. QED
      BY <2>2
  <1>2. /\ r.output \in ByteStreamType(Byte)
        /\ r.capacity = Capacity /\ r.output.capacity = Capacity /\ Capacity \in Nat
        /\ r.output.buffer \in Seq(Byte) /\ Len(r.output.buffer) \in Nat
        /\ first = r.output.bytes_written /\ first \in Nat
        /\ r.output.bytes_read = Len(received) /\ Len(received) \in Nat
        /\ first = Len(received) + Len(r.output.buffer)
        /\ room \in Nat /\ first + room = end
        /\ input \in Seq(Byte) /\ Len(input) \in Nat /\ first <= Len(input)
        /\ IsFiniteSet(DOMAIN r.pending) /\ DOMAIN r.pending \subseteq 0 .. Len(input) - 1
    BY Numbers
  <1>3. \A i \in DOMAIN r.pending : i \in first .. first + room - 1
    BY StoreFacts, Zenon
  <1>4. /\ \A i : i \in K <=> i \in first .. first + room - 1 /\ i \in index .. last - 1
        /\ DOMAIN held = DOMAIN r.pending \union K
        /\ \A i \in DOMAIN held : /\ i \in first .. first + room - 1 /\ i < Len(input)
                                  /\ held[i] = input[i + 1]
    BY StoreFacts, Zenon
  <1>5. /\ n \in 0 .. room /\ n \in Nat
        /\ \A i \in first .. first + n - 1 : i \in DOMAIN held
        /\ n < room => first + n \notin DOMAIN held
    BY <1>2, DrainedFacts
  <1>a. /\ first \in Nat /\ room \in Nat /\ n \in Nat /\ n <= room /\ Len(input) \in Nat
        /\ end \in Nat /\ first + room = end /\ first <= Len(input)
    BY <1>2, <1>5
  <1>6. first + n <= Len(input)
    <2> HIDE DEF n, first, room, held
    <2>1. CASE n = 0
      BY <1>2, <2>1
    <2>2. CASE n > 0
      <3>1. first + n - 1 \in first .. first + n - 1
        BY <1>2, <1>5, <2>2
      <3>2. first + n - 1 < Len(input)
        BY <1>4, <1>5, <3>1, Zenon
      <3>3. QED
        BY <1>2, <1>5, <3>2
    <2>3. QED
      BY <1>5, <2>1, <2>2
  <1>7. ret = SubSeq(input, first + 1, first + n) /\ ret \in Seq(Byte) /\ Len(ret) = n
    <2> HIDE DEF n, first, room, held
    <2>2. \A j \in 1 .. n : ret[j] = input[first + j]
      <3> SUFFICES ASSUME NEW j \in 1 .. n PROVE ret[j] = input[first + j]
        OBVIOUS
      <3>1. first + j - 1 \in first .. first + n - 1 /\ (first + j - 1) + 1 = first + j
        BY <1>2, <1>5
      <3>2. held[first + j - 1] = input[(first + j - 1) + 1]
        BY <1>4, <1>5, <3>1, Zenon
      <3>3. QED
        BY <3>1, <3>2
    <2>3. input \in Seq(Byte) /\ first \in Nat /\ n \in Nat
      BY <1>2, <1>5
    <2>4. ret \in [ 1 .. n -> Byte ]
      <3>1. \A j \in 1 .. n : first + j \in 1 .. Len(input)
        BY <1>a, <1>6, <2>3
      <3>2. \A j \in 1 .. n : ret[j] \in Byte
        BY <2>2, <2>3, <3>1, ElementOfSeq, Zenon
      <3>3. QED
        BY <3>2
    <2> HIDE DEF ret
    <2>5. QED
      BY <1>6, <2>2, <2>3, <2>4, RetFacts, Zenon
  <1>8. /\ written \in ByteStreamType(Byte) /\ written.buffer = r.output.buffer \o ret
        /\ written.bytes_written = first + n /\ written.bytes_read = r.output.bytes_read
        /\ written.capacity = Capacity /\ written.input_ended = r.output.input_ended
    <2> HIDE DEF n, ret, first, held
    <2>1. accepted_size(r.output, ret) = n
      <3>1. accepted_size(r.output, ret) = min(n, room)
        BY <1>7, Zenon DEF accepted_size
      <3> HIDE DEF room
      <3>2. min(n, room) = n
        BY <1>5 DEF min
      <3>3. QED
        BY <3>1, <3>2, Zenon
    <2>2. n \in 0 .. Len(ret) /\ SubSeq(ret, 1, n) = ret
      <3>1. SubSeq(ret, 1, Len(ret)) = ret
        BY <1>7, SubSeqFull
      <3>2. n \in Nat /\ Len(ret) = n
        BY <1>5, <1>7, Zenon
      <3>3. QED
        BY <3>1, <3>2
    <2>3. /\ written \in ByteStreamType(Byte) /\ written.buffer = r.output.buffer \o SubSeq(ret, 1, n)
          /\ written.bytes_written = r.output.bytes_written + n
          /\ written.bytes_read = r.output.bytes_read
          /\ written.capacity = r.output.capacity /\ written.input_ended = r.output.input_ended
      <3>1. ret \in Seq(Byte) /\ accepted_size(r.output, ret) \in 0 .. Len(ret)
        BY <1>7, <2>1, <2>2, Zenon
      <3>2. /\ written \in ByteStreamType(Byte)
            /\ written.buffer = r.output.buffer \o SubSeq(ret, 1, accepted_size(r.output, ret))
            /\ written.bytes_written = r.output.bytes_written + accepted_size(r.output, ret)
            /\ written.bytes_read = r.output.bytes_read
            /\ written.capacity = r.output.capacity /\ written.input_ended = r.output.input_ended
        BY <1>2, <3>1, WriteFields, Zenon
      <3>3. QED
        BY <2>1, <3>2, Zenon
    <2> HIDE DEF written, r
    <2>4. QED
      BY <1>2, <2>2, <2>3, Zenon
  <1>9. /\ q.output \in ByteStreamType(Byte) /\ q.output.buffer = written.buffer
        /\ q.output.bytes_written = written.bytes_written /\ q.output.bytes_read = written.bytes_read
        /\ q.output.capacity = written.capacity
        /\ q.output.input_ended = (written.input_ended \/ (ended /\ waiting = 0))
    <2> HIDE DEF written, ended, waiting, q
    <2>1. CASE ended /\ waiting = 0
      <3>1. q.output = end_input(written)
        BY <1>1, <2>1, Zenon
      <3>2. /\ q.output \in ByteStreamType(Byte) /\ q.output.buffer = written.buffer
            /\ q.output.bytes_written = written.bytes_written /\ q.output.bytes_read = written.bytes_read
            /\ q.output.capacity = written.capacity /\ q.output.input_ended = TRUE
        BY <1>8, <3>1, EndInputFields, Zenon
      <3>3. QED
        BY <2>1, <3>2, Zenon
    <2>2. CASE ~(ended /\ waiting = 0)
      <3>1. q.output = written
        BY <1>1, <2>2, Zenon
      <3>2. written.input_ended \in BOOLEAN
        BY <1>8 DEF ByteStreamType
      <3>3. QED
        BY <1>8, <2>2, <3>1, <3>2, Zenon
    <2>3. QED
      BY <2>1, <2>2
  <1> DEFINE next == first_unassembled(q)
  <1>10. /\ next = first + n /\ next \in Nat /\ first <= next /\ next <= Len(input)
         /\ q.capacity = Capacity /\ q.output.capacity = Capacity
         /\ q.output.bytes_read = r.output.bytes_read
         /\ q.output.buffer = r.output.buffer \o ret
    <2>1. next = first + n
      BY <1>8, <1>9, Zenon DEF first_unassembled
    <2>2. q.capacity = Capacity /\ q.output.capacity = Capacity
      BY <1>1, <1>2, <1>8, <1>9, Zenon
    <2>3. q.output.bytes_read = r.output.bytes_read /\ q.output.buffer = r.output.buffer \o ret
      BY <1>8, <1>9, Zenon
    <2> HIDE DEF n, first, next, room
    <2>4. next \in Nat /\ first <= next /\ next <= Len(input)
      BY <1>a, <1>6, <2>1
    <2>5. QED
      BY <2>1, <2>2, <2>3, <2>4
  <1>11. received \o q.output.buffer = SubSeq(input, 1, next) /\ Len(q.output.buffer) <= Capacity
    <2> DEFINE buffer == r.output.buffer
    <2>1. /\ received \in Seq(Byte) /\ received \o buffer = SubSeq(input, 1, first)
          /\ buffer \in Seq(Byte) /\ ret \in Seq(Byte) /\ input \in Seq(Byte)
      BY <1>2, <1>7 DEF IInv, TypeOK, Faithful
    <2>2. room = Capacity - Len(buffer) /\ Len(buffer) \in Nat /\ Capacity \in Nat
      BY <1>2, Zenon DEF remaining_capacity, buffer_size
    <2> HIDE DEF n, ret, first, next, q, r, room, buffer
    <2>3. (received \o buffer) \o ret = received \o (buffer \o ret)
      BY <2>1, BytesAssociative, Zenon
    <2>4. SubSeq(input, 1, first) \o SubSeq(input, first + 1, first + n) = SubSeq(input, 1, first + n)
      <3>1. 1 \in 1 .. Len(input) + 1 /\ first \in 1 - 1 .. Len(input) /\ first + n \in first .. Len(input)
        BY <1>a, <1>6
      <3>2. QED
        BY <2>1, <3>1, ConcatAdjacentSubSeq, Zenon
    <2>5. Len(buffer \o ret) = Len(buffer) + Len(ret)
      BY <2>1, ConcatProperties
    <2>6. Len(buffer) + n <= Capacity
      BY <1>a, <2>2
    <2>7. q.output.buffer = buffer \o ret
      BY <1>10 DEF buffer
    <2>8. QED
      BY <1>7, <1>10, <2>1, <2>3, <2>4, <2>5, <2>6, <2>7, Zenon
  <1>12. /\ DOMAIN q.pending = (DOMAIN r.pending \union K) \ (first .. first + n - 1)
         /\ \A i \in DOMAIN q.pending : q.pending[i] = held[i] /\ i \in DOMAIN held
    <2> HIDE DEF held, n, first, K, r, q
    <2>1. DOMAIN q.pending = left /\ \A i \in left : q.pending[i] = held[i]
      BY <1>1
    <2>2. QED
      BY <1>4, <2>1
  <1>13. \A i : i \in K <=> i \in first .. end - 1 /\ i \in index .. last - 1
    <2> HIDE DEF K, first, room, end
    <2>1. QED
      BY <1>4, <1>a
  <1>14. \A i : i \in DOMAIN q.pending <=>
             /\ i \in DOMAIN r.pending \/ (i \in first .. end - 1 /\ i \in index .. last - 1)
             /\ i \notin first .. next - 1
    <2> HIDE DEF K, first, end, n, next, r, q
    <2>1. first .. first + n - 1 = first .. next - 1
      BY <1>10, <1>a
    <2>2. QED
      BY <1>12, <1>13, <2>1, Zenon
  <1>15. \A i \in DOMAIN q.pending : /\ i \in next .. end - 1 /\ i < Len(input)
                                     /\ q.pending[i] = input[i + 1]
    <2> SUFFICES ASSUME NEW i \in DOMAIN q.pending
                 PROVE  i \in next .. end - 1 /\ i < Len(input) /\ q.pending[i] = input[i + 1]
      OBVIOUS
    <2> HIDE DEF held, first, room, end, n, next, r, q
    <2>1. i \in first .. first + room - 1 /\ i < Len(input) /\ q.pending[i] = input[i + 1]
      BY <1>4, <1>12, Zenon
    <2>2. i \notin first .. next - 1
      BY <1>14, Zenon
    <2>a. /\ i \in first .. first + room - 1 /\ i \notin first .. next - 1
          /\ first \in Nat /\ room \in Nat /\ next \in Nat /\ end = first + room
      BY <1>10, <1>a, <2>1, <2>2, Zenon
    <2>3. i \in next .. end - 1
      BY <2>a
    <2>4. QED
      BY <2>1, <2>3
  <1>16. next \notin DOMAIN q.pending
    <2> HIDE DEF held, first, room, end, n, next, r, q
    <2>1. CASE n < room
      BY <1>5, <1>10, <1>12, <2>1
    <2>2. CASE n = room
      <3>1. next = end
        BY <1>10, <1>a, <2>2
      <3>2. \A i \in DOMAIN q.pending : i # end
        BY <1>15, <1>a
      <3>3. QED
        BY <3>1, <3>2
    <2>3. QED
      BY <1>a, <2>1, <2>2
  <1>17. q.unassembled_bytes = Cardinality(DOMAIN q.pending) /\ IsFiniteSet(DOMAIN q.pending)
    <2>1. IsFiniteSet(K)
      <3>1. IsFiniteSet(first .. end - 1)
        BY <1>a, FS_Interval
      <3>2. K \in SUBSET (first .. end - 1)
        BY <1>13
      <3>3. QED
        BY <3>1, <3>2, FS_Subset, Zenon
    <2>2. first .. first + n - 1 \subseteq DOMAIN r.pending \union K
      BY <1>4, <1>5
    <2>3. r.unassembled_bytes = Cardinality(DOMAIN r.pending)
      BY DEF IInv, CountedOnce
    <2>4. waiting = r.unassembled_bytes + Cardinality(K \ DOMAIN r.pending) - n
      BY Zenon DEF fresh_bytes
    <2> DEFINE D == DOMAIN r.pending
    <2> HIDE DEF waiting, K, first, n, D
    <2>5. IsFiniteSet(D)
      BY <1>2 DEF D
    <2>6. /\ Cardinality((D \union K) \ (first .. first + n - 1)) =
                 Cardinality(D) + Cardinality(K \ D) - n
          /\ IsFiniteSet((D \union K) \ (first .. first + n - 1))
      BY <1>a, <2>1, <2>2, <2>5, CountHeld, Zenon DEF D
    <2> HIDE DEF r, q
    <2>7. QED
      BY <1>1, <1>12, <2>3, <2>4, <2>6, Zenon DEF D
  <1>18. q.eof = (r.eof \/ (fin /\ last <= end))
    <2>1. U64 \in Nat /\ last \in 0 .. U64 - 1
      <3>1. U64 \in Nat
        BY WAssumption DEF U64
      <3>2. last <= MaxWritten /\ MaxWritten < U64 /\ MaxWritten \in Nat
        BY <1>a, ReassemblerAssumption DEF IInv
      <3>3. QED
        BY <3>1, <3>2
    <2>2. index + Len(data) = last
      BY <1>2, SliceFacts
    <2>3. last % U64 = last
      <3> HIDE DEF U64
      <3>1. QED
        BY <2>1
    <2>4. r.output.bytes_read + r.capacity = end
      BY <1>2, Zenon
    <2>5. accepts_eof(r, data, index, fin) = (fin /\ last <= end)
      <3> HIDE DEF end, data, r
      <3>1. QED
        BY <2>2, <2>3, <2>4, Zenon DEF accepts_eof
    <2>6. QED
      BY <1>1, <2>5, Zenon
  <1>19. q.pending \in PendingType
    <2> HIDE DEF q
    <2>1. \A i \in DOMAIN q.pending : i \in 0 .. Len(input) - 1 /\ q.pending[i] \in Byte
      <3> SUFFICES ASSUME NEW i \in DOMAIN q.pending
                   PROVE  i \in 0 .. Len(input) - 1 /\ q.pending[i] \in Byte
        OBVIOUS
      <3>1. i \in next .. end - 1 /\ i < Len(input) /\ q.pending[i] = input[i + 1]
        BY <1>15
      <3> HIDE DEF next, end
      <3>2. i \in 0 .. Len(input) - 1 /\ i + 1 \in 1 .. Len(input)
        BY <1>10, <1>a, <3>1
      <3>3. input[i + 1] \in Byte
        BY <1>2, <3>2, ElementOfSeq
      <3>4. QED
        BY <3>1, <3>2, <3>3
    <2>2. q.pending = [ i \in DOMAIN q.pending |-> q.pending[i] ]
      <3> HIDE DEF left, held
      <3>1. QED
        BY <1>1
    <2>3. q.pending \in [ DOMAIN q.pending -> Byte ] /\ DOMAIN q.pending \in SUBSET (0 .. Len(input) - 1)
      BY <2>1, <2>2
    <2>4. QED
      BY <2>3, Zenon DEF PendingType
  <1>20. q \in ReassemblerType
    <2>1. q.eof \in BOOLEAN /\ q.capacity \in Nat /\ q.unassembled_bytes \in Nat
      <3>1. q.eof \in BOOLEAN
        BY <1>18
      <3>2. Cardinality(DOMAIN q.pending) \in Nat
        BY <1>17, FS_CardinalityType
      <3>3. QED
        BY <1>2, <1>10, <1>17, <3>1, <3>2
    <2> HIDE DEF q
    <2>2. QED
      BY <1>1, <1>9, <1>19, <2>1, Zenon DEF ReassemblerType
  <1>21. q.output.input_ended = (r.output.input_ended \/ (q.eof /\ q.unassembled_bytes = 0))
    <2> HIDE DEF ended, waiting, written, q, r
    <2>1. QED
      BY <1>1, <1>8, <1>9, Zenon
  <1>22. QED
    BY <1>10, <1>11, <1>14, <1>15, <1>16, <1>17, <1>18, <1>20, <1>21, Zenon

\* what one read() of the reassembled stream does to the state
LEMMA ReadEffect ==
    ASSUME IInv, NEW len \in Sizes, Read(len)
    PROVE  LET r == reassembler
               q == reassembler'
           IN  /\ q \in ReassemblerType
               /\ q.capacity = r.capacity /\ q.output.capacity = r.output.capacity
               /\ q.unassembled_bytes = r.unassembled_bytes /\ q.eof = r.eof /\ q.pending = r.pending
               /\ q.output.bytes_written = r.output.bytes_written
               /\ q.output.input_ended = r.output.input_ended
               /\ received' \in Seq(Byte) /\ received' \o q.output.buffer = received \o r.output.buffer
               /\ q.output.bytes_read = Len(received') /\ Len(received) <= Len(received')
               /\ Len(q.output.buffer) <= Len(r.output.buffer)
               /\ Len(r.output.buffer) = 0 => received' = received
               /\ Abstract!IsPrefix(received, received')
  <1> DEFINE r == reassembler
             q == reassembler'
             buffer == r.output.buffer
             size == available_output(r.output, len)
             front == SubSeq(buffer, 1, size)
             rest == SubSeq(buffer, size + 1, Len(buffer))
             popped == pop_output(r.output, len)
  <1>1. /\ r.output \in ByteStreamType(Byte) /\ buffer \in Seq(Byte) /\ Len(buffer) \in Nat
        /\ received \in Seq(Byte) /\ Len(received) \in Nat /\ r.output.bytes_read = Len(received)
    BY Numbers DEF IInv, TypeOK
  <1>2. size \in 0 .. Len(buffer) /\ (Len(buffer) = 0 => size = 0)
    <2>1. size = min(len, Len(buffer)) /\ len \in Nat
      BY ReassemblerAssumption, Zenon DEF available_output, buffer_size
    <2> HIDE DEF size, buffer
    <2>2. QED
      BY <1>1, <2>1 DEF min
  <1>3. /\ popped \in ByteStreamType(Byte) /\ popped.buffer = rest
        /\ popped.bytes_written = r.output.bytes_written
        /\ popped.bytes_read = r.output.bytes_read + size
        /\ popped.capacity = r.output.capacity /\ popped.input_ended = r.output.input_ended
    BY <1>1, <1>2, PopFields, ZenonT(30)
  <1>4. /\ front \in Seq(Byte) /\ Len(front) = size
        /\ rest \in Seq(Byte) /\ Len(rest) = Len(buffer) - size
        /\ buffer = front \o rest
    <2> HIDE DEF size, buffer
    <2>1. QED
      BY <1>1, <1>2, CutJoin, Zenon
  <1>5. received' = received \o front
    BY Zenon DEF Read, peek_output
  <1>6. /\ q \in ReassemblerType /\ q.output = popped
        /\ q.capacity = r.capacity /\ q.unassembled_bytes = r.unassembled_bytes
        /\ q.eof = r.eof /\ q.pending = r.pending
    <2>1. q = [ r EXCEPT !.output = popped ]
      BY Zenon DEF Read
    <2>2. r \in ReassemblerType
      BY DEF IInv, TypeOK
    <2> HIDE DEF popped, q, r
    <2>3. QED
      BY <1>3, <2>1, <2>2 DEF ReassemblerType
  <1> HIDE DEF size, front, rest, popped, buffer
  <1>7. received' \in Seq(Byte) /\ Len(received') = Len(received) + size
    BY <1>1, <1>4, <1>5, ConcatProperties, Zenon
  <1>8. received' \o rest = received \o buffer
    <2>1. (received \o front) \o rest = received \o (front \o rest)
      BY <1>1, <1>4, BytesAssociative, Zenon
    <2>2. QED
      BY <1>4, <1>5, <2>1, Zenon
  <1>9. Len(buffer) = 0 => received' = received
    <2> SUFFICES ASSUME Len(buffer) = 0 PROVE received' = received
      OBVIOUS
    <2>1. front = << >>
      BY <1>2, <1>4, EmptySeq
    <2>2. QED
      BY <1>1, <1>5, <2>1, ConcatEmptySeq
  <1>10. Abstract!IsPrefix(received, received')
    BY <1>1, <1>4, <1>5, PrefixOfConcat DEF Abstract!IsPrefix
  <1>11. Len(received) <= Len(received') /\ Len(rest) <= Len(buffer) /\ Len(received') = Len(received) + size
    BY <1>1, <1>2, <1>4, <1>7
  <1>12. q.output.bytes_read = Len(received')
    BY <1>1, <1>3, <1>6, <1>7, Zenon
  <1>13. QED
    BY <1>3, <1>6, <1>7, <1>8, <1>9, <1>10, <1>11, <1>12, Zenon DEF buffer

-----------------------------------------------------------------------------
LEMMA InitIInv == Init => IInv
  <1> SUFFICES ASSUME Init PROVE IInv
    OBVIOUS
  <1> DEFINE out == NewByteStream(Capacity)
  <1>1. << >> \in Seq(Byte) /\ Len(<< >>) = 0 /\ << >> \o << >> = << >> /\ SubSeq(<< >>, 1, 0) = << >>
    BY EmptySeq, ConcatEmptySeq, SubSeqEmpty
  <1>2. /\ out \in ByteStreamType(Byte) /\ out.capacity = Capacity /\ out.buffer = << >>
        /\ out.bytes_written = 0 /\ out.bytes_read = 0
    BY <1>1, ReassemblerAssumption DEF NewByteStream, ByteStreamType
  <1>3. /\ reassembler = [ output |-> out, capacity |-> Capacity, unassembled_bytes |-> 0,
                           eof |-> FALSE, pending |-> << >> ]
        /\ input = << >> /\ received = << >> /\ closed = FALSE /\ saw_eof = FALSE
    BY Zenon DEF Init, NewStreamReassembler
  <1> HIDE DEF out
  <1>4. << >> \in PendingType /\ DOMAIN << >> = {}
    <2>1. << >> \in [ {} -> Byte ] /\ {} \in SUBSET (0 .. Len(input) - 1)
      OBVIOUS
    <2>2. QED
      BY <2>1, Zenon DEF PendingType
  <1>5. /\ reassembler \in ReassemblerType /\ reassembler.capacity = Capacity
        /\ reassembler.output = out /\ reassembler.pending = << >> /\ reassembler.unassembled_bytes = 0
    BY <1>2, <1>3, <1>4, ReassemblerAssumption DEF ReassemblerType
  <1>6. TypeOK
    BY <1>1, <1>2, <1>3, <1>5, Zenon DEF TypeOK
  <1>7. Faithful /\ WithinCapacity /\ Eager
    <2>1. first_unassembled(reassembler) = 0
      BY <1>2, <1>5, Zenon DEF first_unassembled
    <2>2. reassembler.output.buffer = << >> /\ DOMAIN reassembler.pending = {}
      BY <1>2, <1>4, <1>5, Zenon
    <2>3. Faithful
      <3>1. first_unassembled(reassembler) <= Len(input)
        BY <1>1, <1>3, <2>1
      <3>2. received \o reassembler.output.buffer = SubSeq(input, 1, first_unassembled(reassembler))
        BY <1>1, <1>3, <2>1, <2>2, Zenon
      <3>3. \A i \in DOMAIN reassembler.pending : reassembler.pending[i] = input[i + 1]
        BY <2>2, Zenon
      <3>4. QED
        BY <3>1, <3>2, <3>3, Zenon DEF Faithful
    <2>4. WithinCapacity /\ Eager
      BY <1>1, <2>2, ReassemblerAssumption DEF WithinCapacity, Eager
    <2>5. QED
      BY <2>3, <2>4
  <1>8. CountedOnce
    BY <1>4, <1>5, FS_EmptySet DEF CountedOnce
  <1>9. QED
    BY <1>1, <1>2, <1>3, <1>5, <1>6, <1>7, <1>8, ReassemblerAssumption DEF IInv

\* the stream grows at its end: nothing that was assembled or held is disturbed
LEMMA ProduceIInv ==
    ASSUME IInv, NEW data \in Chunks, Produce(data)
    PROVE  IInv' /\ Abstract!IsPrefix(input, input')
  <1>1. input \in Seq(Byte) /\ data \in Seq(Byte) /\ Len(input) \in Nat /\ Len(data) \in Nat
    BY ReassemblerAssumption, LenProperties DEF IInv, TypeOK
  <1>2. /\ input' = input \o data /\ UNCHANGED <<reassembler, closed, received, saw_eof>>
        /\ Len(input) + Len(data) <= MaxWritten
    BY DEF Produce
  <1>3. /\ input' \in Seq(Byte) /\ Len(input') = Len(input) + Len(data)
        /\ \A i \in 1 .. Len(input) : input'[i] = input[i]
    BY <1>1, <1>2, ConcatProperties
  <1>4. PendingType \subseteq PendingType'
    <2>1. 0 .. Len(input) - 1 \subseteq 0 .. Len(input') - 1
      BY <1>1, <1>3
    <2>2. QED
      BY <2>1 DEF PendingType
  <1>5. TypeOK'
    <2>1. reassembler' \in ReassemblerType'
      <3>1. reassembler \in ReassemblerType
        BY DEF IInv, TypeOK
      <3>2. QED
        BY <1>2, <1>4, <3>1 DEF ReassemblerType
    <2>2. QED
      BY <1>2, <1>3, <2>1 DEF IInv, TypeOK
  <1>6. Faithful'
    <2> DEFINE first == first_unassembled(reassembler)
               D == DOMAIN reassembler.pending
    <2>1. first \in Nat /\ first <= Len(input) /\ D \subseteq 0 .. Len(input) - 1
      BY Numbers
    <2>2. first_unassembled(reassembler') = first
      BY <1>2 DEF first_unassembled
    <2> HIDE DEF first, D
    <2>3. SubSeq(input', 1, first) = SubSeq(input, 1, first)
      <3>1. CASE first = 0
        BY <3>1, SubSeqEmpty
      <3>2. CASE first # 0
        <4>1. 1 \in 1 .. Len(input) /\ first \in 1 .. Len(input)
          BY <1>1, <2>1, <3>2
        <4>2. QED
          BY <1>1, <1>2, <4>1, SubSeqOfConcat1
      <3>3. QED
        BY <3>1, <3>2, Zenon
    <2>4. \A i \in D : input'[i + 1] = input[i + 1]
      BY <1>1, <1>3, <2>1
    <2>5. \A i \in D : reassembler.pending[i] = input[i + 1]
      BY DEF D, IInv, Faithful
    <2>6. received \o reassembler.output.buffer = SubSeq(input, 1, first)
      BY Zenon DEF first, IInv, Faithful
    <2>7. first <= Len(input')
      BY <1>1, <1>3, <2>1
    <2>8. \A i \in DOMAIN reassembler'.pending : reassembler'.pending[i] = input'[i + 1]
      BY <1>2, <2>4, <2>5, Zenon DEF D
    <2>9. received' \o reassembler'.output.buffer = SubSeq(input', 1, first)
      BY <1>2, <2>3, <2>6, Zenon
    <2>10. QED
      BY <2>2, <2>7, <2>8, <2>9, Zenon DEF Faithful
  <1>7. WithinCapacity' /\ CountedOnce' /\ Eager'
    BY <1>2 DEF IInv, WithinCapacity, CountedOnce, Eager, first_unassembled
  <1>8. Abstract!IsPrefix(input, input')
    BY <1>1, <1>2, PrefixOfConcat DEF Abstract!IsPrefix
  <1>9. QED
    BY <1>2, <1>3, <1>5, <1>6, <1>7, <1>8 DEF IInv

LEMMA PushIInv ==
    ASSUME IInv, NEW last \in 0 .. Len(input), NEW index \in 0 .. last, NEW fin \in BOOLEAN,
           Push(index, last, fin)
    PROVE  IInv'
  <1> DEFINE r == reassembler
             q == reassembler'
             next == first_unassembled(q)
             end == Len(received) + Capacity
  <1>1. /\ q \in ReassemblerType /\ q.capacity = Capacity /\ q.output.capacity = Capacity
        /\ next \in Nat /\ next <= Len(input)
        /\ received \o q.output.buffer = SubSeq(input, 1, next)
        /\ Len(q.output.buffer) <= Capacity
        /\ q.output.bytes_read = r.output.bytes_read
        /\ \A i \in DOMAIN q.pending : /\ i \in next .. end - 1 /\ i < Len(input)
                                       /\ q.pending[i] = input[i + 1]
        /\ next \notin DOMAIN q.pending
        /\ q.unassembled_bytes = Cardinality(DOMAIN q.pending)
    BY PushEffect
  <1>2. input' = input /\ received' = received /\ closed' = closed /\ saw_eof' = saw_eof
    BY DEF Push
  <1>3. TypeOK'
    <2>1. ReassemblerType' = ReassemblerType
      BY <1>2 DEF ReassemblerType, PendingType
    <2>2. QED
      BY <1>1, <1>2, <2>1 DEF IInv, TypeOK
  <1>4. Faithful'
    BY <1>1, <1>2 DEF Faithful
  <1>5. end \in Nat /\ q.output.bytes_read + Capacity = end
    <2>1. Len(received) \in Nat /\ Capacity \in Nat /\ r.output.bytes_read = Len(received)
      BY Numbers
    <2>2. QED
      BY <1>1, <2>1
  <1>6. WithinCapacity'
    <2> HIDE DEF q, next, end
    <2>1. \A i \in DOMAIN q.pending : next <= i /\ i < end
      BY <1>1, <1>5
    <2>2. QED
      BY <1>1, <1>5, <2>1, Zenon DEF WithinCapacity, q, next
  <1>7. CountedOnce' /\ Eager'
    BY <1>1, Zenon DEF CountedOnce, Eager
  <1>8. QED
    BY <1>1, <1>2, <1>3, <1>4, <1>6, <1>7, Zenon DEF IInv

LEMMA ReadIInv ==
    ASSUME IInv, NEW len \in Sizes, Read(len)
    PROVE  IInv'
  <1> DEFINE r == reassembler
             q == reassembler'
             first == first_unassembled(r)
  <1>1. /\ q \in ReassemblerType
        /\ q.capacity = r.capacity /\ q.output.capacity = r.output.capacity
        /\ q.unassembled_bytes = r.unassembled_bytes /\ q.pending = r.pending
        /\ q.output.bytes_written = r.output.bytes_written
        /\ received' \in Seq(Byte) /\ received' \o q.output.buffer = received \o r.output.buffer
        /\ q.output.bytes_read = Len(received') /\ Len(received) <= Len(received')
        /\ Len(q.output.buffer) <= Len(r.output.buffer)
    BY ReadEffect
  <1>2. input' = input /\ closed' = closed /\ saw_eof' = saw_eof
    BY DEF Read
  <1>3. first_unassembled(q) = first
    BY <1>1, Zenon DEF first_unassembled
  <1>4. TypeOK'
    <2>1. ReassemblerType' = ReassemblerType
      BY <1>2 DEF ReassemblerType, PendingType
    <2>2. QED
      BY <1>1, <1>2, <2>1 DEF IInv, TypeOK
  <1>5. Faithful'
    <2>1. /\ first <= Len(input)
          /\ received \o r.output.buffer = SubSeq(input, 1, first)
          /\ \A i \in DOMAIN r.pending : r.pending[i] = input[i + 1]
      BY DEF IInv, Faithful
    <2> HIDE DEF q, r, first
    <2>2. QED
      BY <1>1, <1>2, <1>3, <2>1, Zenon DEF Faithful, q
  <1>6. WithinCapacity'
    <2> DEFINE D == DOMAIN r.pending
               buffer == r.output.buffer
               now == Len(received)
               later == Len(received')
    <2>1. /\ Len(buffer) <= Capacity
          /\ \A i \in D : first <= i /\ i < now + Capacity
      BY DEF IInv, WithinCapacity
    <2>2. /\ D \subseteq 0 .. Len(input) - 1 /\ Len(input) \in Nat
          /\ now \in Nat /\ Capacity \in Nat /\ Len(buffer) \in Nat /\ first \in Nat
      BY Numbers
    <2>3. later \in Nat /\ now <= later /\ q.output.buffer \in Seq(Byte)
      BY <1>1, LenProperties DEF ReassemblerType, ByteStreamType
    <2>4. \A i \in D : first <= i /\ i < later + Capacity
      <3> HIDE DEF D, now, later, first
      <3>1. QED
        BY <2>1, <2>2, <2>3
    <2>5. Len(q.output.buffer) <= Capacity
      <3>1. Len(q.output.buffer) \in Nat /\ Len(q.output.buffer) <= Len(buffer)
        BY <1>1, <2>3, LenProperties
      <3> HIDE DEF q, buffer
      <3>2. QED
        BY <2>1, <2>2, <3>1
    <2> HIDE DEF q, r, first
    <2>6. QED
      BY <1>1, <1>3, <2>4, <2>5, Zenon DEF WithinCapacity, q
  <1>7. CountedOnce' /\ Eager'
    BY <1>1, <1>3, Zenon DEF IInv, CountedOnce, Eager
  <1>8. QED
    BY <1>1, <1>2, <1>4, <1>5, <1>6, <1>7, Zenon DEF IInv

LEMMA NextIInv == IInv /\ [Next]_vars => IInv'
  <1> SUFFICES ASSUME IInv, [Next]_vars PROVE IInv'
    OBVIOUS
  <1>1. ASSUME NEW data \in Chunks, Produce(data) PROVE IInv'
    BY <1>1, ProduceIInv
  <1>2. CASE Close
    BY <1>2, Zenon DEF Close, IInv, TypeOK, ReassemblerType, PendingType, Faithful, WithinCapacity, CountedOnce, Eager
  <1>3. CASE PushAny
    BY <1>3, PushIInv DEF PushAny
  <1>4. ASSUME NEW len \in Sizes, Read(len) PROVE IInv'
    BY <1>4, ReadIInv
  <1>5. CASE SeeEof
    BY <1>5, Zenon DEF SeeEof, IInv, TypeOK, ReassemblerType, PendingType, Faithful, WithinCapacity, CountedOnce, Eager
  <1>6. CASE UNCHANGED vars
    BY <1>6, Zenon DEF vars, IInv, TypeOK, ReassemblerType, PendingType, Faithful, WithinCapacity, CountedOnce, Eager
  <1>7. QED
    BY <1>1, <1>2, <1>3, <1>4, <1>5, <1>6 DEF Next

LEMMA SpecIInv == Spec => []IInv
  BY InitIInv, NextIInv, PTL DEF Spec

\* For every capacity and every order, overlap and repetition of substrings, even with an eof substring
\* that overtakes data: what is assembled is a prefix of the stream (stream_reassembler.cc:26-71).
THEOREM SpecFaithful == Spec => []Faithful
  <1>1. IInv => Faithful
    BY DEF IInv
  <1>2. QED
    BY <1>1, SpecIInv, PTL

\* For every capacity, what is assembled and what is held back fits in it (stream_reassembler.cc:41-42).
THEOREM SpecWithinCapacity == Spec => []WithinCapacity
  <1>1. IInv => WithinCapacity
    BY DEF IInv
  <1>2. QED
    BY <1>1, SpecIInv, PTL

\* unassembled_bytes() counts each byte that is held back once (stream_reassembler.cc:44-47, :66).
THEOREM SpecCountedOnce == Spec => []CountedOnce
  <1>1. IInv => CountedOnce
    BY DEF IInv
  <1>2. QED
    BY <1>1, SpecIInv, PTL

\* The next byte of the stream is never held back (stream_reassembler.cc:53-62).
THEOREM SpecEager == Spec => []Eager
  <1>1. IInv => Eager
    BY DEF IInv
  <1>2. QED
    BY <1>1, SpecIInv, PTL

-----------------------------------------------------------------------------
\* what makes the end of the stream right when no empty eof substring overtakes data: the last byte is
\* held or assembled before the eof flag is believed
EofInv ==
    /\ reassembler.eof => /\ closed
                          /\ \/ first_unassembled(reassembler) = Len(input)
                             \/ Len(input) - 1 \in DOMAIN reassembler.pending
    /\ EndsComplete
    /\ saw_eof => reassembler.output.input_ended /\ received = input

LEMMA PushEofInv ==
    ASSUME IInv, EofInv, ~EarlyEof,
           NEW last \in 0 .. Len(input), NEW index \in 0 .. last, NEW fin \in BOOLEAN,
           Push(index, last, fin)
    PROVE  EofInv'
  <1> DEFINE r == reassembler
             q == reassembler'
             first == first_unassembled(r)
             next == first_unassembled(q)
             end == Len(received) + Capacity
             D == DOMAIN r.pending
             E == DOMAIN q.pending
             total == Len(input)
  <1>1. /\ next \in Nat /\ first <= next /\ next <= total
        /\ \A i : i \in E <=> /\ i \in D \/ (i \in first .. end - 1 /\ i \in index .. last - 1)
                              /\ i \notin first .. next - 1
        /\ \A i \in E : i \in next .. end - 1 /\ i < total
        /\ q.unassembled_bytes = Cardinality(E) /\ IsFiniteSet(E)
        /\ q.eof = (r.eof \/ (fin /\ last <= end))
        /\ q.output.input_ended = (r.output.input_ended \/ (q.eof /\ q.unassembled_bytes = 0))
    BY PushEffect
  <1>2. /\ input' = input /\ received' = received /\ closed' = closed /\ saw_eof' = saw_eof
        /\ fin => closed /\ last = total
        /\ fin /\ index = last => first = last
    BY DEF Push
  <1>3. first \in Nat /\ end \in Nat /\ total \in Nat
    BY Numbers
  <1>4. /\ r.eof => closed /\ (first = total \/ total - 1 \in D)
        /\ r.output.input_ended <=> r.eof /\ closed /\ first = total
        /\ saw_eof => r.output.input_ended /\ received = input
    BY DEF EofInv, EndsComplete
  <1>5. r.eof \in BOOLEAN /\ closed \in BOOLEAN /\ r.output.input_ended \in BOOLEAN
    BY DEF IInv, TypeOK, ReassemblerType, ByteStreamType
  <1>6. q.unassembled_bytes = 0 <=> E = {}
    BY <1>1, FS_EmptySet
  <1> HIDE DEF r, q, first, next, end, D, E, total
  <1>7. first = total => next = total
    BY <1>1, <1>3
  <1>8. total - 1 \in D /\ first # total => next = total \/ total - 1 \in E
    BY <1>1, <1>3
  <1>9. fin /\ last <= end => next = total \/ total - 1 \in E
    <2> SUFFICES ASSUME fin, last <= end PROVE next = total \/ total - 1 \in E
      OBVIOUS
    <2>1. last = total
      BY <1>2
    <2>2. CASE index = last
      BY <1>2, <1>7, <2>1, <2>2
    <2>3. CASE index # last
      <3>1. total - 1 \in index .. last - 1 /\ total > 0
        BY <1>3, <2>1, <2>3
      <3>2. CASE total - 1 \in first .. next - 1
        BY <1>1, <1>3, <3>2
      <3>3. CASE total - 1 \notin first .. next - 1 /\ total - 1 >= first
        BY <1>1, <1>3, <2>1, <3>1, <3>3
      <3>4. CASE total - 1 < first
        BY <1>1, <1>3, <3>4
      <3>5. QED
        BY <1>3, <3>2, <3>3, <3>4
    <2>4. QED
      BY <2>2, <2>3
  <1>10. q.eof => closed /\ (next = total \/ total - 1 \in E)
    BY <1>1, <1>2, <1>4, <1>5, <1>7, <1>8, <1>9, Zenon
  <1>11. next = total => E = {}
    BY <1>1, <1>3
  <1>12. E = {} /\ q.eof => next = total
    BY <1>10, Zenon
  <1>13. q.output.input_ended <=> q.eof /\ closed /\ next = total
    BY <1>1, <1>4, <1>5, <1>6, <1>7, <1>10, <1>11, <1>12, Zenon
  <1>14. saw_eof => q.output.input_ended
    BY <1>1, <1>4, Zenon
  <1>15. QED
    BY <1>2, <1>4, <1>10, <1>13, <1>14, Zenon DEF EofInv, EndsComplete, q, next, E, total

LEMMA NextEofInv ==
    ASSUME IInv, EofInv, ~EarlyEof, [Next]_vars
    PROVE  EofInv'
  <1>t. /\ reassembler.eof \in BOOLEAN /\ closed \in BOOLEAN /\ saw_eof \in BOOLEAN
        /\ reassembler.output.input_ended \in BOOLEAN
    BY DEF IInv, TypeOK, ReassemblerType, ByteStreamType
  <1>1. ASSUME NEW data \in Chunks, Produce(data) PROVE EofInv'
    <2>1. ~closed /\ closed' = closed /\ reassembler' = reassembler /\ saw_eof' = saw_eof
      BY <1>1 DEF Produce
    <2>2. ~reassembler.eof /\ ~reassembler.output.input_ended /\ ~saw_eof
      BY <2>1, Zenon DEF EofInv, EndsComplete
    <2>3. QED
      BY <2>1, <2>2, Zenon DEF EofInv, EndsComplete
  <1>2. CASE Close
    <2>1. /\ closed' = TRUE /\ reassembler' = reassembler /\ input' = input
          /\ received' = received /\ saw_eof' = saw_eof
      BY <1>2 DEF Close
    <2>2. QED
      BY <2>1, Zenon DEF EofInv, EndsComplete
  <1>3. CASE PushAny
    BY <1>3, PushEofInv DEF PushAny
  <1>4. ASSUME NEW len \in Sizes, Read(len) PROVE EofInv'
    <2> DEFINE r == reassembler
               q == reassembler'
    <2>1. /\ q.eof = r.eof /\ q.pending = r.pending /\ first_unassembled(q) = first_unassembled(r)
          /\ q.output.input_ended = r.output.input_ended
          /\ Len(r.output.buffer) = 0 => received' = received
      BY <1>4, ReadEffect DEF first_unassembled
    <2>2. input' = input /\ closed' = closed /\ saw_eof' = saw_eof
      BY <1>4 DEF Read
    <2>3. saw_eof => received' = received
      <3> SUFFICES ASSUME saw_eof PROVE received' = received
        OBVIOUS
      <3>1. received = input /\ first_unassembled(r) = Len(input)
        BY DEF EofInv, EndsComplete
      <3>2. /\ first_unassembled(r) = Len(received) + Len(r.output.buffer)
            /\ Len(received) \in Nat /\ Len(r.output.buffer) \in Nat
        BY Numbers
      <3>3. Len(r.output.buffer) = 0
        <4> DEFINE a == Len(received)
                   b == Len(r.output.buffer)
        <4>1. a = a + b /\ a \in Nat /\ b \in Nat
          BY <3>1, <3>2, Zenon
        <4> HIDE DEF a, b
        <4>2. b = 0
          BY <4>1
        <4>3. QED
          BY <4>2 DEF b
      <3>4. QED
        BY <2>1, <3>3
    <2> HIDE DEF r, q
    <2>4. QED
      BY <2>1, <2>2, <2>3, Zenon DEF EofInv, EndsComplete, r, q
  <1>5. CASE SeeEof
    <2>1. /\ closed' = closed /\ reassembler' = reassembler /\ input' = input /\ received' = received
          /\ reassembler.output.input_ended /\ Len(reassembler.output.buffer) = 0
      BY <1>5 DEF SeeEof, eof, buffer_size
    <2>2. received = input
      <3>1. first_unassembled(reassembler) = Len(input)
        BY <2>1, Zenon DEF EofInv, EndsComplete
      <3>2. /\ received \o reassembler.output.buffer = SubSeq(input, 1, first_unassembled(reassembler))
            /\ received \in Seq(Byte) /\ input \in Seq(Byte) /\ reassembler.output.buffer \in Seq(Byte)
        BY Numbers DEF IInv, Faithful, TypeOK
      <3>3. reassembler.output.buffer = << >>
        BY <2>1, <3>2, EmptySeq
      <3>4. received \o << >> = received /\ SubSeq(input, 1, Len(input)) = input
        BY <3>2, ConcatEmptySeq, SubSeqFull
      <3>5. QED
        BY <3>1, <3>2, <3>3, <3>4, Zenon
    <2>3. QED
      BY <2>1, <2>2, Zenon DEF EofInv, EndsComplete
  <1>6. CASE UNCHANGED vars
    BY <1>6, Zenon DEF vars, EofInv, EndsComplete
  <1>7. QED
    BY <1>1, <1>2, <1>3, <1>4, <1>5, <1>6 DEF Next

\* the end of the output is the eof flag with nothing held back, which is how the receiver decides it
LEMMA EndedWhenEmpty ==
    ASSUME IInv, EofInv
    PROVE  reassembler.output.input_ended <=> reassembler.eof /\ empty(reassembler)
  <1> DEFINE D == DOMAIN reassembler.pending
             first == first_unassembled(reassembler)
             total == Len(input)
  <1>1. first \in Nat /\ total \in Nat /\ IsFiniteSet(D) /\ D \subseteq 0 .. total - 1
    BY Numbers
  <1>2. \A i \in D : first <= i
    BY DEF IInv, WithinCapacity
  <1>3. empty(reassembler) <=> D = {}
    BY <1>1, FS_EmptySet DEF IInv, CountedOnce, empty
  <1>4. /\ reassembler.eof => closed /\ (first = total \/ total - 1 \in D)
        /\ reassembler.output.input_ended <=> reassembler.eof /\ closed /\ first = total
    BY DEF EofInv, EndsComplete
  <1>5. reassembler.eof \in BOOLEAN /\ closed \in BOOLEAN /\ reassembler.output.input_ended \in BOOLEAN
    BY DEF IInv, TypeOK, ReassemblerType, ByteStreamType
  <1> HIDE DEF D, first, total
  <1>6. first = total => D = {}
    BY <1>1, <1>2
  <1>7. QED
    BY <1>3, <1>4, <1>5, <1>6, Zenon

\* For every capacity: unless an empty eof substring overtakes data, the output is ended exactly when
\* the whole stream has been assembled (stream_reassembler.cc:31-32, :69-70).
THEOREM SpecEndsComplete == ~EarlyEof => (Spec => []EndsComplete)
  <1> SUFFICES ASSUME ~EarlyEof PROVE Spec => []EndsComplete
    OBVIOUS
  <1>1. Init => EofInv
    <2> SUFFICES ASSUME Init PROVE EofInv
      OBVIOUS
    <2>1. /\ reassembler.eof = FALSE /\ reassembler.output.input_ended = FALSE /\ saw_eof = FALSE
      BY DEF Init, NewStreamReassembler, NewByteStream
    <2>2. QED
      BY <2>1, Zenon DEF EofInv, EndsComplete
  <1>2. IInv /\ EofInv /\ [Next]_vars => EofInv'
    BY NextEofInv
  <1>3. EofInv => EndsComplete
    BY DEF EofInv
  <1>4. QED
    BY <1>1, <1>2, <1>3, SpecIInv, PTL DEF Spec

\* For every capacity, however small: unless an empty eof substring overtakes data, the reassembler
\* turns substrings in any order into a reliable stream (stream_reassembler.cc:26-71).
THEOREM SpecImplementsReliableStream == ~EarlyEof => (Spec => ImplementsReliableStream)
  <1> SUFFICES ASSUME ~EarlyEof PROVE Spec => ImplementsReliableStream
    OBVIOUS
  <1>1. Init => Abstract!Init
    BY DEF Init, Abstract!Init
  <1>2. Init => EofInv
    <2> SUFFICES ASSUME Init PROVE EofInv
      OBVIOUS
    <2>1. /\ reassembler.eof = FALSE /\ reassembler.output.input_ended = FALSE /\ saw_eof = FALSE
      BY DEF Init, NewStreamReassembler, NewByteStream
    <2>2. QED
      BY <2>1, Zenon DEF EofInv, EndsComplete
  <1>3. IInv /\ EofInv /\ [Next]_vars => EofInv'
    BY NextEofInv
  <1>4. IInv /\ IInv' /\ EofInv /\ EofInv' /\ [Next]_vars => [Abstract!Next]_(Abstract!vars)
    <2> SUFFICES ASSUME IInv, IInv', EofInv, EofInv', [Next]_vars
                 PROVE  Abstract!Next \/ UNCHANGED Abstract!vars
      OBVIOUS
    <2>1. ASSUME NEW data \in Chunks, Produce(data) PROVE Abstract!Accept
      <3>1. Abstract!IsPrefix(input, input') /\ input' \in Seq(Byte)
        BY <2>1, ProduceIInv DEF IInv, TypeOK
      <3>2. QED
        BY <2>1, <3>1, Zenon DEF Produce, Abstract!Accept
    <2>2. CASE Close
      BY <2>2, Zenon DEF Close, Abstract!Close, Abstract!Next
    <2>3. CASE PushAny
      BY <2>3 DEF PushAny, Push, Abstract!vars
    <2>4. ASSUME NEW len \in Sizes, Read(len) PROVE Abstract!Deliver \/ UNCHANGED Abstract!vars
      <3>1. input' = input /\ closed' = closed /\ saw_eof' = saw_eof /\ saw_eof \in BOOLEAN
        BY <2>4 DEF Read, IInv, TypeOK
      <3>2. CASE saw_eof
        <4>1. received' = received
          BY <3>1, <3>2, Zenon DEF EofInv
        <4>2. QED
          BY <3>1, <4>1 DEF Abstract!vars
      <3>3. CASE ~saw_eof
        <4>1. Abstract!IsPrefix(received, received')
          BY <2>4, ReadEffect
        <4>2. Abstract!IsPrefix(received', input)
          <5> DEFINE buffer == reassembler'.output.buffer
                     first == first_unassembled(reassembler')
          <5>1. /\ received' \o buffer = SubSeq(input, 1, first) /\ first \in 0 .. Len(input)
                /\ received' \in Seq(Byte) /\ buffer \in Seq(Byte) /\ input \in Seq(Byte)
            <6>1. /\ received' \in Seq(Byte) /\ reassembler' \in ReassemblerType'
                  /\ received' \o buffer = SubSeq(input', 1, first) /\ first <= Len(input')
              BY DEF IInv, TypeOK, Faithful
            <6>2. buffer \in Seq(Byte) /\ first \in Nat
              BY <6>1 DEF ReassemblerType, ByteStreamType, first_unassembled
            <6>3. input \in Seq(Byte) /\ Len(input) \in Nat
              BY LenProperties DEF IInv, TypeOK
            <6> HIDE DEF buffer, first
            <6>4. QED
              BY <3>1, <6>1, <6>2, <6>3
          <5> HIDE DEF buffer, first
          <5>2. input = SubSeq(input, 1, first) \o SubSeq(input, first + 1, Len(input))
                /\ SubSeq(input, first + 1, Len(input)) \in Seq(Byte)
            BY <5>1, CutJoin, Zenon
          <5>3. input = (received' \o buffer) \o SubSeq(input, first + 1, Len(input))
            BY <5>1, <5>2, Zenon
          <5>4. QED
            BY <5>1, <5>2, <5>3, PrefixOfTwo, Zenon
        <4>3. QED
          BY <3>1, <3>3, <4>1, <4>2, Zenon DEF Abstract!Deliver
      <3>4. QED
        BY <3>2, <3>3
    <2>5. CASE SeeEof
      <3>1. /\ closed' = closed /\ input' = input /\ received' = received /\ saw_eof' = TRUE
        BY <2>5 DEF SeeEof
      <3>2. received = input /\ closed
        BY <3>1, Zenon DEF EofInv, EndsComplete
      <3>3. Abstract!IsPrefix(received, received)
        <4>1. Len(received) \in Nat
          BY LenProperties DEF IInv, TypeOK
        <4>2. QED
          BY <4>1 DEF Abstract!IsPrefix
      <3>4. QED
        BY <3>1, <3>2, <3>3, Zenon DEF Abstract!Deliver, Abstract!Next, Abstract!vars
    <2>6. CASE UNCHANGED vars
      BY <2>6 DEF vars, Abstract!vars
    <2>7. QED
      BY <2>1, <2>2, <2>3, <2>4, <2>5, <2>6 DEF Next, Abstract!Next
  <1>5. QED
    BY <1>1, <1>2, <1>3, <1>4, SpecIInv, PTL DEF Spec, ImplementsReliableStream, Abstract!Spec
=============================================================================
