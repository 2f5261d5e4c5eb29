-------------------------- MODULE ByteStreamProofs --------------------------
(***************************************************************************)
(* For every capacity, alphabet and bound: a ByteStream is a FIFO within   *)
(* its capacity and implements ReliableStream.                             *)
(***************************************************************************)
EXTENDS ByteStreamSpec, StreamLemmas

\* the conjunction is inductive: counters, contents and histories agree
IInv == TypeOK /\ Fifo /\ WithinCapacity

LEMMA BytesAssociative ==
    ASSUME NEW s \in Seq(Byte), NEW t \in Seq(Byte), NEW u \in Seq(Byte)
    PROVE  (s \o t) \o u = s \o (t \o u)
  BY ConcatAssociative

LEMMA InitIInv == Init => IInv
  <1> SUFFICES ASSUME Init PROVE IInv
    OBVIOUS
  <1>1. << >> \in Seq(Byte) /\ Len(<< >>) = 0 /\ << >> \o << >> = << >>
    BY EmptySeq, ConcatEmptySeq
  <1>2. TypeOK
    BY <1>1, StreamAssumption, Zenon DEF Init, TypeOK, NewByteStream, ByteStreamType
  <1>3. Fifo /\ WithinCapacity
    BY <1>1, StreamAssumption DEF Init, Fifo, WithinCapacity, NewByteStream
  <1>4. QED
    BY <1>2, <1>3 DEF IInv

LEMMA WriteIInv ==
    ASSUME IInv, NEW data \in Chunks, Write(data)
    PROVE  /\ IInv'
           /\ Abstract!IsPrefix(accepted, accepted')
           /\ stream'.input_ended = stream.input_ended
  <1> DEFINE size == accepted_size(stream, data)
             taken == SubSeq(data, 1, size)
  <1>1. /\ data \in Seq(Byte) /\ Len(data) \in Nat
        /\ stream \in ByteStreamType(Byte)
        /\ stream.buffer \in Seq(Byte) /\ Len(stream.buffer) \in Nat
        /\ stream.capacity = Capacity /\ Capacity \in Nat
        /\ stream.bytes_written \in Nat /\ stream.bytes_read \in Nat
        /\ accepted \in Seq(Byte) /\ received \in Seq(Byte)
    BY StreamAssumption, LenProperties DEF IInv, TypeOK, ByteStreamType
  <1>2. size \in 0 .. Len(data) /\ size \in Nat /\ Len(stream.buffer) + size <= Capacity
    <2>1. Len(stream.buffer) <= Capacity
      BY DEF IInv, WithinCapacity
    <2>2. size = min(Len(data), Capacity - Len(stream.buffer))
      BY <1>1, Zenon DEF accepted_size, remaining_capacity, buffer_size
    <2>3. LET m == min(Len(data), Capacity - Len(stream.buffer))
          IN  m \in 0 .. Len(data) /\ m \in Nat /\ Len(stream.buffer) + m <= Capacity
      BY <1>1, <2>1, MinRoom, Zenon
    <2> HIDE DEF size
    <2>4. QED
      BY <2>2, <2>3, Zenon
  <1>3. taken \in Seq(Byte) /\ Len(taken) = size
    BY <1>1, <1>2, CutJoin
  <1>4. /\ accepted' = accepted \o taken
        /\ received' = received /\ saw_eof' = saw_eof
        /\ stream' = write(stream, data)
    BY DEF Write
  <1>5. /\ stream' \in ByteStreamType(Byte)
        /\ stream'.buffer = stream.buffer \o taken
        /\ stream'.bytes_written = stream.bytes_written + size
        /\ stream'.bytes_read = stream.bytes_read
        /\ stream'.capacity = stream.capacity
        /\ stream'.input_ended = stream.input_ended
    BY <1>1, <1>2, <1>3, <1>4, WriteFields, Zenon
  <1> HIDE DEF size, taken
  <1>6. Len(stream'.buffer) = Len(stream.buffer) + size
    <2>1. Len(stream.buffer \o taken) = Len(stream.buffer) + Len(taken)
      BY <1>1, <1>3, ConcatProperties, Zenon
    <2>2. QED
      BY <1>3, <1>5, <2>1, Zenon
  <1>7. accepted' \in Seq(Byte) /\ Len(accepted') = Len(accepted) + size
    BY <1>1, <1>3, <1>4, ConcatProperties, Zenon
  <1>8. TypeOK'
    BY <1>1, <1>4, <1>5, <1>7 DEF IInv, TypeOK
  <1>9. accepted' = received' \o stream'.buffer
    <2>1. (received \o stream.buffer) \o taken = received \o (stream.buffer \o taken)
      BY <1>1, <1>3, BytesAssociative, Zenon
    <2>2. QED
      BY <1>4, <1>5, <2>1, Zenon DEF IInv, Fifo
  <1>10. Fifo'
    BY <1>4, <1>5, <1>7, <1>9 DEF IInv, Fifo
  <1>11. WithinCapacity'
    BY <1>2, <1>6 DEF WithinCapacity
  <1>12. QED
    BY <1>1, <1>3, <1>4, <1>5, <1>8, <1>10, <1>11, PrefixOfConcat DEF IInv, Abstract!IsPrefix

LEMMA ReadIInv ==
    ASSUME IInv, NEW len \in Sizes, Read(len)
    PROVE  /\ IInv'
           /\ Abstract!IsPrefix(received, received')
           /\ Abstract!IsPrefix(received', accepted)
           /\ stream'.input_ended = stream.input_ended
  <1> DEFINE size == available_output(stream, len)
             front == SubSeq(stream.buffer, 1, size)
             rest == SubSeq(stream.buffer, size + 1, Len(stream.buffer))
  <1>1. /\ len \in Nat /\ Capacity \in Nat
        /\ stream \in ByteStreamType(Byte)
        /\ stream.buffer \in Seq(Byte) /\ Len(stream.buffer) \in Nat
        /\ stream.bytes_written \in Nat /\ stream.bytes_read \in Nat
        /\ accepted \in Seq(Byte) /\ received \in Seq(Byte)
    BY StreamAssumption, LenProperties DEF IInv, TypeOK, ByteStreamType
  <1>2. size \in 0 .. Len(stream.buffer)
    BY <1>1 DEF available_output, min, buffer_size
  <1>3. /\ front \in Seq(Byte) /\ Len(front) = size
        /\ rest \in Seq(Byte) /\ Len(rest) = Len(stream.buffer) - size
        /\ stream.buffer = front \o rest
    BY <1>1, <1>2, CutJoin, Zenon
  <1>4. /\ received' = received \o front
        /\ accepted' = accepted /\ saw_eof' = saw_eof
        /\ stream' = pop_output(stream, len)
    BY DEF Read, peek_output
  <1>5. /\ stream' \in ByteStreamType(Byte)
        /\ stream'.buffer = rest
        /\ stream'.bytes_written = stream.bytes_written
        /\ stream'.bytes_read = stream.bytes_read + size
        /\ stream'.capacity = stream.capacity
        /\ stream'.input_ended = stream.input_ended
    BY <1>1, <1>2, <1>4, PopFields, Zenon
  <1> HIDE DEF size, front, rest
  <1>6. received' \in Seq(Byte) /\ Len(received') = Len(received) + size
    BY <1>1, <1>3, <1>4, ConcatProperties, Zenon
  <1>7. accepted = received \o (front \o rest)
    BY <1>3 DEF IInv, Fifo
  <1>8. accepted = received' \o rest
    <2>1. (received \o front) \o rest = received \o (front \o rest)
      BY <1>1, <1>3, BytesAssociative, Zenon
    <2>2. QED
      BY <1>4, <1>7, <2>1, Zenon
  <1>9. TypeOK'
    BY <1>4, <1>5, <1>6 DEF IInv, TypeOK
  <1>10. Fifo'
    BY <1>4, <1>5, <1>6, <1>8 DEF IInv, Fifo
  <1>11. WithinCapacity'
    BY <1>1, <1>2, <1>3, <1>5 DEF IInv, WithinCapacity
  <1>12. Abstract!IsPrefix(received, received') /\ Abstract!IsPrefix(received', accepted)
    BY <1>1, <1>3, <1>4, <1>6, <1>8, PrefixOfConcat, Zenon DEF Abstract!IsPrefix
  <1>13. QED
    BY <1>5, <1>9, <1>10, <1>11, <1>12 DEF IInv

LEMMA NextIInv == IInv /\ [Next]_vars => IInv'
  <1> SUFFICES ASSUME IInv, [Next]_vars PROVE IInv'
    OBVIOUS
  <1>1. ASSUME NEW data \in Chunks, Write(data) PROVE IInv'
    BY <1>1, WriteIInv
  <1>2. ASSUME NEW len \in Sizes, Read(len) PROVE IInv'
    BY <1>2, ReadIInv
  <1>3. CASE EndInput
    BY <1>3, Zenon DEF EndInput, end_input, IInv, TypeOK, Fifo, WithinCapacity, ByteStreamType
  <1>4. CASE SetError
    BY <1>4, Zenon DEF SetError, set_error, IInv, TypeOK, Fifo, WithinCapacity, ByteStreamType
  <1>5. CASE SeeEof
    BY <1>5 DEF SeeEof, IInv, TypeOK, Fifo, WithinCapacity
  <1>6. CASE UNCHANGED vars
    BY <1>6 DEF vars, IInv, TypeOK, Fifo, WithinCapacity
  <1>7. QED
    BY <1>1, <1>2, <1>3, <1>4, <1>5, <1>6 DEF Next

LEMMA SpecIInv == Spec => []IInv
  BY InitIInv, NextIInv, PTL DEF Spec

-----------------------------------------------------------------------------
\* For every capacity and every sequence of writes and reads, what was read followed by what is
\* buffered is what was accepted, and the byte counters agree (byte_stream.cc:19-50).
THEOREM SpecFifo == Spec => []Fifo
  <1>1. IInv => Fifo
    BY DEF IInv
  <1>2. QED
    BY <1>1, SpecIInv, PTL

\* For every capacity, the buffer stays within it (byte_stream.cc:29-34).
THEOREM SpecWithinCapacity == Spec => []WithinCapacity
  <1>1. IInv => WithinCapacity
    BY DEF IInv
  <1>2. QED
    BY <1>1, SpecIInv, PTL

\* what the reader relies on once it has seen eof(), as long as nobody writes after end_input()
EofInv == saw_eof => stream.input_ended /\ stream.buffer = << >>

\* a read of an empty buffer changes nothing
LEMMA EmptyRead ==
    ASSUME IInv, stream.buffer = << >>, NEW len \in Sizes, Read(len)
    PROVE  received' = received /\ stream'.buffer = << >>
  <1>1. available_output(stream, len) = 0 /\ Len(stream.buffer) = 0
    BY StreamAssumption, EmptySeq DEF available_output, buffer_size, min
  <1>2. peek_output(stream, len) = << >>
    BY <1>1, SubSeqEmpty DEF peek_output, IInv, TypeOK, ByteStreamType
  <1>3. received' = received
    BY <1>2, ConcatEmptySeq DEF Read, IInv, TypeOK
  <1>4. accepted = received /\ accepted' = received' \o stream'.buffer /\ accepted' = accepted
    <2>1. Fifo'
      BY ReadIInv DEF IInv
    <2>2. QED
      BY <2>1, ConcatEmptySeq, Zenon DEF IInv, Fifo, Read, TypeOK
  <1>5. Len(stream'.buffer) = 0 /\ stream'.buffer \in Seq(Byte)
    <2>1. stream'.buffer \in Seq(Byte) /\ received \in Seq(Byte)
      BY ReadIInv DEF IInv, TypeOK, ByteStreamType
    <2>2. Len(received \o stream'.buffer) = Len(received) + Len(stream'.buffer)
      BY <2>1, ConcatProperties
    <2>3. QED
      BY <1>3, <1>4, <2>1, <2>2, LenProperties
  <1>6. QED
    BY <1>3, <1>5, EmptySeq

LEMMA NextEofInv == IInv /\ ~WriteAfterEnd /\ EofInv /\ [Next]_vars => EofInv'
  <1> SUFFICES ASSUME IInv, ~WriteAfterEnd, EofInv, [Next]_vars PROVE EofInv'
    OBVIOUS
  <1>1. ASSUME NEW data \in Chunks, Write(data) PROVE EofInv'
    BY <1>1, Zenon DEF Write, EofInv
  <1>2. ASSUME NEW len \in Sizes, Read(len) PROVE EofInv'
    <2>1. stream'.input_ended = stream.input_ended /\ saw_eof' = saw_eof
      BY <1>2, ReadIInv DEF Read
    <2>2. stream.buffer = << >> => stream'.buffer = << >>
      BY <1>2, EmptyRead
    <2>3. QED
      BY <2>1, <2>2, Zenon DEF EofInv
  <1>3. CASE EndInput
    BY <1>3 DEF EndInput, end_input, EofInv, IInv, TypeOK, ByteStreamType
  <1>4. CASE SetError
    BY <1>4 DEF SetError, set_error, EofInv, IInv, TypeOK, ByteStreamType
  <1>5. CASE SeeEof
    BY <1>5, EmptySeq DEF SeeEof, eof, buffer_size, EofInv, IInv, TypeOK, ByteStreamType
  <1>6. CASE UNCHANGED vars
    BY <1>6, Zenon DEF vars, EofInv
  <1>7. QED
    BY <1>1, <1>2, <1>3, <1>4, <1>5, <1>6 DEF Next

\* For every capacity: a writer that never writes after end_input() and a reader that stops at eof()
\* are joined by a reliable stream (byte_stream.cc:29-60).
THEOREM SpecImplementsReliableStream == ~WriteAfterEnd => (Spec => ImplementsReliableStream)
  <1> SUFFICES ASSUME ~WriteAfterEnd PROVE Spec => ImplementsReliableStream
    OBVIOUS
  <1>1. Init => Abstract!Init
    BY DEF Init, NewByteStream, Abstract!Init
  <1>2. IInv /\ IInv' /\ EofInv /\ [Next]_vars => [Abstract!Next]_(Abstract!vars)
    <2> SUFFICES ASSUME IInv, IInv', EofInv, [Next]_vars
                 PROVE  Abstract!Next \/ UNCHANGED Abstract!vars
      OBVIOUS
    <2>1. ASSUME NEW data \in Chunks, Write(data) PROVE Abstract!Accept
      <3>1. ~stream.input_ended
        BY <2>1, Zenon DEF Write
      <3>2. Abstract!IsPrefix(accepted, accepted') /\ stream'.input_ended = stream.input_ended
        BY <2>1, WriteIInv
      <3>3. accepted' \in Seq(Byte)
        BY DEF IInv, TypeOK
      <3>4. received' = received /\ saw_eof' = saw_eof
        BY <2>1 DEF Write
      <3>5. QED
        BY <3>1, <3>2, <3>3, <3>4, Zenon DEF Abstract!Accept
    <2>2. ASSUME NEW len \in Sizes, Read(len) PROVE Abstract!Deliver \/ UNCHANGED Abstract!vars
      <3>1. /\ Abstract!IsPrefix(received, received') /\ Abstract!IsPrefix(received', accepted)
            /\ stream'.input_ended = stream.input_ended
        BY <2>2, ReadIInv
      <3>2. accepted' = accepted /\ saw_eof' = saw_eof /\ saw_eof \in BOOLEAN
        BY <2>2 DEF Read, IInv, TypeOK
      <3>3. CASE saw_eof
        <4>1. received' = received
          BY <2>2, <3>3, EmptyRead DEF EofInv
        <4>2. QED
          BY <3>1, <3>2, <4>1 DEF Abstract!vars
      <3>4. CASE ~saw_eof
        BY <3>1, <3>2, <3>4, Zenon DEF Abstract!Deliver
      <3>5. QED
        BY <3>3, <3>4
    <2>3. ASSUME SeeEof PROVE Abstract!Deliver \/ UNCHANGED Abstract!vars
      <3>1. stream.input_ended /\ accepted = received
        <4>1. stream.input_ended /\ stream.buffer = << >> /\ received \in Seq(Byte)
          BY <2>3, EmptySeq DEF SeeEof, eof, buffer_size, IInv, TypeOK, ByteStreamType
        <4>2. QED
          BY <4>1, ConcatEmptySeq DEF IInv, Fifo
      <3>2. Abstract!IsPrefix(received, received)
        <4>1. received \in Seq(Byte) /\ << >> \in Seq(Byte) /\ received \o << >> = received
          BY EmptySeq, ConcatEmptySeq DEF IInv, TypeOK
        <4>2. QED
          BY <4>1, PrefixOfConcat DEF Abstract!IsPrefix
      <3>3. CASE saw_eof
        BY <2>3, <3>3 DEF SeeEof, Abstract!vars
      <3>4. CASE ~saw_eof
        BY <2>3, <3>1, <3>2, <3>4, Zenon DEF Abstract!Deliver, SeeEof
      <3>5. QED
        BY <3>3, <3>4
    <2>4. CASE EndInput
      <3>1. stream'.input_ended = TRUE
        BY <2>4 DEF EndInput, end_input, IInv, TypeOK, ByteStreamType
      <3>2. QED
        BY <2>4, <3>1, Zenon DEF EndInput, Abstract!Close, Abstract!Next
    <2>5. CASE SetError
      <3>1. stream'.input_ended = stream.input_ended
        BY <2>5 DEF SetError, set_error, IInv, TypeOK, ByteStreamType
      <3>2. QED
        BY <2>5, <3>1 DEF SetError, Abstract!vars
    <2>6. CASE UNCHANGED vars
      BY <2>6 DEF vars, Abstract!vars
    <2>7. QED
      BY <2>1, <2>2, <2>3, <2>4, <2>5, <2>6 DEF Next, Abstract!Next
  <1>3. Init => EofInv
    BY DEF Init, EofInv
  <1>4. IInv /\ EofInv /\ [Next]_vars => EofInv'
    BY NextEofInv
  <1>5. QED
    BY <1>1, <1>2, <1>3, <1>4, SpecIInv, PTL DEF Spec, ImplementsReliableStream, Abstract!Spec
=============================================================================
