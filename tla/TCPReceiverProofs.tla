------------------------- MODULE TCPReceiverProofs -------------------------
(***************************************************************************)
(* For every modulus of the sequence numbers, every capacity and every     *)
(* stream, also one longer than the sequence-number space: the receiver    *)
(* hands every payload to its StreamReassembler at the true stream index,  *)
(* so what is proved of the StreamReassembler holds of it.  When no FIN    *)
(* overtakes data, its ackno is exact and never moves back.                *)
(***************************************************************************)
EXTENDS TCPReceiverSpec, TLAPS

\* the proofs about the StreamReassembler, read as facts about the receiver's one
Reassembly == INSTANCE StreamReassemblerProofs WITH
    reassembler <- receiver.reassembler, EarlyEof <- EarlyFin

\* only the lemmas about wrap and unwrap are used, which mention none of its variables
Seqnos == INSTANCE WrappingIntegersProofs WITH isn <- ISN, sent <- 0, checkpoint <- 0

LEMMA ReassemblyAssumption ==
    /\ Capacity \in Nat \ {0}
    /\ Chunks \subseteq Seq(Byte)
    /\ Sizes \subseteq Nat
    /\ MaxWritten \in Nat /\ MaxWritten < Reassembly!U64
    /\ EarlyFin \in BOOLEAN
  BY WAssumption, ReceiverAssumption DEF U64, Reassembly!U64

LEMMA U64Type == U64 \in Nat /\ U64 > W
  BY WAssumption DEF U64

LEMMA UnwrapWrap ==
    ASSUME NEW i \in WrappingInt32, NEW x \in UInt64, NEW c \in UInt64, 2 * Distance(x, c) < W
    PROVE  unwrap(wrap(x, i), i, c) = x
  BY WAssumption, Seqnos!UnwrapWrap, Zenon
     DEF WrappingInt32, UInt64, U64, Distance, unwrap, wrap, plus, minus,
         Seqnos!WrappingInt32, Seqnos!UInt64, Seqnos!U64, Seqnos!Distance, Seqnos!unwrap,
         Seqnos!wrap, Seqnos!plus, Seqnos!minus

\* the receiver calls the push_substring() that those proofs are about
LEMMA SamePush ==
    ASSUME NEW r, NEW data, NEW index, NEW fin
    PROVE  Reassembly!push_substring(r, data, index, fin) = push_substring(r, data, index, fin)
  BY Zenon
     DEF push_substring, first_unassembled, merged, drained, remaining_capacity, write, accepts_eof,
         fresh_bytes, end_input, kept, accepted_size, buffer_size, min, U64, Cardinality,
         Reassembly!push_substring, Reassembly!first_unassembled, Reassembly!merged,
         Reassembly!drained, Reassembly!remaining_capacity, Reassembly!write, Reassembly!accepts_eof,
         Reassembly!fresh_bytes, Reassembly!end_input, Reassembly!kept, Reassembly!accepted_size,
         Reassembly!buffer_size, Reassembly!min, Reassembly!U64, Reassembly!Cardinality

\* the SYN and the bytes after it are numbered so that plus() undoes what the SYN takes
LEMMA SeqnoOfPayload ==
    ASSUME NEW index \in Nat, NEW syn \in BOOLEAN, syn => index = 0
    PROVE  plus(wrap(IF syn THEN 0 ELSE index + 1, ISN), int(syn)) = wrap(index + 1, ISN)
  <1>1. ISN \in 0 .. W - 1 /\ W \in Nat /\ W > 1
    BY WAssumption, ReceiverAssumption DEF WrappingInt32
  <1>2. ASSUME NEW a \in 0 .. W - 1 PROVE a % W = a
    BY <1>1, <1>2
  <1>3. CASE syn
    <2>1. plus(wrap(0, ISN), 1) = (((ISN + 0) % W) + 1) % W
      BY DEF plus, wrap
    <2>2. (ISN + 0) % W = ISN
      BY <1>1, <1>2
    <2>3. QED
      BY <1>1, <1>3, <2>1, <2>2 DEF plus, wrap, int
  <1>4. CASE ~syn
    <2> DEFINE a == (ISN + (index + 1)) % W
    <2>1. a \in 0 .. W - 1
      BY <1>1
    <2>2. (a + 0) % W = a
      <3> HIDE DEF a
      <3>1. QED
        BY <1>2, <2>1
    <2>3. QED
      BY <1>4, <2>2, Zenon DEF plus, wrap, int
  <1>5. QED
    BY <1>3, <1>4

-----------------------------------------------------------------------------
\* nothing is assembled before the SYN, and from then on the ISN is the far end's
RInv ==
    /\ receiver \in [ reassembler : {receiver.reassembler}, capacity : {Capacity},
                      is_syn : BOOLEAN, is_fin : BOOLEAN, isn : WrappingInt32 ]
    /\ receiver.is_syn => receiver.isn = ISN
    /\ ~receiver.is_syn => /\ ~receiver.is_fin
                           /\ ~receiver.reassembler.eof
                           /\ first_unassembled(receiver.reassembler) = 0

\* what the invariant of the reassembler says of the numbers the receiver works with
LEMMA ReassemblyFacts ==
    ASSUME Reassembly!IInv
    PROVE  LET r == receiver.reassembler
           IN  /\ input \in Seq(Byte) /\ Len(input) \in Nat /\ Len(input) <= MaxWritten
               /\ first_unassembled(r) \in Nat /\ first_unassembled(r) <= Len(input)
               /\ r.output.bytes_read = Len(received) /\ Len(received) \in Nat
               /\ first_unassembled(r) = Len(received) + Len(r.output.buffer)
               /\ Len(r.output.buffer) \in Nat
               /\ r.eof \in BOOLEAN /\ r.output.input_ended \in BOOLEAN /\ closed \in BOOLEAN
  <1> DEFINE r == receiver.reassembler
  <1>1. /\ r.output.bytes_read = Len(received) /\ Len(received) \in Nat
        /\ Reassembly!first_unassembled(r) \in Nat /\ Reassembly!first_unassembled(r) <= Len(input)
        /\ Reassembly!first_unassembled(r) = Len(received) + Len(r.output.buffer)
        /\ Len(r.output.buffer) \in Nat
        /\ input \in Seq(Byte) /\ Len(input) \in Nat
    BY ReassemblyAssumption, WAssumption, Reassembly!Numbers
  <1>2. Len(input) <= MaxWritten /\ closed \in BOOLEAN /\ r \in Reassembly!ReassemblerType
    BY DEF Reassembly!IInv, Reassembly!TypeOK
  <1>3. r.eof \in BOOLEAN /\ r.output.input_ended \in BOOLEAN
    BY <1>2 DEF Reassembly!ReassemblerType, Reassembly!ByteStreamType
  <1>4. first_unassembled(r) = Reassembly!first_unassembled(r)
    BY DEF first_unassembled, Reassembly!first_unassembled
  <1>5. QED
    BY <1>1, <1>2, <1>3, <1>4

\* the index that unwrap finds for the first payload byte is the true one
LEMMA TrueIndex ==
    ASSUME Reassembly!IInv, NEW last \in 0 .. Len(input), NEW index \in 0 .. last,
           NEW syn \in BOOLEAN, NEW fin \in BOOLEAN, syn => index = 0, Recent(index)
    PROVE  stream_index(ISN, Segment(index, last, syn, fin), first_unassembled(receiver.reassembler))
               = index
  <1> DEFINE seg == Segment(index, last, syn, fin)
             first == first_unassembled(receiver.reassembler)
  <1>1. first \in Nat /\ first <= Len(input) /\ Len(input) \in Nat /\ Len(input) <= MaxWritten
    BY ReassemblyFacts
  <1>2. seg.seqno = wrap(IF syn THEN 0 ELSE index + 1, ISN) /\ seg.syn = syn
    BY DEF Segment, NewTCPSegment
  <1>3. index \in Nat /\ index <= Len(input) /\ W \in Nat /\ W > 1 /\ MaxWritten \in Nat
        /\ MaxWritten + W < U64 /\ U64 \in Nat /\ ISN \in WrappingInt32
    BY <1>1, U64Type, WAssumption, ReceiverAssumption
  <1> HIDE DEF seg, first
  <1>4. index + 1 \in UInt64 /\ first \in UInt64
    BY <1>1, <1>3 DEF UInt64
  <1>5. unwrap(wrap(index + 1, ISN), ISN, first) = index + 1
    BY <1>3, <1>4, UnwrapWrap DEF Recent, first
  <1>6. stream_index(ISN, seg, first) = ((index + 1) - 1) % U64
    BY <1>2, <1>3, <1>5, SeqnoOfPayload, Zenon DEF stream_index
  <1>7. ((index + 1) - 1) % U64 = index
    <2>1. (index + 1) - 1 = index /\ index \in 0 .. U64 - 1
      BY <1>1, <1>3
    <2>2. QED
      BY <1>3, <2>1
  <1>8. QED
    BY <1>6, <1>7 DEF seg, first

\* a segment is a push_substring() of its payload at its true index, or is dropped before the SYN
LEMMA ArriveEffect ==
    ASSUME RInv, Reassembly!IInv, NEW last \in 0 .. Len(input), NEW index \in 0 .. last,
           NEW syn \in BOOLEAN, NEW fin \in BOOLEAN, Arrive(index, last, syn, fin)
    PROVE  \/ UNCHANGED vars
           \/ /\ Reassembly!Push(index, last, fin)
              /\ receiver' = [ reassembler |-> receiver'.reassembler, capacity |-> Capacity,
                               is_syn |-> TRUE, is_fin |-> receiver.is_fin \/ fin, isn |-> ISN ]
  <1> DEFINE seg == Segment(index, last, syn, fin)
             r == receiver.reassembler
             isn == IF receiver.is_syn THEN receiver.isn ELSE seg.seqno
             pushed == push_substring(r, SubSeq(input, index + 1, last), index, fin)
  <1>1. /\ seg.seqno = wrap(IF syn THEN 0 ELSE index + 1, ISN)
        /\ seg.syn = syn /\ seg.fin = fin /\ seg.payload = SubSeq(input, index + 1, last)
    BY DEF Segment, NewTCPSegment
  <1>2. /\ syn => index = 0
        /\ fin => closed /\ last = Len(input)
        /\ fin => EarlyFin \/ FinInOrder(index, last)
        /\ Recent(index)
        /\ receiver' = receiver_segment_received(receiver, seg)
        /\ UNCHANGED <<input, closed, received, saw_eof>>
    BY DEF Arrive
  <1> HIDE DEF seg
  <1>3. CASE ~receiver.is_syn /\ ~syn
    <2>1. receiver' = receiver
      BY <1>1, <1>2, <1>3, Zenon DEF receiver_segment_received
    <2>2. QED
      BY <1>2, <2>1 DEF vars
  <1>4. CASE receiver.is_syn \/ syn
    <2>1. isn = ISN
      <3>1. CASE receiver.is_syn
        BY <3>1 DEF RInv
      <3>2. CASE ~receiver.is_syn
        <4>1. seg.seqno = (ISN + 0) % W
          BY <1>1, <1>4, <3>2, Zenon DEF wrap, plus
        <4>2. (ISN + 0) % W = ISN
          BY WAssumption, ReceiverAssumption DEF WrappingInt32
        <4>3. QED
          BY <3>2, <4>1, <4>2
      <3>3. QED
        BY <3>1, <3>2
    <2>2. stream_index(ISN, seg, first_unassembled(r)) = index
      BY <1>2, TrueIndex, Zenon DEF seg
    <2>3. receiver' = [ receiver EXCEPT !.is_syn = TRUE, !.isn = ISN, !.is_fin = @ \/ fin,
                                        !.reassembler = pushed ]
      <3>1. ~(~receiver.is_syn /\ ~seg.syn)
        BY <1>1, <1>4, Zenon
      <3>2. receiver_segment_received(receiver, seg) =
                [ receiver EXCEPT !.is_syn = TRUE, !.isn = isn, !.is_fin = @ \/ seg.fin,
                      !.reassembler = push_substring(@, seg.payload,
                                          stream_index(isn, seg, first_unassembled(r)), seg.fin) ]
        BY <3>1, Zenon DEF receiver_segment_received
      <3>3. QED
        BY <1>1, <1>2, <2>1, <2>2, <3>2, Zenon
    <2>4. /\ receiver'.reassembler = pushed
          /\ receiver' = [ reassembler |-> pushed, capacity |-> Capacity,
                           is_syn |-> TRUE, is_fin |-> receiver.is_fin \/ fin, isn |-> ISN ]
      <3> HIDE DEF pushed
      <3>1. QED
        BY <2>3, Zenon DEF RInv
    <2>5. pushed = Reassembly!push_substring(r, SubSeq(input, index + 1, last), index, fin)
      BY SamePush
    <2>6. fin /\ index = last => EarlyFin \/ Reassembly!first_unassembled(r) = last
      BY <1>2, Zenon DEF FinInOrder, first_unassembled, Reassembly!first_unassembled
    <2> HIDE DEF pushed
    <2>7. Reassembly!Push(index, last, fin)
      BY <1>2, <2>4, <2>5, <2>6, Zenon DEF Reassembly!Push
    <2>8. QED
      BY <2>4, <2>7, Zenon
  <1>5. QED
    BY <1>3, <1>4

\* reading from the inbound stream is reading from the reassembler's output
LEMMA ReadEffect ==
    ASSUME RInv, Reassembly!IInv, NEW len \in Sizes, Read(len)
    PROVE  /\ Reassembly!Read(len)
           /\ receiver' = [ reassembler |-> receiver'.reassembler, capacity |-> Capacity,
                            is_syn |-> receiver.is_syn, is_fin |-> receiver.is_fin,
                            isn |-> receiver.isn ]
  <1> DEFINE r == receiver.reassembler
             popped == pop_output(r.output, len)
             read == [ r EXCEPT !.output = popped ]
  <1>1. receiver' = [ receiver EXCEPT !.reassembler = read ]
    BY Zenon DEF Read
  <1>2. /\ receiver'.reassembler = read
        /\ receiver' = [ reassembler |-> read, capacity |-> Capacity, is_syn |-> receiver.is_syn,
                         is_fin |-> receiver.is_fin, isn |-> receiver.isn ]
    <2> HIDE DEF read
    <2>1. QED
      BY <1>1 DEF RInv
  <1>3. popped = Reassembly!pop_output(r.output, len)
    BY Zenon DEF pop_output, available_output, buffer_size, min, Reassembly!pop_output,
                 Reassembly!available_output, Reassembly!buffer_size, Reassembly!min
  <1>4. peek_output(stream_out(receiver), len) = Reassembly!peek_output(r.output, len)
    BY Zenon DEF stream_out, peek_output, available_output, buffer_size, min, Reassembly!peek_output,
                 Reassembly!available_output, Reassembly!buffer_size, Reassembly!min
  <1> HIDE DEF popped
  <1>5. Reassembly!Read(len)
    BY <1>2, <1>3, <1>4, Zenon DEF Read, Reassembly!Read
  <1>6. QED
    BY <1>2, <1>5, Zenon

\* every step of the receiver is a step of its reassembler, and keeps the invariant
LEMMA StepRInv ==
    ASSUME RInv, Reassembly!IInv, [Next]_vars
    PROVE  [Reassembly!Next]_(Reassembly!vars) /\ RInv'
  <1> DEFINE r == receiver.reassembler
             q == receiver'.reassembler
  <1> USE DEF Reassembly!vars
  <1>1. ASSUME NEW data \in Chunks, Produce(data) PROVE Reassembly!Next /\ RInv'
    BY <1>1, Zenon DEF Produce, Reassembly!Produce, Reassembly!Next, RInv
  <1>2. CASE Close
    BY <1>2, Zenon DEF Close, Reassembly!Close, Reassembly!Next, RInv
  <1>3. ASSUME NEW last \in 0 .. Len(input), NEW index \in 0 .. last, NEW syn \in BOOLEAN,
               NEW fin \in BOOLEAN, Arrive(index, last, syn, fin)
        PROVE  [Reassembly!Next]_(Reassembly!vars) /\ RInv'
    <2>1. CASE UNCHANGED vars
      BY <2>1, Zenon DEF vars, RInv
    <2>2. CASE /\ Reassembly!Push(index, last, fin)
               /\ receiver' = [ reassembler |-> q, capacity |-> Capacity, is_syn |-> TRUE,
                                is_fin |-> receiver.is_fin \/ fin, isn |-> ISN ]
      <3>1. Reassembly!Next
        BY <2>2, Zenon DEF Reassembly!Next, Reassembly!PushAny
      <3>2. RInv'
        <4> DEFINE f == receiver.is_fin \/ fin
        <4>1. f \in BOOLEAN
          BY Zenon
        <4> HIDE DEF f, q
        <4>2. receiver' \in [ reassembler : {q}, capacity : {Capacity},
                              is_syn : BOOLEAN, is_fin : BOOLEAN, isn : WrappingInt32 ]
              /\ receiver'.is_syn = TRUE /\ receiver'.isn = ISN
          BY <2>2, <4>1, ReceiverAssumption DEF f
        <4>3. QED
          BY <4>2, Zenon DEF RInv, q
      <3>3. QED
        BY <3>1, <3>2
    <2>3. QED
      BY <1>3, <2>1, <2>2, ArriveEffect, Zenon
  <1>4. ASSUME NEW len \in Sizes, Read(len) PROVE Reassembly!Next /\ RInv'
    <2>1. /\ Reassembly!Read(len)
          /\ receiver' = [ reassembler |-> q, capacity |-> Capacity, is_syn |-> receiver.is_syn,
                           is_fin |-> receiver.is_fin, isn |-> receiver.isn ]
      BY <1>4, ReadEffect
    <2>2. q.eof = r.eof /\ first_unassembled(q) = first_unassembled(r)
      BY <2>1, ReassemblyAssumption, WAssumption, Reassembly!ReadEffect DEF first_unassembled
    <2>3. /\ receiver.is_syn \in BOOLEAN /\ receiver.is_fin \in BOOLEAN /\ receiver.isn \in WrappingInt32
          /\ receiver.is_syn => receiver.isn = ISN
          /\ ~receiver.is_syn => ~receiver.is_fin /\ ~r.eof /\ first_unassembled(r) = 0
      BY DEF RInv
    <2> HIDE DEF r, q
    <2>4. receiver' \in [ reassembler : {q}, capacity : {Capacity},
                          is_syn : BOOLEAN, is_fin : BOOLEAN, isn : WrappingInt32 ]
          /\ receiver'.is_syn = receiver.is_syn /\ receiver'.isn = receiver.isn
          /\ receiver'.is_fin = receiver.is_fin
      BY <2>1, <2>3
    <2>5. RInv'
      BY <2>2, <2>3, <2>4, Zenon DEF RInv, q
    <2>6. QED
      BY <2>1, <2>5, Zenon DEF Reassembly!Next
  <1>5. CASE SeeEof
    BY <1>5, Zenon DEF SeeEof, Reassembly!SeeEof, Reassembly!Next, RInv, stream_out, eof, buffer_size,
                       Reassembly!eof, Reassembly!buffer_size
  <1>6. CASE UNCHANGED vars
    BY <1>6, Zenon DEF vars, RInv
  <1>7. QED
    BY <1>1, <1>2, <1>3, <1>4, <1>5, <1>6, Zenon DEF Next, ArriveAny

LEMMA InitRInv == Init => RInv /\ Reassembly!Init
  <1> SUFFICES ASSUME Init PROVE RInv /\ Reassembly!Init
    OBVIOUS
  <1>1. NewStreamReassembler(Capacity) = Reassembly!NewStreamReassembler(Capacity)
    BY Zenon DEF NewStreamReassembler, NewByteStream, Reassembly!NewStreamReassembler,
                 Reassembly!NewByteStream
  <1>2. receiver = [ reassembler |-> NewStreamReassembler(Capacity), capacity |-> Capacity,
                     is_syn |-> FALSE, is_fin |-> FALSE, isn |-> 0 ]
    BY DEF Init, NewTCPReceiver
  <1>3. receiver.reassembler = NewStreamReassembler(Capacity)
    BY <1>2
  <1>4. Reassembly!Init
    BY <1>1, <1>3, Zenon DEF Init, Reassembly!Init
  <1>5. 0 \in WrappingInt32
    BY WAssumption DEF WrappingInt32
  <1>6. ~receiver.reassembler.eof /\ first_unassembled(receiver.reassembler) = 0
    BY <1>3 DEF NewStreamReassembler, NewByteStream, first_unassembled
  <1>7. RInv
    BY <1>2, <1>5, <1>6 DEF RInv
  <1>8. QED
    BY <1>4, <1>7

LEMMA SpecRInv == Spec => [](RInv /\ Reassembly!IInv)
  <1>1. Init => RInv /\ Reassembly!IInv
    BY InitRInv, ReassemblyAssumption, WAssumption, Reassembly!InitIInv
  <1>2. RInv /\ Reassembly!IInv /\ [Next]_vars => RInv' /\ Reassembly!IInv'
    <2> SUFFICES ASSUME RInv, Reassembly!IInv, [Next]_vars PROVE RInv' /\ Reassembly!IInv'
      OBVIOUS
    <2>1. [Reassembly!Next]_(Reassembly!vars) /\ RInv'
      BY StepRInv
    <2>2. QED
      BY <2>1, ReassemblyAssumption, WAssumption, Reassembly!NextIInv
  <1>3. QED
    BY <1>1, <1>2, PTL DEF Spec

-----------------------------------------------------------------------------
\* the proofs' instance of the reassembler is the one the receiver's specification names
LEMMA SameReassembler ==
    /\ Reassembly!Init <=> Reassembler!Init
    /\ Reassembly!Next <=> Reassembler!Next
    /\ Reassembly!vars = Reassembler!vars
  <1>1. ASSUME NEW r, NEW data, NEW index, NEW fin
        PROVE  Reassembler!push_substring(r, data, index, fin) = Reassembly!push_substring(r, data, index, fin)
    <2>1. Reassembler!push_substring(r, data, index, fin) = push_substring(r, data, index, fin)
      BY Zenon
         DEF push_substring, first_unassembled, merged, drained, remaining_capacity, write, accepts_eof,
             fresh_bytes, end_input, kept, accepted_size, buffer_size, min, U64, Cardinality,
             Reassembler!push_substring, Reassembler!first_unassembled, Reassembler!merged,
             Reassembler!drained, Reassembler!remaining_capacity, Reassembler!write,
             Reassembler!accepts_eof, Reassembler!fresh_bytes, Reassembler!end_input,
             Reassembler!kept, Reassembler!accepted_size, Reassembler!buffer_size, Reassembler!min,
             Reassembler!U64, Reassembler!Cardinality
    <2>2. QED
      BY <2>1, SamePush, Zenon
  <1>2. ASSUME NEW s, NEW len
        PROVE  /\ Reassembler!pop_output(s, len) = Reassembly!pop_output(s, len)
               /\ Reassembler!peek_output(s, len) = Reassembly!peek_output(s, len)
               /\ Reassembler!eof(s) <=> Reassembly!eof(s)
    BY Zenon DEF Reassembler!pop_output, Reassembler!peek_output, Reassembler!available_output,
                 Reassembler!buffer_size, Reassembler!min, Reassembler!eof,
                 Reassembly!pop_output, Reassembly!peek_output, Reassembly!available_output,
                 Reassembly!buffer_size, Reassembly!min, Reassembly!eof
  <1>3. Reassembly!Init <=> Reassembler!Init
    BY Zenon DEF Reassembly!Init, Reassembly!NewStreamReassembler, Reassembly!NewByteStream,
                 Reassembler!Init, Reassembler!NewStreamReassembler, Reassembler!NewByteStream
  <1>4. ASSUME NEW data PROVE Reassembly!Produce(data) <=> Reassembler!Produce(data)
    BY Zenon DEF Reassembly!Produce, Reassembler!Produce
  <1>5. Reassembly!Close <=> Reassembler!Close
    BY Zenon DEF Reassembly!Close, Reassembler!Close
  <1>6. ASSUME NEW index, NEW last, NEW fin
        PROVE  Reassembly!Push(index, last, fin) <=> Reassembler!Push(index, last, fin)
    BY <1>1, Zenon DEF Reassembly!Push, Reassembly!first_unassembled,
                       Reassembler!Push, Reassembler!first_unassembled
  <1>7. ASSUME NEW len PROVE Reassembly!Read(len) <=> Reassembler!Read(len)
    BY <1>2, Zenon DEF Reassembly!Read, Reassembler!Read
  <1>8. Reassembly!SeeEof <=> Reassembler!SeeEof
    BY <1>2, Zenon DEF Reassembly!SeeEof, Reassembler!SeeEof
  <1>9. Reassembly!Next <=> Reassembler!Next
    BY <1>4, <1>5, <1>6, <1>7, <1>8, Zenon
       DEF Reassembly!Next, Reassembly!PushAny, Reassembler!Next, Reassembler!PushAny
  <1>10. QED
    BY <1>3, <1>9, Zenon DEF Reassembly!vars, Reassembler!vars

\* For every W, Capacity and stream, also one that wraps the sequence numbers around many times and
\* whether or not a FIN overtakes data: every segment that is not more than half the sequence space old
\* or new is a push_substring() at the true stream index (tcp_receiver.cc:17-42).
THEOREM SpecImplementsReassembler == Spec => ImplementsReassembler
  <1>1. Init => Reassembler!Init
    BY InitRInv, SameReassembler, Zenon
  <1>2. RInv /\ Reassembly!IInv /\ [Next]_vars => [Reassembler!Next]_(Reassembler!vars)
    <2> SUFFICES ASSUME RInv, Reassembly!IInv, [Next]_vars
                 PROVE  [Reassembler!Next]_(Reassembler!vars)
      OBVIOUS
    <2>1. [Reassembly!Next]_(Reassembly!vars)
      BY StepRInv
    <2>2. QED
      BY <2>1, SameReassembler, Zenon DEF Reassembly!vars, Reassembler!vars
  <1>3. QED
    BY <1>1, <1>2, SpecRInv, PTL DEF Spec, ImplementsReassembler, Reassembler!Spec

-----------------------------------------------------------------------------
\* when no FIN overtakes data, the receiver's fin flag is the reassembler's eof flag
FInv ==
    /\ Reassembly!EofInv
    /\ receiver.is_fin = receiver.reassembler.eof

\* what a step does to the numbers that the ackno and the window are made of
LEMMA StepNumbers ==
    ASSUME RInv, Reassembly!IInv, FInv, ~EarlyFin, [Next]_vars
    PROVE  LET r == receiver.reassembler
               q == receiver'.reassembler
           IN  /\ first_unassembled(r) <= first_unassembled(q)
               /\ Len(received) <= Len(received')
               /\ r.output.input_ended => q.output.input_ended
               /\ receiver'.is_fin = q.eof
  <1> DEFINE r == receiver.reassembler
             q == receiver'.reassembler
  <1>1. /\ first_unassembled(r) \in Nat /\ Len(received) \in Nat /\ r.output.bytes_read = Len(received)
        /\ r.eof \in BOOLEAN /\ receiver.is_fin = r.eof
    BY ReassemblyFacts DEF FInv
  <1>2. CASE receiver' = receiver /\ received' = received
    BY <1>1, <1>2
  <1>3. ASSUME NEW last \in 0 .. Len(input), NEW index \in 0 .. last, NEW syn \in BOOLEAN,
               NEW fin \in BOOLEAN, Arrive(index, last, syn, fin), receiver' # receiver
        PROVE  /\ first_unassembled(r) <= first_unassembled(q)
               /\ Len(received) <= Len(received')
               /\ r.output.input_ended => q.output.input_ended
               /\ receiver'.is_fin = q.eof
    <2>1. /\ Reassembly!Push(index, last, fin)
          /\ receiver' = [ reassembler |-> q, capacity |-> Capacity, is_syn |-> TRUE,
                           is_fin |-> receiver.is_fin \/ fin, isn |-> ISN ]
      BY <1>3, ArriveEffect, Zenon DEF vars
    <2>2. /\ first_unassembled(r) <= first_unassembled(q)
          /\ q.eof = (r.eof \/ (fin /\ last <= Len(received) + Capacity))
          /\ q.output.input_ended = (r.output.input_ended \/ (q.eof /\ q.unassembled_bytes = 0))
      BY <2>1, ReassemblyAssumption, WAssumption, Reassembly!PushEffect
         DEF first_unassembled, Reassembly!first_unassembled
    <2>3. fin => last <= Len(received) + Capacity
      BY <1>1, <1>3 DEF Arrive, FinInOrder, stream_out
    <2>4. received' = received
      BY <1>3 DEF Arrive
    <2>5. receiver'.is_fin = (receiver.is_fin \/ fin)
      BY <2>1
    <2> HIDE DEF r, q
    <2>6. receiver'.is_fin = q.eof
      BY <1>1, <2>2, <2>3, <2>5, Zenon
    <2>7. r.output.input_ended => q.output.input_ended
      BY <2>2, Zenon
    <2>8. QED
      BY <1>1, <2>2, <2>4, <2>6, <2>7
  <1>4. ASSUME NEW len \in Sizes, Read(len)
        PROVE  /\ first_unassembled(r) <= first_unassembled(q)
               /\ Len(received) <= Len(received')
               /\ r.output.input_ended => q.output.input_ended
               /\ receiver'.is_fin = q.eof
    <2>1. /\ Reassembly!Read(len)
          /\ receiver' = [ reassembler |-> q, capacity |-> Capacity, is_syn |-> receiver.is_syn,
                           is_fin |-> receiver.is_fin, isn |-> receiver.isn ]
      BY <1>4, ReadEffect
    <2>2. /\ q.eof = r.eof /\ first_unassembled(q) = first_unassembled(r)
          /\ q.output.input_ended = r.output.input_ended /\ Len(received) <= Len(received')
      BY <2>1, ReassemblyAssumption, WAssumption, Reassembly!ReadEffect DEF first_unassembled
    <2>3. receiver'.is_fin = receiver.is_fin
      BY <2>1
    <2> HIDE DEF r, q
    <2>4. QED
      BY <1>1, <2>2, <2>3
  <1>5. QED
    BY <1>2, <1>3, <1>4, Zenon DEF Next, Produce, Close, ArriveAny, Arrive, SeeEof, vars

LEMMA SpecFInv == ~EarlyFin => (Spec => [](RInv /\ Reassembly!IInv /\ FInv))
  <1> SUFFICES ASSUME ~EarlyFin PROVE Spec => [](RInv /\ Reassembly!IInv /\ FInv)
    OBVIOUS
  <1>1. Init => FInv
    <2> SUFFICES ASSUME Init PROVE FInv
      OBVIOUS
    <2>1. receiver.reassembler = NewStreamReassembler(Capacity) /\ receiver.is_fin = FALSE
      BY DEF Init, NewTCPReceiver
    <2>2. receiver.reassembler.eof = FALSE /\ receiver.reassembler.output.input_ended = FALSE
          /\ saw_eof = FALSE
      BY <2>1 DEF Init, NewStreamReassembler, NewByteStream
    <2>3. QED
      BY <2>1, <2>2, Zenon DEF FInv, Reassembly!EofInv, Reassembly!EndsComplete
  <1>2. RInv /\ Reassembly!IInv /\ FInv /\ [Next]_vars => FInv'
    <2> SUFFICES ASSUME RInv, Reassembly!IInv, FInv, [Next]_vars PROVE FInv'
      OBVIOUS
    <2>1. [Reassembly!Next]_(Reassembly!vars)
      BY StepRInv
    <2>2. Reassembly!EofInv'
      BY <2>1, ReassemblyAssumption, WAssumption, Reassembly!NextEofInv DEF FInv
    <2>3. QED
      BY <2>2, StepNumbers DEF FInv
  <1>3. QED
    BY <1>1, <1>2, SpecRInv, PTL DEF Spec

\* the ackno and the right edge of the window in terms of what is assembled and read
LEMMA Edges ==
    ASSUME RInv, Reassembly!IInv, FInv
    PROVE  LET r == receiver.reassembler
           IN  /\ abs_ackno(receiver) = 1 + first_unassembled(r) + int(r.output.input_ended)
               /\ abs_ackno(receiver) + window_size(receiver) =
                      1 + Len(received) + Capacity + int(r.output.input_ended)
  <1> DEFINE r == receiver.reassembler
             ended == r.output.input_ended
             first == first_unassembled(r)
             size == Len(r.output.buffer)
  <1>1. /\ first \in Nat /\ Len(received) \in Nat /\ size \in Nat /\ first = Len(received) + size
        /\ ended \in BOOLEAN /\ r.eof \in BOOLEAN
    BY ReassemblyFacts
  <1>2. ended <=> r.eof /\ Reassembly!empty(r)
    BY ReassemblyAssumption, WAssumption, Reassembly!EndedWhenEmpty DEF FInv
  <1>3. receiver.is_fin = r.eof /\ receiver.capacity = Capacity /\ Capacity \in Nat
    BY ReceiverAssumption DEF FInv, RInv
  <1>4. int(receiver.is_fin /\ empty(r)) = int(ended)
    BY <1>1, <1>2, <1>3, Zenon DEF int, empty, Reassembly!empty
  <1>5. abs_ackno(receiver) = 1 + first + int(ended)
    BY <1>4, Zenon DEF abs_ackno
  <1>6. window_size(receiver) = Capacity - size
    BY <1>3, Zenon DEF window_size, stream_out, buffer_size
  <1>7. int(ended) \in Nat
    BY DEF int
  <1> HIDE DEF r, ended, first, size
  <1>8. (1 + first + int(ended)) + (Capacity - size) = 1 + Len(received) + Capacity + int(ended)
    BY <1>1, <1>3, <1>7
  <1>9. QED
    BY <1>5, <1>6, <1>8 DEF r, ended, first, size

\* For every W, Capacity and stream: unless a FIN overtakes data, the ackno is the first byte that is
\* missing, and counts the FIN exactly when the whole stream is assembled (tcp_receiver.cc:44-54).
THEOREM SpecAckExact == ~EarlyFin => (Spec => []AckExact)
  <1> SUFFICES ASSUME ~EarlyFin PROVE Spec => []AckExact
    OBVIOUS
  <1>1. RInv /\ Reassembly!IInv /\ FInv => AckExact
    <2> SUFFICES ASSUME RInv, Reassembly!IInv, FInv PROVE AckExact
      OBVIOUS
    <2>1. stream_out(receiver).input_ended => closed /\ first_unassembled(receiver.reassembler) = Len(input)
      BY Zenon DEF FInv, Reassembly!EofInv, Reassembly!EndsComplete, stream_out, first_unassembled,
                   Reassembly!first_unassembled
    <2>2. abs_ackno(receiver) =
              1 + first_unassembled(receiver.reassembler) + int(stream_out(receiver).input_ended)
      BY Edges, Zenon DEF stream_out
    <2>3. QED
      BY <2>1, <2>2, Zenon DEF AckExact
  <1>2. QED
    BY <1>1, SpecFInv, PTL

\* For every W, Capacity and stream: unless a FIN overtakes data, neither the ackno nor the right edge
\* of the advertised window ever moves back (tcp_receiver.cc:44-56).
THEOREM SpecEdgeNeverRetreats == ~EarlyFin => (Spec => EdgeNeverRetreats)
  <1> SUFFICES ASSUME ~EarlyFin PROVE Spec => EdgeNeverRetreats
    OBVIOUS
  <1> DEFINE first == first_unassembled(receiver.reassembler)
             ended == int(receiver.reassembler.output.input_ended)
             Inv == RInv /\ Reassembly!IInv /\ FInv
             Edge == /\ first \in Nat /\ Len(received) \in Nat
                     /\ abs_ackno(receiver) = 1 + first + ended
                     /\ abs_ackno(receiver) + window_size(receiver) = 1 + Len(received) + Capacity + ended
             Onward == /\ abs_ackno(receiver') >= abs_ackno(receiver)
                       /\ abs_ackno(receiver') + window_size(receiver')
                            >= abs_ackno(receiver) + window_size(receiver)
  <1>1. Inv => Edge
    BY Edges, ReassemblyFacts, Zenon
  <1>2. Inv /\ Edge /\ Edge' /\ [Next]_vars => Onward
    <2> SUFFICES ASSUME Inv, Edge, Edge', [Next]_vars PROVE Onward
      OBVIOUS
    <2>1. first <= first' /\ Len(received) <= Len(received')
      BY StepNumbers
    <2>2. ended <= ended' /\ ended \in Nat /\ ended' \in Nat
      <3>1. receiver.reassembler.output.input_ended => receiver'.reassembler.output.input_ended
        BY StepNumbers
      <3>2. QED
        BY <3>1 DEF int
    <2>3. /\ first \in Nat /\ first' \in Nat /\ Len(received) \in Nat /\ Len(received') \in Nat
          /\ Capacity \in Nat
      BY ReceiverAssumption
    <2>4. /\ abs_ackno(receiver) = 1 + first + ended
          /\ abs_ackno(receiver) + window_size(receiver) = 1 + Len(received) + Capacity + ended
          /\ abs_ackno(receiver') = 1 + first' + ended'
          /\ abs_ackno(receiver') + window_size(receiver') = 1 + Len(received') + Capacity + ended'
      OBVIOUS
    <2>5. ASSUME NEW a \in Nat, NEW b \in Nat, NEW c \in Nat, NEW d \in Nat, a <= b, c <= d
          PROVE  1 + b + d >= 1 + a + c /\ 1 + b + Capacity + d >= 1 + a + Capacity + c
      BY <2>3, <2>5
    <2>6. QED
      BY <2>1, <2>2, <2>3, <2>4, <2>5, Zenon
  <1> HIDE DEF Edge, Onward
  <1>3. Spec => [][Onward]_vars
    BY <1>1, <1>2, SpecFInv, PTL DEF Spec
  <1>4. QED
    BY <1>3 DEF EdgeNeverRetreats, Onward

\* For every W, Capacity and stream: unless a FIN overtakes data, the segments of a stream, in any order,
\* overlapping and repeated, come out of the receiver as a reliable stream (tcp_receiver.cc:17-42).
THEOREM SpecReliableStream == ~EarlyFin => (Spec => Reassembly!ImplementsReliableStream)
  <1> SUFFICES ASSUME ~EarlyFin PROVE Spec => Reassembly!ImplementsReliableStream
    OBVIOUS
  <1>1. Init => Reassembly!Init
    BY InitRInv
  <1>2. RInv /\ Reassembly!IInv /\ [Next]_vars => [Reassembly!Next]_(Reassembly!vars)
    BY StepRInv
  <1>3. Spec => Reassembly!Spec
    BY <1>1, <1>2, SpecRInv, PTL DEF Spec, Reassembly!Spec
  <1>4. Reassembly!Spec => Reassembly!ImplementsReliableStream
    BY ReassemblyAssumption, WAssumption, Reassembly!SpecImplementsReliableStream
  <1>5. QED
    BY <1>3, <1>4, PTL
=============================================================================
