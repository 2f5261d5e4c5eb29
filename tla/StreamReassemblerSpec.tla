----------------------- MODULE StreamReassemblerSpec -----------------------
(***************************************************************************)
(* A StreamReassembler fed with substrings of a stream that is still being *)
(* written: any excerpt of what exists, in any order, overlapping, twice   *)
(* or never, with a reader that drains the output at its own pace.         *)
(***************************************************************************)
EXTENDS StreamReassembler

CONSTANTS Byte,
          Capacity,
          Chunks,      \* what the writer at the far end may append at once
          Sizes,       \* the lengths the reader may ask for
          MaxWritten,  \* the far end stops after this many bytes
          EarlyEof     \* whether an empty eof substring may overtake the bytes before it

ASSUME ReassemblerAssumption ==
    /\ Capacity \in Nat \ {0}   \* _state.front() needs a slot
    /\ Chunks \subseteq Seq(Byte)
    /\ Sizes \subseteq Nat
    /\ MaxWritten \in Nat /\ MaxWritten < U64
    /\ EarlyEof \in BOOLEAN

VARIABLES reassembler,
          input, closed,      \* the stream at the far end
          received, saw_eof   \* what the reader has seen

vars == <<reassembler, input, closed, received, saw_eof>>

Init ==
    /\ reassembler = NewStreamReassembler(Capacity)
    /\ input = << >>
    /\ closed = FALSE
    /\ received = << >>
    /\ saw_eof = FALSE

Produce(data) ==
    /\ ~closed
    /\ Len(input) + Len(data) <= MaxWritten
    /\ input' = input \o data
    /\ UNCHANGED <<reassembler, closed, received, saw_eof>>

Close ==
    /\ closed' = TRUE
    /\ UNCHANGED <<reassembler, input, received, saw_eof>>

\* input[index + 1 .. last] arrives
Push(index, last, fin) ==
    /\ fin => closed /\ last = Len(input)
    /\ fin /\ index = last => EarlyEof \/ first_unassembled(reassembler) = last
    /\ reassembler' = push_substring(reassembler, SubSeq(input, index + 1, last), index, fin)
    /\ UNCHANGED <<input, closed, received, saw_eof>>

Read(len) ==
    /\ reassembler' = [ reassembler EXCEPT !.output = pop_output(@, len) ]
    /\ received' = received \o peek_output(reassembler.output, len)
    /\ UNCHANGED <<input, closed, saw_eof>>

SeeEof ==
    /\ eof(reassembler.output)
    /\ saw_eof' = TRUE
    /\ UNCHANGED <<reassembler, input, closed, received>>

PushAny ==
    \E last \in 0 .. Len(input) : \E index \in 0 .. last : \E fin \in BOOLEAN :
        Push(index, last, fin)

Next ==
    \/ \E data \in Chunks : Produce(data)
    \/ Close
    \/ PushAny
    \/ \E len \in Sizes : Read(len)
    \/ SeeEof

Spec == Init /\ [][Next]_vars

\* The far end retransmits its oldest unassembled byte with everything after it, and the reader reads.
Fairness ==
    /\ WF_vars(Push(first_unassembled(reassembler), Len(input), closed))
    /\ \A len \in Sizes : WF_vars(len > 0 /\ Read(len))
    /\ WF_vars(SeeEof)

FairSpec == Spec /\ Fairness

-----------------------------------------------------------------------------
PendingType == UNION { [ D -> Byte ] : D \in SUBSET (0 .. Len(input) - 1) }

ReassemblerType ==
    [ output : ByteStreamType(Byte),
      capacity : Nat,
      unassembled_bytes : Nat,
      eof : BOOLEAN,
      pending : PendingType ]

TypeOK ==
    /\ reassembler \in ReassemblerType
    /\ reassembler.capacity = Capacity /\ reassembler.output.capacity = Capacity
    /\ input \in Seq(Byte)
    /\ received \in Seq(Byte)
    /\ closed \in BOOLEAN /\ saw_eof \in BOOLEAN

\* Whatever the order, overlap and repetition of the substrings, what has been assembled is a prefix of
\* the stream and what is held back carries the right byte for its index (stream_reassembler.cc:35-66).
Faithful ==
    /\ first_unassembled(reassembler) <= Len(input)
    /\ received \o reassembler.output.buffer = SubSeq(input, 1, first_unassembled(reassembler))
    /\ \A i \in DOMAIN reassembler.pending : reassembler.pending[i] = input[i + 1]

\* "This capacity limits both the bytes that have been reassembled, and those that have not yet been
\* reassembled" (stream_reassembler.hh:26-27): they fit in Capacity slots after the last byte read.
WithinCapacity ==
    /\ Len(reassembler.output.buffer) <= Capacity
    /\ \A i \in DOMAIN reassembler.pending :
           first_unassembled(reassembler) <= i /\ i < reassembler.output.bytes_read + Capacity

\* Every byte is counted once however often it was pushed (stream_reassembler.hh:46-50), so that
\* empty() can decide the end of the stream.
CountedOnce == reassembler.unassembled_bytes = Cardinality(DOMAIN reassembler.pending)

\* "assembles any newly contiguous substrings" (stream_reassembler.cc:24): the next byte never waits.
Eager == first_unassembled(reassembler) \notin DOMAIN reassembler.pending

\* The output is ended exactly when the eof flag is known and nothing is missing before it
\* (stream_reassembler.cc:31, :69).
EndsComplete ==
    reassembler.output.input_ended <=>
        reassembler.eof /\ closed /\ first_unassembled(reassembler) = Len(input)

Abstract == INSTANCE ReliableStream WITH output <- received, finished <- saw_eof

\* Substrings in any order still make a reliable stream.
ImplementsReliableStream == Abstract!Spec

\* Once the far end has closed, the reader gets everything and learns that it is the end, although the
\* stream is longer than the capacity.
Completes == closed ~> saw_eof /\ received = input
=============================================================================
