-------------------------- MODULE TCPReceiverSpec --------------------------
(***************************************************************************)
(* A TCPReceiver fed with the segments of one stream: the SYN, any excerpt *)
(* of the bytes written so far, the FIN; in any order, overlapping, twice  *)
(* or never.  The stream may be longer than the sequence-number space.     *)
(***************************************************************************)
EXTENDS TCPReceiver

CONSTANTS Byte,
          Capacity,
          Chunks,      \* what the writer at the far end may append at once
          Sizes,       \* the lengths the reader may ask for
          MaxWritten,  \* the far end stops after this many bytes
          EarlyFin,    \* whether a FIN may arrive before the bytes it follows fit or have arrived
          ISN          \* the far end's initial sequence number

ASSUME ReceiverAssumption ==
    /\ Capacity \in Nat \ {0}
    /\ Chunks \subseteq Seq(Byte)
    /\ Sizes \subseteq Nat
    /\ MaxWritten \in Nat /\ MaxWritten + W < U64
    /\ EarlyFin \in BOOLEAN
    /\ ISN \in WrappingInt32

VARIABLES receiver,
          input, closed,      \* the stream at the far end
          received, saw_eof   \* what the reader has seen

vars == <<receiver, input, closed, received, saw_eof>>

Init ==
    /\ receiver = NewTCPReceiver(Capacity)
    /\ input = << >>
    /\ closed = FALSE
    /\ received = << >>
    /\ saw_eof = FALSE

Produce(data) ==
    /\ ~closed
    /\ Len(input) + Len(data) <= MaxWritten
    /\ input' = input \o data
    /\ UNCHANGED <<receiver, closed, received, saw_eof>>

Close ==
    /\ closed' = TRUE
    /\ UNCHANGED <<receiver, input, received, saw_eof>>

\* the segment with bytes index + 1 .. last of the stream
Segment(index, last, syn, fin) ==
    [ NewTCPSegment(wrap(IF syn THEN 0 ELSE index + 1, ISN)) EXCEPT
          !.syn = syn, !.fin = fin, !.payload = SubSeq(input, index + 1, last) ]

\* A segment that is not older or newer than half the sequence-number space, which a sender that
\* respects a 16-bit window cannot produce.
Recent(index) == 2 * Distance(index + 1, first_unassembled(receiver.reassembler)) < W

\* A FIN that follows bytes the receiver has or gets with it, and has room for.
FinInOrder(index, last) ==
    /\ last <= stream_out(receiver).bytes_read + Capacity
    /\ index = last => first_unassembled(receiver.reassembler) = last

Arrive(index, last, syn, fin) ==
    /\ syn => index = 0
    /\ fin => closed /\ last = Len(input)
    /\ fin => EarlyFin \/ FinInOrder(index, last)
    /\ Recent(index)
    /\ receiver' = receiver_segment_received(receiver, Segment(index, last, syn, fin))
    /\ UNCHANGED <<input, closed, received, saw_eof>>

Read(len) ==
    /\ receiver' = [ receiver EXCEPT !.reassembler.output = pop_output(@, len) ]
    /\ received' = received \o peek_output(stream_out(receiver), len)
    /\ UNCHANGED <<input, closed, saw_eof>>

SeeEof ==
    /\ eof(stream_out(receiver))
    /\ saw_eof' = TRUE
    /\ UNCHANGED <<receiver, input, closed, received>>

ArriveAny ==
    \E last \in 0 .. Len(input) : \E index \in 0 .. last : \E syn, fin \in BOOLEAN :
        Arrive(index, last, syn, fin)

Next ==
    \/ \E data \in Chunks : Produce(data)
    \/ Close
    \/ ArriveAny
    \/ \E len \in Sizes : Read(len)
    \/ SeeEof

Spec == Init /\ [][Next]_vars

-----------------------------------------------------------------------------
\* A FIN is acknowledged exactly when the stream before it is assembled, and until then the ackno is
\* the first missing byte (tcp_receiver.cc:52), whatever arrived beyond it.
AckExact ==
    receiver.is_syn =>
        LET ended == stream_out(receiver).input_ended
        IN  /\ abs_ackno(receiver) = 1 + first_unassembled(receiver.reassembler) + int(ended)
            /\ ended => closed /\ first_unassembled(receiver.reassembler) = Len(input)

\* What was once acknowledged or offered stays so: neither the ackno nor the right edge of the window
\* (ackno plus window_size()) moves back, however late, repeated or overlapping the segments are.
EdgeNeverRetreats ==
    [][ /\ abs_ackno(receiver') >= abs_ackno(receiver)
        /\ abs_ackno(receiver') + window_size(receiver')
             >= abs_ackno(receiver) + window_size(receiver) ]_vars

Reassembler == INSTANCE StreamReassemblerSpec WITH
    reassembler <- receiver.reassembler, EarlyEof <- EarlyFin

\* Unwrapping gives every byte its own index (tcp_receiver.cc:38), also after the sequence numbers have
\* wrapped around: the receiver behaves as a StreamReassembler that is told the true indexes.
ImplementsReassembler == Reassembler!Spec
=============================================================================
