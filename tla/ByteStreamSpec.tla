--------------------------- MODULE ByteStreamSpec ---------------------------
(***************************************************************************)
(* A ByteStream between a writer and a reader that take turns in any       *)
(* order.  The histories `accepted` and `received` record what write()     *)
(* took and what the reader got; `saw_eof` is the reader's own conclusion. *)
(***************************************************************************)
EXTENDS ByteStream

CONSTANTS Byte,
          Capacity,      \* room in the buffer
          Chunks,        \* the strings the writer may pass to write()
          Sizes,         \* the lengths the reader may ask for
          MaxWritten,    \* the writer stops after this many bytes
          WriteAfterEnd  \* whether the writer may call write() after end_input()

ASSUME StreamAssumption ==
    /\ Capacity \in Nat
    /\ Chunks \subseteq Seq(Byte)
    /\ Sizes \subseteq Nat
    /\ MaxWritten \in Nat
    /\ WriteAfterEnd \in BOOLEAN

VARIABLES stream, accepted, received, saw_eof

vars == <<stream, accepted, received, saw_eof>>

Init ==
    /\ stream = NewByteStream(Capacity)
    /\ accepted = << >>
    /\ received = << >>
    /\ saw_eof = FALSE

Write(data) ==
    /\ stream.input_ended => WriteAfterEnd
    /\ stream.bytes_written + Len(data) <= MaxWritten
    /\ stream' = write(stream, data)
    /\ accepted' = accepted \o SubSeq(data, 1, accepted_size(stream, data))
    /\ UNCHANGED <<received, saw_eof>>

\* read(): copy, then pop
Read(len) ==
    /\ stream' = pop_output(stream, len)
    /\ received' = received \o peek_output(stream, len)
    /\ UNCHANGED <<accepted, saw_eof>>

EndInput ==
    /\ stream' = end_input(stream)
    /\ UNCHANGED <<accepted, received, saw_eof>>

SetError ==
    /\ stream' = set_error(stream)
    /\ UNCHANGED <<accepted, received, saw_eof>>

SeeEof ==
    /\ eof(stream)
    /\ saw_eof' = TRUE
    /\ UNCHANGED <<stream, accepted, received>>

Next ==
    \/ \E data \in Chunks : Write(data)
    \/ \E len \in Sizes : Read(len)
    \/ EndInput
    \/ SetError
    \/ SeeEof

Spec == Init /\ [][Next]_vars

-----------------------------------------------------------------------------
TypeOK ==
    /\ stream \in ByteStreamType(Byte)
    /\ stream.capacity = Capacity
    /\ accepted \in Seq(Byte)
    /\ received \in Seq(Byte)
    /\ saw_eof \in BOOLEAN

\* Whatever the order of partial writes and short or greedy reads, every accepted byte is either read
\* or buffered, in order, and the counters that the TCP layers take sequence numbers from
\* (bytes_written, bytes_read: byte_stream.cc:32, :21) count exactly those bytes.
Fifo ==
    /\ accepted = received \o stream.buffer
    /\ stream.bytes_written = Len(accepted)
    /\ stream.bytes_read = Len(received)

\* The buffer never outgrows the capacity, so remaining_capacity() (an unsigned difference,
\* byte_stream.cc:66) never wraps around.
WithinCapacity == Len(stream.buffer) <= Capacity

Abstract == INSTANCE ReliableStream WITH
    input <- accepted, closed <- stream.input_ended, output <- received, finished <- saw_eof

\* A writer that stops at end_input() and a reader that trusts eof() are joined by a reliable stream.
ImplementsReliableStream == Abstract!Spec
=============================================================================
