--------------------------- MODULE ReliableStream ---------------------------
(***************************************************************************)
(* What every layer of sponge promises about a stream of bytes: the reader *)
(* sees a prefix of what the writer put in, in order and without gaps, and *)
(* is told that the stream is over only when it has seen all of it.  A     *)
(* ByteStream promises this inside a process, a StreamReassembler promises *)
(* it of substrings that arrive in any order, and a TCPConnection promises *)
(* it across a network that loses, duplicates and reorders segments.       *)
(***************************************************************************)
EXTENDS Integers, Sequences

CONSTANT Byte

VARIABLES input,      \* every byte the writer has put in
          closed,     \* the writer has ended its input
          output,     \* every byte handed to the reader
          finished    \* the reader has been told that the stream is over

vars == <<input, closed, output, finished>>

IsPrefix(s, t) == Len(s) <= Len(t) /\ SubSeq(s, 1, Len(s)) = SubSeq(t, 1, Len(s))

Init ==
    /\ input = << >>
    /\ closed = FALSE
    /\ output = << >>
    /\ finished = FALSE

\* "the writer can end the input, and then no more bytes can be written" (byte_stream.hh:8-9)
Accept ==
    /\ ~closed
    /\ input' \in Seq(Byte)
    /\ IsPrefix(input, input')
    /\ UNCHANGED <<closed, output, finished>>

Close ==
    /\ closed' = TRUE
    /\ UNCHANGED <<input, output, finished>>

Deliver ==
    /\ ~finished
    /\ IsPrefix(output, output')
    /\ IsPrefix(output', input)
    /\ finished' \in BOOLEAN
    /\ finished' => closed /\ output' = input
    /\ UNCHANGED <<input, closed>>

Next == Accept \/ Close \/ Deliver

Spec == Init /\ [][Next]_vars
=============================================================================
