------------------------- MODULE StreamReassembler -------------------------
(***************************************************************************)
(* The StreamReassembler class of libsponge/stream_reassembler.  The two   *)
(* deques _buffer and _state are one function, `pending`: slot b of the    *)
(* deques is the byte with stream index bytes_written + b, which is in the *)
(* domain of `pending` when _state[b] is set.                              *)
(***************************************************************************)
EXTENDS ByteStream, WrappingIntegers, FiniteSets

NewStreamReassembler(capacity) ==
    [ output |-> NewByteStream(capacity),
      capacity |-> capacity,
      unassembled_bytes |-> 0,
      eof |-> FALSE,
      pending |-> << >> ]

first_unassembled(r) == r.output.bytes_written

empty(r) == r.unassembled_bytes = 0

\* a check that believes every eof flag
accepts_eof_anywhere(r, data, index, fin) == fin

\* the eof flag counts only when the end of data fits in the window
accepts_eof(r, data, index, fin) ==
    fin /\ (index + Len(data)) % U64 <= r.output.bytes_read + r.capacity

\* a store loop that trusts the capacity and forgets the bytes still unread
kept_up_to_capacity(r, data, index) ==
    { i \in first_unassembled(r) .. first_unassembled(r) + r.capacity - 1 :
          i - index \in 0 .. Len(data) - 1 }

\* the stream indexes the store loop writes: not assembled before, and inside the window.  An index
\* that wraps around 2^64 starts outside the window, where the loop breaks.
kept(r, data, index) ==
    { i \in first_unassembled(r) .. first_unassembled(r) + remaining_capacity(r.output) - 1 :
          i - index \in 0 .. Len(data) - 1 }

\* a count that includes the bytes already held
fresh_bytes_recounted(r, data, index) == Cardinality(kept(r, data, index))

fresh_bytes(r, data, index) == Cardinality(kept(r, data, index) \ DOMAIN r.pending)

\* a store loop that skips what was assembled before in the window but not in data
merged_from_start(r, data, index) ==
    [ i \in DOMAIN r.pending \union kept(r, data, index) |->
          IF i \in kept(r, data, index) THEN data[i - max(index, first_unassembled(r)) + 1]
          ELSE r.pending[i] ]

\* what is held after the store loop; a byte pushed again is overwritten
merged(r, data, index) ==
    [ i \in DOMAIN r.pending \union kept(r, data, index) |->
          IF i \in kept(r, data, index) THEN data[i - index + 1] ELSE r.pending[i] ]

\* a drain loop that stops at the first byte
drained_one(held, first, room) == IF first \in held /\ room > 0 THEN 1 ELSE 0

\* how many bytes the drain loop takes: it stops at the first hole or when the output is full
drained(held, first, room) ==
    CHOOSE n \in 0 .. room :
        /\ \A i \in first .. first + n - 1 : i \in held
        /\ n < room => first + n \notin held

push_substring(r, data, index, fin) ==
    LET first == first_unassembled(r)
        held == merged(r, data, index)
        n == drained(DOMAIN held, first, remaining_capacity(r.output))
        ret == [ i \in 1 .. n |-> held[first + i - 1] ]
        written == write(r.output, ret)
        ended == r.eof \/ accepts_eof(r, data, index, fin)
        waiting == r.unassembled_bytes + fresh_bytes(r, data, index) - n
    IN  [ output |-> IF ended /\ waiting = 0 THEN end_input(written) ELSE written,
          capacity |-> r.capacity,
          unassembled_bytes |-> waiting,
          eof |-> ended,
          pending |-> [ i \in DOMAIN held \ (first .. first + n - 1) |-> held[i] ] ]
=============================================================================
