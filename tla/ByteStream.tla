------------------------------ MODULE ByteStream ------------------------------
(***************************************************************************)
(* The ByteStream class of libsponge/byte_stream as a record, one operator *)
(* per method.  The bytes themselves are opaque.                           *)
(***************************************************************************)
EXTENDS Integers, Sequences

min(a, b) == IF a <= b THEN a ELSE b

max(a, b) == IF a >= b THEN a ELSE b

NewByteStream(capacity) ==
    [ capacity |-> capacity,
      bytes_written |-> 0,
      bytes_read |-> 0,
      input_ended |-> FALSE,
      buffer |-> << >>,
      error |-> FALSE ]

ByteStreamType(Byte) ==
    [ capacity : Nat,
      bytes_written : Nat,
      bytes_read : Nat,
      input_ended : BOOLEAN,
      buffer : Seq(Byte),
      error : BOOLEAN ]

buffer_size(s) == Len(s.buffer)

remaining_capacity(s) == s.capacity - buffer_size(s)

eof(s) == buffer_size(s) = 0 /\ s.input_ended

\* how many bytes of data write() takes
accepted_size(s, data) == min(Len(data), remaining_capacity(s))

write(s, data) ==
    LET size == accepted_size(s, data)
    IN  [ s EXCEPT !.buffer = @ \o SubSeq(data, 1, size), !.bytes_written = @ + size ]

available_output(s, len) == min(len, buffer_size(s))

peek_output(s, len) == SubSeq(s.buffer, 1, available_output(s, len))

\* a pop that counts the bytes asked for instead of the bytes there are
pop_output_miscounted(s, len) ==
    [ s EXCEPT !.buffer = SubSeq(@, available_output(s, len) + 1, Len(@)), !.bytes_read = @ + len ]

\* a pop that leaves the oldest byte and drops the newest
pop_output_back(s, len) ==
    LET size == available_output(s, len)
    IN  [ s EXCEPT !.buffer = SubSeq(@, 1, Len(@) - size), !.bytes_read = @ + size ]

pop_output(s, len) ==
    LET size == available_output(s, len)
    IN  [ s EXCEPT !.buffer = SubSeq(@, size + 1, Len(@)), !.bytes_read = @ + size ]

end_input(s) == [ s EXCEPT !.input_ended = TRUE ]

set_error(s) == [ s EXCEPT !.error = TRUE ]
=============================================================================
