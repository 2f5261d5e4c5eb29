------------------------------- MODULE Parser -------------------------------
(***************************************************************************)
(* Bytes and how libsponge/util reads, writes and sums them: Buffer and    *)
(* BufferList, NetParser and NetUnparser, InternetChecksum.  A Buffer is   *)
(* the bytes it still holds.  Bytes have their real width; a 32-bit        *)
(* integer is the pair of its 16-bit halves, which TLC's integers can hold.*)
(***************************************************************************)
EXTENDS Integers, SequencesExt

Byte == 0 .. 255

\* BufferList: the Buffers one after the other, never copied until concatenate()
concatenate(buffers) == FlattenSeq(buffers)

NewNetParser(buffer) == [ buffer |-> buffer, error |-> "NoError" ]

check_size(p, size) == IF size > Len(p.buffer) THEN [ p EXCEPT !.error = "PacketTooShort" ] ELSE p

\* the Buffer loses its first n bytes, unless the parser has failed, now or before
remove_prefix(p, n) ==
    LET checked == check_size(p, n)
    IN  IF checked.error # "NoError" THEN checked
        ELSE [ checked EXCEPT !.buffer = SubSeq(@, n + 1, Len(@)) ]

\* the value of `size` bytes in network order: an integer, halves, or an EthernetAddress read byte by byte
decoded(bytes) ==
    CASE Len(bytes) = 1 -> bytes[1]
      [] Len(bytes) = 2 -> 256 * bytes[1] + bytes[2]
      [] Len(bytes) = 4 -> << 256 * bytes[1] + bytes[2], 256 * bytes[3] + bytes[4] >>
      [] OTHER -> bytes

\* what a parser that has failed returns
zero(size) == decoded([ n \in 1 .. size |-> 0 ])

\* u8(), u16(), u32() and arrays of u8(), one for each size: the values and the parser after them
parse_fields(p, sizes) ==
    FoldLeft(LAMBDA done, size :
               LET next == remove_prefix(done.parser, size)
               IN  [ parser |-> next,
                     values |-> Append(done.values, IF next.error # "NoError" THEN zero(size)
                                                    ELSE decoded(SubSeq(done.parser.buffer, 1, size))) ],
             [ parser |-> p, values |-> << >> ], sizes)

u8(value) == << value % 256 >>
u16(value) == << (value \div 256) % 256, value % 256 >>
u32(value) == u16(value[1]) \o u16(value[2])

\* s.resize(size) of a string that is not longer
padded(bytes, size) == bytes \o [ n \in 1 .. size - Len(bytes) |-> 0 ]

int(b) == IF b THEN 1 ELSE 0
has_bit(value, bit) == (value \div bit) % 2 = 1

-----------------------------------------------------------------------------
NewInternetChecksum(initial_sum) == [ sum |-> initial_sum, parity |-> FALSE ]

add(check, data) ==
    FoldLeft(LAMBDA c, byte : [ sum |-> c.sum + (IF c.parity THEN byte ELSE 256 * byte), parity |-> ~c.parity ],
             check, data)

\* two rounds are enough for the loop on an unsigned 32-bit sum
value(check) ==
    LET folded(n) == (n \div 65536) + (n % 65536)
    IN  65535 - folded(folded(check.sum))
=============================================================================
