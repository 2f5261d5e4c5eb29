-------------------------- MODULE WrappingIntegers --------------------------
(***************************************************************************)
(* Sequence-number arithmetic of libsponge/wrapping_integers: absolute     *)
(* 64-bit sequence numbers and their 32-bit wire form relative to an ISN.  *)
(* W stands for 2^32, so the 64-bit integers are the residues modulo W*W.  *)
(***************************************************************************)
EXTENDS Integers

CONSTANT W

ASSUME WAssumption == W \in Nat /\ W > 1

U64 == W * W
WrappingInt32 == 0 .. W - 1
UInt64 == 0 .. U64 - 1

\* a + b and a - b of a WrappingInt32 and a (truncated) integer
plus(a, b) == (a + b) % W

minus(a, b) == (a - b) % W

wrap(n, isn) == plus(isn, n)

\* the wrong way round: the offset is not taken off the checkpoint first
unwrap_without_offset(n, isn, checkpoint) ==
    LET lower_32 == minus(n, isn)
        upper_32 == checkpoint \div W
        low == upper_32 * W + lower_32
        high == ((upper_32 + 1) * W + lower_32) % U64
    IN  IF checkpoint <= lower_32 THEN lower_32
        ELSE IF (checkpoint - low) % U64 >= (high - checkpoint) % U64 THEN high ELSE low

unwrap(n, isn, checkpoint) ==
    LET lower_32 == minus(n, isn)
        upper_32 == ((checkpoint - lower_32) % U64) \div W
        low == upper_32 * W + lower_32
        high == ((upper_32 + 1) * W + lower_32) % U64
    IN  IF checkpoint <= lower_32 THEN lower_32
        ELSE IF (checkpoint - low) % U64 >= (high - checkpoint) % U64 THEN high ELSE low

-----------------------------------------------------------------------------
Distance(a, b) == IF a >= b THEN a - b ELSE b - a

\* unwrap promises the number congruent to n that is closest to checkpoint
IsClosest(u, n, isn, checkpoint) ==
    /\ u \in UInt64
    /\ wrap(u, isn) = n
    /\ \A v \in UInt64 : wrap(v, isn) = n => Distance(u, checkpoint) <= Distance(v, checkpoint)
=============================================================================
