----------------------------- MODULE TCPSegment -----------------------------
(***************************************************************************)
(* TCPSegment and the fields of TCPHeader that the endpoints act on.  The  *)
(* ports, data offset, checksum, urgent and push fields are left to the    *)
(* adapters and the parser.                                                *)
(***************************************************************************)
EXTENDS Integers, Sequences

\* a bool used as an integer
int(b) == IF b THEN 1 ELSE 0

\* a default TCPSegment but for its sequence number
NewTCPSegment(seqno) ==
    [ seqno |-> seqno, syn |-> FALSE, fin |-> FALSE, payload |-> << >>,
      ack |-> FALSE, ackno |-> 0, win |-> 0, rst |-> FALSE ]

length_in_sequence_space(seg) == Len(seg.payload) + int(seg.syn) + int(seg.fin)
=============================================================================
