---------------------------- MODULE TCPReceiver ----------------------------
(***************************************************************************)
(* The TCPReceiver class of libsponge/tcp_receiver: turns the sequence     *)
(* numbers of segments into stream indexes for its StreamReassembler, and  *)
(* computes the ackno and window to advertise.                             *)
(***************************************************************************)
EXTENDS StreamReassembler, TCPSegment

NewTCPReceiver(capacity) ==
    [ reassembler |-> NewStreamReassembler(capacity),
      capacity |-> capacity,
      is_syn |-> FALSE,
      is_fin |-> FALSE,
      isn |-> 0 ]

stream_out(r) == r.reassembler.output

\* an index that forgets that the SYN of this segment takes a sequence number
stream_index_ignoring_syn(isn, seg, checkpoint) == (unwrap(seg.seqno, isn, checkpoint) - 1) % U64

\* the stream index of the first payload byte
stream_index(isn, seg, checkpoint) ==
    (unwrap(plus(seg.seqno, int(seg.syn)), isn, checkpoint) - 1) % U64

\* the first SYN fixes the ISN; nothing is taken before it
receiver_segment_received(r, seg) ==
    LET isn == IF r.is_syn THEN r.isn ELSE seg.seqno
        index == stream_index(isn, seg, first_unassembled(r.reassembler))
    IN  IF ~r.is_syn /\ ~seg.syn THEN r
        ELSE [ r EXCEPT !.is_syn = TRUE,
                        !.isn = isn,
                        !.is_fin = @ \/ seg.fin,
                        !.reassembler = push_substring(@, seg.payload, index, seg.fin) ]

\* an ackno that counts the FIN as soon as it was seen
abs_ackno_on_fin(r) == 1 + first_unassembled(r.reassembler) + int(r.is_fin)

\* an ackno that counts the bytes held out of order
abs_ackno_of_held(r) ==
    LET q == r.reassembler
    IN  1 + first_unassembled(q) + q.unassembled_bytes + int(r.is_fin /\ empty(q))

\* meant for a receiver that has seen a SYN
abs_ackno(r) == 1 + first_unassembled(r.reassembler) + int(r.is_fin /\ empty(r.reassembler))

ackno(r) == wrap(abs_ackno(r), r.isn)

\* a window that gives up the bytes held out of order
window_size_less_unassembled(r) ==
    r.capacity - buffer_size(stream_out(r)) - r.reassembler.unassembled_bytes

window_size(r) == r.capacity - buffer_size(stream_out(r))
=============================================================================
