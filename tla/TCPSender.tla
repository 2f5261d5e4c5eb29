----------------------------- MODULE TCPSender -----------------------------
(***************************************************************************)
(* The TCPSender class of libsponge/tcp_sender: cuts its outgoing stream   *)
(* into segments that fit the peer's window, keeps them until they are     *)
(* acknowledged and sends the oldest again when its timer expires.         *)
(***************************************************************************)
EXTENDS ByteStream, WrappingIntegers, TCPSegment

CONSTANTS U16,               \* the range of the 16-bit window fields
          MAX_PAYLOAD_SIZE,
          RT_TIMEOUT         \* the initial retransmission timeout

ASSUME SenderAssumption ==
    /\ U16 \in Nat /\ U16 > 1 /\ U64 % U16 = 0
    /\ MAX_PAYLOAD_SIZE \in Nat \ {0}
    /\ RT_TIMEOUT \in Nat \ {0}

NewTCPSender(capacity, isn) ==
    [ isn |-> isn,
      window_size |-> 1,
      receiver_window_size |-> 1,
      segments_out |-> << >>,
      outstanding_segments |-> << >>,
      is_timer_on |-> FALSE,
      retransmission_timeout |-> RT_TIMEOUT,
      timer_elapsed |-> 0,
      consecutive_retransmissions |-> 0,
      stream |-> NewByteStream(capacity),
      fin |-> FALSE,
      current_seqno |-> 0,
      next_seqno |-> 0 ]

bytes_in_flight(s) == s.next_seqno - s.current_seqno

\* the timer is started unless it is running
start_timer(s) ==
    IF s.is_timer_on THEN s
    ELSE [ s EXCEPT !.is_timer_on = TRUE, !.retransmission_timeout = RT_TIMEOUT,
                    !.timer_elapsed = 0, !.consecutive_retransmissions = 0 ]

\* the FIN goes with the last byte, if the window has room for both
reach_fin(s) ==
    /\ s.stream.input_ended /\ ~s.fin
    /\ s.window_size >= int(s.next_seqno = 0) + buffer_size(s.stream) + 1

\* how many bytes of the stream the window has room for
actual_payload_size(s) ==
    LET has_syn == int(s.next_seqno = 0)
        has_fin == int(s.stream.input_ended /\ ~s.fin)
    IN  min(has_syn + buffer_size(s.stream) + has_fin, s.window_size) - has_syn - int(reach_fin(s))

num_segments(s) ==
    max((actual_payload_size(s) + MAX_PAYLOAD_SIZE - 1) \div MAX_PAYLOAD_SIZE,
        int(s.next_seqno = 0 \/ reach_fin(s)))

\* a loop that reads the front of the stream for every segment
new_segment_rereading(s, i) ==
    LET before == MAX_PAYLOAD_SIZE * (i - 1)
        size == min(MAX_PAYLOAD_SIZE, actual_payload_size(s) - before)
    IN  [ NewTCPSegment(wrap(s.next_seqno + before, s.isn)) EXCEPT
              !.syn = s.next_seqno = 0,
              !.fin = reach_fin(s) /\ i = num_segments(s),
              !.payload = SubSeq(s.stream.buffer, 1, size) ]

\* the segments of one call of fill_window, numbered from 1
new_segment(s, i) ==
    LET has_syn == s.next_seqno = 0
        before == MAX_PAYLOAD_SIZE * (i - 1)
        size == min(MAX_PAYLOAD_SIZE, actual_payload_size(s) - before)
        seqno == s.next_seqno + before + int(has_syn /\ i > 1)
    IN  [ NewTCPSegment(wrap(seqno, s.isn)) EXCEPT
              !.syn = has_syn /\ i = 1,
              !.fin = reach_fin(s) /\ i = num_segments(s),
              !.payload = SubSeq(s.stream.buffer, before + 1, before + size) ]

fill_window(s) ==
    LET segments == [ i \in 1 .. num_segments(s) |-> new_segment(s, i) ]
        length == int(s.next_seqno = 0) + actual_payload_size(s) + int(reach_fin(s))
        filled == [ s EXCEPT
                      !.stream = pop_output(@, actual_payload_size(s)),
                      !.next_seqno = @ + length,
                      !.window_size = @ - length,
                      !.segments_out = @ \o segments,
                      !.outstanding_segments = @ \o segments,
                      !.fin = @ \/ reach_fin(s) ]
    IN  IF segments = << >> THEN s ELSE start_timer(filled)

\* a bound that takes a segment for acknowledged once its first byte is
segment_start(s, seg) == unwrap(seg.seqno, s.isn, s.next_seqno) + 1

\* the absolute sequence number after a segment
segment_end(s, seg) == unwrap(seg.seqno, s.isn, s.next_seqno) + length_in_sequence_space(seg)

\* the loop that pops acknowledged segments stops at the first that is not
pop_acked(s) ==
    LET segs == s.outstanding_segments
        n == CHOOSE n \in 0 .. Len(segs) :
                 /\ \A i \in 1 .. n : segment_end(s, segs[i]) <= s.current_seqno
                 /\ n < Len(segs) => segment_end(s, segs[n + 1]) > s.current_seqno
    IN  IF n = 0 THEN s
        ELSE [ s EXCEPT !.outstanding_segments = SubSeq(segs, n + 1, Len(segs)),
                        !.retransmission_timeout = RT_TIMEOUT,
                        !.timer_elapsed = 0,
                        !.consecutive_retransmissions = 0 ]

\* a timer that keeps running
stop_timer_never(s) == s

stop_timer(s) == IF s.outstanding_segments = << >> THEN [ s EXCEPT !.is_timer_on = FALSE ] ELSE s

\* an estimate that does not count what is in flight
estimated_window_whole(window, in_flight) == max(window, 1) % U16

\* an estimate without the one byte that probes a closed window
estimated_window_closed(window, in_flight) == (window - in_flight) % U16

\* an unsigned difference, truncated to 16 bits
estimated_window(window, in_flight) == (max(window, 1) - in_flight) % U16

ack_received(s, ackno, window) ==
    LET absolute_ackno == unwrap(ackno, s.isn, s.next_seqno)
        current == max(s.current_seqno, absolute_ackno)
        updated == [ s EXCEPT
                       !.current_seqno = current,
                       !.receiver_window_size = window,
                       !.window_size = estimated_window(window, s.next_seqno - current) ]
    IN  IF absolute_ackno > s.next_seqno THEN stop_timer(s)
        ELSE IF ~s.is_timer_on THEN updated
        ELSE stop_timer(fill_window(pop_acked(updated)))

\* a tick that backs off although the peer's window is closed
sender_tick_impatient(s, ms) ==
    LET elapsed == s.timer_elapsed + ms
    IN  IF ~s.is_timer_on THEN s
        ELSE IF elapsed < s.retransmission_timeout THEN [ s EXCEPT !.timer_elapsed = elapsed ]
        ELSE [ s EXCEPT !.segments_out = Append(@, Head(s.outstanding_segments)),
                        !.consecutive_retransmissions = @ + int(s.receiver_window_size > 0),
                        !.retransmission_timeout = 2 * @,
                        !.timer_elapsed = 0 ]

\* the oldest segment is sent again; the timeout doubles unless the peer's window is closed
sender_tick(s, ms) ==
    LET elapsed == s.timer_elapsed + ms
        again == [ s EXCEPT !.segments_out = Append(@, Head(s.outstanding_segments)),
                            !.timer_elapsed = 0 ]
    IN  IF ~s.is_timer_on THEN s
        ELSE IF elapsed < s.retransmission_timeout THEN [ s EXCEPT !.timer_elapsed = elapsed ]
        ELSE IF s.receiver_window_size = 0 THEN again
        ELSE [ again EXCEPT !.consecutive_retransmissions = @ + 1,
                            !.retransmission_timeout = 2 * @ ]

send_empty_segment(s) ==
    [ s EXCEPT !.segments_out = Append(@, NewTCPSegment(wrap(s.next_seqno, s.isn))) ]
=============================================================================
