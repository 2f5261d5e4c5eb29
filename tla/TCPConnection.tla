--------------------------- MODULE TCPConnection ---------------------------
(***************************************************************************)
(* The TCPConnection class of libsponge/tcp_connection: one TCPReceiver    *)
(* and one TCPSender joined into an endpoint, which decides when both      *)
(* streams are finished and for how long to stay around afterwards.        *)
(***************************************************************************)
EXTENDS TCPReceiver, TCPSender

CONSTANTS MAX_RETX_ATTEMPTS,
          LINGER_FACTOR        \* the code lingers for 10 times the initial timeout

ASSUME ConnectionAssumption ==
    /\ MAX_RETX_ATTEMPTS \in Nat
    /\ LINGER_FACTOR \in Nat \ {0}

NewTCPConnection(recv_capacity, send_capacity, isn) ==
    [ receiver |-> NewTCPReceiver(recv_capacity),
      sender |-> NewTCPSender(send_capacity, isn),
      segments_out |-> << >>,
      linger_after_streams_finish |-> TRUE,
      error |-> FALSE,
      fin |-> FALSE,
      time_since_last_segment_received |-> 0 ]

inbound_stream(c) == stream_out(c.receiver)

\* a check that forgets what the peer has not acknowledged
check_prereqs_unacked(c) ==
    /\ c.fin /\ eof(c.sender.stream)
    /\ eof(inbound_stream(c))

\* both streams are finished and the peer is known to have all of ours
check_prereqs(c) ==
    /\ c.fin /\ eof(c.sender.stream) /\ bytes_in_flight(c.sender) = 0
    /\ eof(inbound_stream(c))

\* a connection that does not linger
active_without_linger(c) == ~c.error /\ ~check_prereqs(c)

active(c) == ~c.error /\ (~check_prereqs(c) \/ c.linger_after_streams_finish)

report(c) ==
    [ c EXCEPT !.error = TRUE,
               !.sender.stream = set_error(@),
               !.receiver.reassembler.output = set_error(@) ]

\* a segment that does not say that the connection has failed
stamped_without_rst(c, seg) ==
    [ seg EXCEPT !.ack = c.receiver.is_syn,
                 !.ackno = IF c.receiver.is_syn THEN ackno(c.receiver) ELSE @,
                 !.win = min(window_size(c.receiver), U16 - 1) ]

\* a segment of the sender as it leaves, with what the receiver and the connection have to say
stamped(c, seg) ==
    [ seg EXCEPT !.ack = c.receiver.is_syn,
                 !.ackno = IF c.receiver.is_syn THEN ackno(c.receiver) ELSE @,
                 !.win = min(window_size(c.receiver), U16 - 1),
                 !.rst = c.error ]

\* _send()
send(c) ==
    LET queue == c.sender.segments_out
    IN  [ c EXCEPT !.sender.segments_out = << >>,
                   !.segments_out = @ \o [ i \in DOMAIN queue |-> stamped(c, queue[i]) ],
                   !.fin = @ \/ \E i \in DOMAIN queue : queue[i].fin ]

is_keep_alive(c, seg) ==
    /\ length_in_sequence_space(seg) = 0
    /\ c.receiver.is_syn /\ seg.seqno = minus(ackno(c.receiver), 1)

\* the sender after a segment: told of the acknowledgment, and with an ACK to send if the segment
\* takes sequence numbers
sender_after(s, seg) ==
    LET told == IF seg.ack THEN ack_received(s, seg.ackno, seg.win) ELSE fill_window(s)
    IN  IF length_in_sequence_space(seg) > 0 /\ told.segments_out = << >>
        THEN send_empty_segment(told)
        ELSE told

\* a peer that ends first needs no lingering
linger_after(c) ==
    /\ c.linger_after_streams_finish
    /\ eof(inbound_stream(c)) => eof(c.sender.stream) /\ c.fin

ordinary_segment(c, seg) ==
    LET updated == [ c EXCEPT !.receiver = receiver_segment_received(@, seg),
                              !.sender = sender_after(@, seg) ]
    IN  [ updated EXCEPT !.linger_after_streams_finish = linger_after(updated) ]

connection_segment_received(c, seg) ==
    LET heard == [ c EXCEPT !.time_since_last_segment_received = 0 ]
        told == IF seg.rst THEN report(heard) ELSE heard
    IN  IF ~active(told) THEN told
        ELSE IF is_keep_alive(told, seg)
             THEN send([ told EXCEPT !.sender = send_empty_segment(@) ])
             ELSE send(ordinary_segment(told, seg))

connection_write(c, data) ==
    IF ~active(c) THEN c
    ELSE send([ c EXCEPT !.sender = fill_window([ @ EXCEPT !.stream = write(@, data) ]) ])

linger_time == LINGER_FACTOR * RT_TIMEOUT

\* a connection that lingers as long as it is told to
lingers_forever(c) == c.linger_after_streams_finish

lingers(c) ==
    /\ c.linger_after_streams_finish
    /\ ~(check_prereqs(c) /\ c.time_since_last_segment_received >= linger_time)

\* the clock counts up to the time it is compared with
connection_tick(c, ms) ==
    LET time == min(c.time_since_last_segment_received + ms, linger_time)
        ticked == [ c EXCEPT !.time_since_last_segment_received = time,
                             !.sender = sender_tick(@, ms) ]
        reported == IF ticked.sender.consecutive_retransmissions > MAX_RETX_ATTEMPTS
                    THEN report(ticked) ELSE ticked
    IN  IF ~active(c) THEN c
        ELSE send([ reported EXCEPT !.linger_after_streams_finish = lingers(reported) ])

\* an end that is sent although the connection is over
end_input_stream_always(c) ==
    send([ c EXCEPT !.sender = fill_window([ @ EXCEPT !.stream = end_input(@) ]) ])

end_input_stream(c) ==
    IF ~active(c) THEN c
    ELSE send([ c EXCEPT !.sender = fill_window([ @ EXCEPT !.stream = end_input(@) ]) ])

connect(c) == send([ c EXCEPT !.sender = fill_window(@) ])

\* the destructor
destroy(c) ==
    IF ~active(c) THEN c
    ELSE send([ report(c) EXCEPT !.sender = send_empty_segment(@) ])
=============================================================================
