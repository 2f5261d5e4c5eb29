--------------------------- MODULE TCPSenderSpec ---------------------------
(***************************************************************************)
(* A TCPSender between an application that writes, a peer that             *)
(* acknowledges and the clock.  The owner calls fill_window() after each   *)
(* write and takes what is in segments_out() after each call, as           *)
(* TCPConnection does.                                                     *)
(***************************************************************************)
EXTENDS TCPSender

CONSTANTS Byte,
          Capacity,
          Chunks,      \* the strings the application may write
          MaxWritten,  \* the application stops after this many bytes
          Windows,     \* the windows the peer may offer
          MaxRetx,     \* the clock stops after this many retransmissions in a row
          ISN

ASSUME SenderSpecAssumption ==
    /\ Capacity \in Nat
    /\ Chunks \subseteq Seq(Byte)
    /\ MaxWritten \in Nat /\ 2 * (MaxWritten + 4) <= W
    /\ Windows \subseteq 0 .. U16 - 1
    /\ MaxRetx \in Nat
    /\ ISN \in WrappingInt32

VARIABLES sender,
          written,   \* every byte the stream has taken
          sent,      \* the segments the last call put on the wire
          edge,      \* the right edge of the window in the last acknowledgment
          in_order   \* whether no acknowledgment has arrived after a newer one

vars == <<sender, written, sent, edge, in_order>>

Init ==
    /\ sender = NewTCPSender(Capacity, ISN)
    /\ written = << >>
    /\ sent = << >>
    /\ edge = 1
    /\ in_order = TRUE

\* the owner empties segments_out()
Drain(s) ==
    /\ sender' = [ s EXCEPT !.segments_out = << >> ]
    /\ sent' = s.segments_out

Connect ==
    /\ Drain(fill_window(sender))
    /\ UNCHANGED <<written, edge, in_order>>

Write(data) ==
    /\ ~sender.stream.input_ended
    /\ Len(written) + Len(data) <= MaxWritten
    /\ written' = written \o SubSeq(data, 1, accepted_size(sender.stream, data))
    /\ Drain(fill_window([ sender EXCEPT !.stream = write(@, data) ]))
    /\ UNCHANGED <<edge, in_order>>

EndInput ==
    /\ Drain(fill_window([ sender EXCEPT !.stream = end_input(@) ]))
    /\ UNCHANGED <<written, edge, in_order>>

\* an acknowledgment of what was sent, or of one sequence number more
Ack(a, window) ==
    /\ edge' = IF a > sender.next_seqno THEN edge ELSE a + window
    /\ in_order' = (in_order /\ a >= sender.current_seqno /\ edge' >= edge)
    /\ Drain(ack_received(sender, wrap(a, ISN), window))
    /\ UNCHANGED written

Tick(ms) ==
    /\ sender.consecutive_retransmissions < MaxRetx
    /\ Drain(sender_tick(sender, ms))
    /\ UNCHANGED <<written, edge, in_order>>

SendEmpty ==
    /\ Drain(send_empty_segment(sender))
    /\ UNCHANGED <<written, edge, in_order>>

AckAny == \E a \in 1 .. sender.next_seqno + 1, window \in Windows : Ack(a, window)

Next ==
    \/ Connect
    \/ \E data \in Chunks : Write(data)
    \/ EndInput
    \/ AckAny
    \/ \E ms \in 1 .. RT_TIMEOUT : Tick(ms)
    \/ SendEmpty

Spec == Init /\ [][Next]_vars

\* the peer has got everything and says so
AckNewest == bytes_in_flight(sender) > 0 /\ \E window \in Windows : Ack(sender.next_seqno, window)

\* WF_vars(AckNewest), with what enables it written out: whatever is in flight arrives in the end,
\* because the timer sends it again, and is acknowledged.
Fairness == []<>(bytes_in_flight(sender) = 0) \/ []<><<AckNewest>>_vars

FairSpec == Spec /\ Fairness

-----------------------------------------------------------------------------
\* where a segment starts
Start(seg) == unwrap(seg.seqno, ISN, sender.next_seqno)

End(seg) == Start(seg) + length_in_sequence_space(seg)

\* a segment carries what the stream has at its place: the SYN at 0, byte i at i, the FIN at the end
Genuine(seg) ==
    /\ seg.syn <=> Start(seg) = 0
    /\ LET first == Start(seg) + int(seg.syn)
       IN  /\ seg.payload = SubSeq(written, first, first + Len(seg.payload) - 1)
           /\ seg.fin => sender.stream.input_ended /\ first + Len(seg.payload) = Len(written) + 1

\* Every segment put on the wire, new or sent again, is genuine (tcp_sender.cc:54-71, :145); an empty
\* one is at the end of what was sent.
SentGenuine ==
    \A i \in DOMAIN sent :
        IF length_in_sequence_space(sent[i]) > 0
        THEN Genuine(sent[i])
        ELSE Start(sent[i]) = sender.next_seqno

\* The outstanding segments cover every unacknowledged sequence number, without gap or overlap, and
\* no segment that is wholly acknowledged is kept (tcp_sender.cc:110-123).
Tiling ==
    LET segs == sender.outstanding_segments
        last == Len(segs)
    IN  /\ \A i \in DOMAIN segs : length_in_sequence_space(segs[i]) > 0 /\ Genuine(segs[i])
        /\ \A i \in 1 .. last - 1 : End(segs[i]) = Start(segs[i + 1])
        /\ last = 0 => bytes_in_flight(sender) = 0
        /\ last > 0 => /\ Start(segs[1]) <= sender.current_seqno
                       /\ End(segs[1]) > sender.current_seqno
                       /\ End(segs[last]) = sender.next_seqno

\* The timer runs exactly while something is unacknowledged, so that tick() never takes the front of an
\* empty queue (tcp_sender.cc:137-145) and nothing in flight is left without a timer.
TimerMatches == sender.is_timer_on <=> sender.outstanding_segments # << >>

\* 2 to the power n
Doubled[n \in Nat] == IF n = 0 THEN 1 ELSE 2 * Doubled[n - 1]

\* The timeout has doubled once per retransmission counted, and the timer is below it: neither a stale
\* acknowledgment nor a closed window leaves one reset and the other not (tcp_sender.cc:77-82, :118-120,
\* :149-154).
Backoff ==
    /\ sender.retransmission_timeout = RT_TIMEOUT * Doubled[sender.consecutive_retransmissions]
    /\ sender.timer_elapsed < sender.retransmission_timeout

\* As long as acknowledgments arrive in order, nothing is sent beyond the peer's window, or beyond one
\* byte when it is closed.
FlowControl == in_order => sender.next_seqno <= max(edge, sender.current_seqno + 1)

\* A stream that is ended is sent and acknowledged to its FIN, even by a peer that never offers more
\* than a closed window.
Drains == sender.stream.input_ended ~> sender.fin /\ bytes_in_flight(sender) = 0
=============================================================================
