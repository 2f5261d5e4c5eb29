------------------------------ MODULE TCPState ------------------------------
(***************************************************************************)
(* The TCPState class of libsponge/tcp_helpers/tcp_state: the official     *)
(* states of a connection as combinations of what can be seen of it.       *)
(***************************************************************************)
EXTENDS TCPConnection

OfficialState(receiver, sender, active_flag, linger) ==
    [ receiver |-> receiver, sender |-> sender, active |-> active_flag, linger |-> linger ]

\* TCPState(State)
State ==
    [ LISTEN |-> OfficialState("LISTEN", "CLOSED", TRUE, TRUE),
      SYN_RCVD |-> OfficialState("SYN_RECV", "SYN_SENT", TRUE, TRUE),
      SYN_SENT |-> OfficialState("LISTEN", "SYN_SENT", TRUE, TRUE),
      ESTABLISHED |-> OfficialState("SYN_RECV", "SYN_ACKED", TRUE, TRUE),
      CLOSE_WAIT |-> OfficialState("FIN_RECV", "SYN_ACKED", TRUE, FALSE),
      LAST_ACK |-> OfficialState("FIN_RECV", "FIN_SENT", TRUE, FALSE),
      CLOSING |-> OfficialState("FIN_RECV", "FIN_SENT", TRUE, TRUE),
      FIN_WAIT_1 |-> OfficialState("SYN_RECV", "FIN_SENT", TRUE, TRUE),
      FIN_WAIT_2 |-> OfficialState("SYN_RECV", "FIN_ACKED", TRUE, TRUE),
      TIME_WAIT |-> OfficialState("FIN_RECV", "FIN_ACKED", TRUE, TRUE),
      RESET |-> OfficialState("ERROR", "ERROR", FALSE, FALSE),
      CLOSED |-> OfficialState("FIN_RECV", "FIN_ACKED", FALSE, FALSE) ]

receiver_summary(r) ==
    IF stream_out(r).error THEN "ERROR"
    ELSE IF ~r.is_syn THEN "LISTEN"
    ELSE IF stream_out(r).input_ended THEN "FIN_RECV" ELSE "SYN_RECV"

sender_summary(s) ==
    IF s.stream.error THEN "ERROR"
    ELSE IF s.next_seqno = 0 THEN "CLOSED"
    ELSE IF s.next_seqno = bytes_in_flight(s) THEN "SYN_SENT"
    ELSE IF ~eof(s.stream) \/ s.next_seqno < s.stream.bytes_written + 2 THEN "SYN_ACKED"
    ELSE IF bytes_in_flight(s) > 0 THEN "FIN_SENT" ELSE "FIN_ACKED"

\* TCPConnection::state()
state(c) ==
    OfficialState(receiver_summary(c.receiver), sender_summary(c.sender), active(c),
                  active(c) /\ c.linger_after_streams_finish)
=============================================================================
