-------------------------- MODULE TCPSpongeSocket --------------------------
(***************************************************************************)
(* The TCPSpongeSocket class of libsponge/tcp_helpers/tcp_sponge_socket:   *)
(* a TCPConnection, the four rules of the event loop that serves it, and   *)
(* the pair of local sockets between its thread and its owner.  The pipe   *)
(* "to_tcp" carries what the owner writes, "to_owner" what it reads; net   *)
(* holds the datagrams that wait at the adapter and at the peer.           *)
(***************************************************************************)
EXTENDS TCPState, FileDescriptor

Pair == {"to_tcp", "to_owner"}

NewTCPSpongeSocket(c) ==
    [ tcp |-> c, abort |-> FALSE, inbound_shutdown |-> FALSE, outbound_shutdown |-> FALSE ]

\* rules 1 and 4 watch the adapter, rules 2 and 3 the local socket of the thread
SocketRules == 4

socket_reads(r) == r \in {1, 2}

socket_eof(r, w) == r \in {2, 3} /\ w.pipe["to_tcp"].eof

socket_closed(r, w) == FALSE

socket_revents(r, w) ==
    IF r \in {2, 3} THEN revents(w, "to_tcp", "to_owner")
    ELSE {"OUT"} \cup (IF w.net.host # << >> THEN {"IN"} ELSE {})

\* a capacity that does not ask whether the connection is over
remaining_outbound_capacity_always(c) == remaining_capacity(c.sender.stream)

remaining_outbound_capacity(c) == IF active(c) THEN remaining_capacity(c.sender.stream) ELSE 0

inbound_over(c) == eof(inbound_stream(c)) \/ inbound_stream(c).error

socket_interest(r, w) ==
    LET c == w.sock.tcp
    IN  CASE r = 1 -> active(c)
          [] r = 2 -> /\ active(c) /\ ~w.sock.outbound_shutdown
                      /\ remaining_outbound_capacity(c) > 0
          [] r = 3 -> \/ buffer_size(inbound_stream(c)) > 0
                      \/ (inbound_over(c) /\ ~w.sock.inbound_shutdown)
          [] r = 4 -> c.segments_out # << >>

\* rule 1: a datagram for the connection
receive(w) ==
    [ w EXCEPT !.net.host = Tail(@), !.serviced = TRUE,
               !.sock.tcp = connection_segment_received(@, Head(w.net.host)) ]

outbound_finished(w) ==
    [ w EXCEPT !.sock.tcp = end_input_stream(@), !.sock.outbound_shutdown = TRUE ]

\* how much of data the connection takes; write() takes nothing when it is inactive
amount_written(c, data) == IF active(c) THEN accepted_size(c.sender.stream, data) ELSE 0

\* rule 2: bytes from the owner
send_outbound(w) ==
    LET limit == remaining_outbound_capacity(w.sock.tcp)
        data == input(w, "to_tcp", limit)
        short == amount_written(w.sock.tcp, data) # Len(data)
        taken == [ fd_read(w, "to_tcp", limit) EXCEPT
                       !.sock.tcp = connection_write(@, data),
                       !.threw = @ \cup IF short THEN {"short"} ELSE {} ]
    IN  IF ~short /\ taken.pipe["to_tcp"].eof THEN outbound_finished(taken) ELSE taken

\* a rule 3 that pops what it tried to write
give_inbound_all(w) ==
    LET data == inbound_stream(w.sock.tcp).buffer
        given == [ fd_write(w, "to_owner", data) EXCEPT
                       !.sock.tcp.receiver.reassembler.output = pop_output(@, Len(data)) ]
    IN  IF inbound_over(given.sock.tcp)
        THEN [ fd_shutdown(given, {"to_owner"}) EXCEPT !.sock.inbound_shutdown = TRUE ]
        ELSE given

\* rule 3: bytes for the owner, of which the kernel may take a part
give_inbound(w) ==
    LET data == inbound_stream(w.sock.tcp).buffer
        size == output_size(w, "to_owner", data)
        given == [ fd_write(w, "to_owner", data) EXCEPT
                       !.sock.tcp.receiver.reassembler.output = pop_output(@, size) ]
    IN  IF inbound_over(given.sock.tcp)
        THEN [ fd_shutdown(given, {"to_owner"}) EXCEPT !.sock.inbound_shutdown = TRUE ]
        ELSE given

\* rule 4: the segments of the connection
transmit(w) ==
    [ w EXCEPT !.net.peer = @ \o w.sock.tcp.segments_out, !.sock.tcp.segments_out = << >>,
               !.serviced = TRUE ]

socket_callback(r, w) ==
    CASE r = 1 -> receive(w) [] r = 2 -> send_outbound(w)
      [] r = 3 -> give_inbound(w) [] r = 4 -> transmit(w)

socket_cancel(r, w) == IF r = 2 THEN outbound_finished(w) ELSE w

\* the clock part of _tcp_loop()
loop_tick(w, ms) == [ w EXCEPT !.sock.tcp = IF active(@) THEN connection_tick(@, ms) ELSE @ ]

\* the end of _tcp_main(): the owner's socket is shut down, the connection destroyed
tcp_main_ends(w) == [ fd_shutdown(w, Pair) EXCEPT !.serviced = FALSE, !.sock.tcp = destroy(@) ]

\* wait_until_closed() up to its join()
wait_until_closed(w) == [ fd_shutdown(w, Pair) EXCEPT !.serviced = FALSE ]
=============================================================================
