----------------------------- MODULE StreamCopy -----------------------------
(***************************************************************************)
(* bidirectional_stream_copy() of apps/: standard input to a socket, the   *)
(* socket to standard output, each through a ByteStream.                   *)
(***************************************************************************)
EXTENDS FileDescriptor

CONSTANT BufferSize

ASSUME BufferAssumption == BufferSize \in Nat \ {0}

NewStreamCopy ==
    [ outbound |-> NewByteStream(BufferSize), inbound |-> NewByteStream(BufferSize),
      outbound_shutdown |-> FALSE, inbound_shutdown |-> FALSE ]

CopyRules == 4

copy_reads(r) == r \in {1, 3}

\* the descriptors of the rules: standard input, the socket, the socket, standard output
copy_eof(r, w) == w.pipe[<<"stdin", "to_owner", "to_owner", "stdout">>[r]].eof

copy_closed(r, w) == r = 4 /\ w.pipe["stdout"].closed

copy_revents(r, w) ==
    CASE r = 1 -> input_revents(w, "stdin")
      [] r = 4 -> output_revents(w, "stdout")
      [] OTHER -> revents(w, "to_owner", "to_tcp")

\* whether there is something to read into a stream, neither stream having an error
wants_input(stream, other) == ~stream.error /\ remaining_capacity(stream) > 0 /\ ~other.error

wants_output(stream, shutdown) == buffer_size(stream) > 0 \/ (eof(stream) /\ ~shutdown)

copy_interest(r, w) ==
    CASE r = 1 -> wants_input(w.copy.outbound, w.copy.inbound)
      [] r = 2 -> wants_output(w.copy.outbound, w.copy.outbound_shutdown)
      [] r = 3 -> wants_input(w.copy.inbound, w.copy.outbound)
      [] r = 4 -> wants_output(w.copy.inbound, w.copy.inbound_shutdown)

\* a stream filled from what the descriptor has
filled(w, p, stream) ==
    LET limit == remaining_capacity(stream)
        more == write(stream, input(w, p, limit))
    IN  IF fd_read(w, p, limit).pipe[p].eof THEN end_input(more) ELSE more

\* rule 1
read_input(w) ==
    [ fd_read(w, "stdin", remaining_capacity(w.copy.outbound)) EXCEPT
          !.copy.outbound = filled(w, "stdin", @) ]

\* rule 2
write_socket(w) ==
    LET data == w.copy.outbound.buffer
        sent == [ fd_write(w, "to_tcp", data) EXCEPT
                      !.copy.outbound = pop_output(@, output_size(w, "to_tcp", data)) ]
    IN  IF eof(sent.copy.outbound)
        THEN [ fd_shutdown(sent, {"to_tcp"}) EXCEPT !.copy.outbound_shutdown = TRUE ]
        ELSE sent

\* rule 3
read_socket(w) ==
    [ fd_read(w, "to_owner", remaining_capacity(w.copy.inbound)) EXCEPT
          !.copy.inbound = filled(w, "to_owner", @) ]

\* rule 4
write_output(w) ==
    LET data == w.copy.inbound.buffer
        sent == [ fd_write(w, "stdout", data) EXCEPT
                      !.copy.inbound = pop_output(@, output_size(w, "stdout", data)) ]
    IN  IF eof(sent.copy.inbound)
        THEN [ fd_close(sent, "stdout") EXCEPT !.copy.inbound_shutdown = TRUE ]
        ELSE sent

copy_callback(r, w) ==
    CASE r = 1 -> read_input(w) [] r = 2 -> write_socket(w)
      [] r = 3 -> read_socket(w) [] r = 4 -> write_output(w)

copy_cancel(r, w) ==
    IF r \in {1, 2} THEN [ w EXCEPT !.copy.outbound = end_input(@) ]
    ELSE [ w EXCEPT !.copy.inbound = end_input(@) ]
=============================================================================
