--------------------------- MODULE FileDescriptor ---------------------------
(***************************************************************************)
(* The FileDescriptor class of libsponge/util/file_descriptor, Socket's    *)
(* shutdown(), and the queues of the kernel behind them.  A pipe is one    *)
(* direction: the bytes under way, whether that direction is shut down,    *)
(* and the _eof and _closed flags of the one descriptor that uses it.      *)
(***************************************************************************)
EXTENDS ByteStream

CONSTANT PipeSize    \* the bytes the kernel holds for a direction

ASSUME PipeAssumption == PipeSize \in Nat \ {0}

NewPipe(bytes) == [ bytes |-> bytes, shut |-> FALSE, eof |-> FALSE, closed |-> FALSE ]

\* the room in a direction; standard output keeps all that was written, a byte at a time
room(w, p) == IF p = "stdout" THEN 1 ELSE PipeSize - Len(w.pipe[p].bytes)

output_revents(w, to) == IF room(w, to) > 0 THEN {"OUT"} ELSE {}

\* what poll() says of a local socket, whose end can be read
revents(w, from, to) ==
    output_revents(w, to)
        \cup (IF w.pipe[from].bytes # << >> \/ w.pipe[from].shut THEN {"IN"} ELSE {})
        \cup (IF w.pipe[from].shut /\ w.pipe[to].shut THEN {"HUP"} ELSE {})

\* and of a pipe such as standard input, whose end is a hangup
input_revents(w, from) ==
    (IF w.pipe[from].bytes # << >> THEN {"IN"} ELSE {})
        \cup (IF w.pipe[from].shut THEN {"HUP"} ELSE {})

\* the bytes that read(limit) returns
input(w, p, limit) == SubSeq(w.pipe[p].bytes, 1, min(limit, Len(w.pipe[p].bytes)))

\* read(limit), which throws if the descriptor would block
fd_read(w, p, limit) ==
    LET data == input(w, p, limit)
    IN  [ w EXCEPT !.pipe[p].bytes = SubSeq(@, Len(data) + 1, Len(@)),
                   !.pipe[p].eof = @ \/ (limit > 0 /\ data = << >>),
                   !.serviced = TRUE,
                   !.threw = @ \cup IF limit > 0 /\ data = << >> /\ ~w.pipe[p].shut
                                    THEN {"read"} ELSE {} ]

\* how much of data write(data, false) writes
output_size(w, p, data) == min(Len(data), room(w, p))

\* write(data, false), which throws if nothing can be written
fd_write(w, p, data) ==
    [ w EXCEPT !.pipe[p].bytes = @ \o SubSeq(data, 1, output_size(w, p, data)),
               !.serviced = TRUE,
               !.threw = @ \cup IF data # << >> /\ (w.pipe[p].shut \/ room(w, p) = 0)
                                THEN {"write"} ELSE {} ]

fd_close(w, p) == [ w EXCEPT !.pipe[p].eof = TRUE, !.pipe[p].closed = TRUE ]

\* shutdown() of the given directions, which counts as a read or a write of the descriptor
fd_shutdown(w, pipes) ==
    [ w EXCEPT !.pipe = [ p \in DOMAIN @ |->
                              [ @[p] EXCEPT !.shut = @ \/ p \in pipes ] ],
               !.serviced = TRUE ]
=============================================================================
