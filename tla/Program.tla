------------------------------- MODULE Program -------------------------------
(***************************************************************************)
(* A program such as apps/tcp_udp: it connects a TCPSpongeSocket, copies   *)
(* standard input and output to and from it, and waits until it is closed. *)
(* The owner's thread runs the copying loop, the socket's thread the loop  *)
(* of the connection; they share a pair of local sockets.  The peer is a   *)
(* TCPConnection of its own, at the other end of an orderly network.       *)
(***************************************************************************)
EXTENDS TCPSpongeSocket, StreamCopy

CONSTANTS RecvCapacity, SendCapacity,
          Text,       \* what is in standard input
          PeerText,   \* what the peer writes
          Unclean     \* whether the owner may destroy the socket before it is done

SocketLoop == INSTANCE EventLoop WITH
    Rules <- SocketRules, In <- socket_reads, Eof <- socket_eof, Closed <- socket_closed,
    Interest <- socket_interest, Callback <- socket_callback, Cancel <- socket_cancel,
    Revents <- socket_revents

CopyLoop == INSTANCE EventLoop WITH
    Rules <- CopyRules, In <- copy_reads, Eof <- copy_eof, Closed <- copy_closed,
    Interest <- copy_interest, Callback <- copy_callback, Cancel <- copy_cancel,
    Revents <- copy_revents

VARIABLES world,   \* what the two threads, the kernel and the network hold
          loop,    \* the event loop of each thread
          at,      \* how far each thread is
          peer,    \* the peer's connection
          got      \* what the peer's application has read

vars == <<world, loop, at, peer, got>>

\* the connection of the socket, called by connect() or not by listen_and_accept(), and of the peer
Called(c, calls) == IF calls THEN connect(c) ELSE c

\* tcp connects and the peer listens, or the other way round
Init ==
    \E how \in {"connect", "listen"} :
        LET tcp == Called(NewTCPConnection(RecvCapacity, SendCapacity, 0), how = "connect")
            caller == Called(NewTCPConnection(RecvCapacity, Len(PeerText), W - 2), how = "listen")
        IN  /\ world = [ sock |-> NewTCPSpongeSocket(tcp),
                         copy |-> NewStreamCopy,
                         pipe |-> [ p \in Pair \cup {"stdin", "stdout"} |->
                                        NewPipe(IF p = "stdin" THEN Text ELSE << >>) ],
                         net |-> [ host |-> caller.segments_out, peer |-> << >> ],
                         serviced |-> FALSE, \* whether the running callback has served a descriptor
                         threw |-> {} ]
            /\ loop = [ owner |-> CopyLoop!NewEventLoop, tcp |-> SocketLoop!NewEventLoop ]
            /\ at = [ owner |-> how, tcp |-> how ]
            /\ peer = [ caller EXCEPT !.segments_out = << >> ]
            /\ got = << >>

\* an exception that leaves a thread ends the program
Runs == world.threw = {}

Threads == [ world |-> world, loop |-> loop, at |-> at ]

\* one step of a thread
Becomes(t) ==
    /\ Runs
    /\ world' = t.world /\ loop' = t.loop /\ at' = t.at
    /\ UNCHANGED <<peer, got>>

-----------------------------------------------------------------------------
(* The owner's thread *)

\* the copying loop: wait_next_event(-1) blocks until there is something to handle
copied(next) ==
    IF next.result = "Timeout" THEN Threads
    ELSE [ world |-> next.world, loop |-> [ loop EXCEPT !.owner = next.loop ],
           at |-> IF next.result = "Exit" THEN [ at EXCEPT !.owner = "close" ] ELSE at ]

CopyRuns == at.owner = "copy" /\ Runs /\ copied(CopyLoop!step(loop.owner, world)) # Threads

Copy ==
    /\ at.owner = "copy"
    /\ \E t \in {copied(CopyLoop!step(loop.owner, world))} : t # Threads /\ Becomes(t)

Close ==
    /\ at.owner = "close"
    /\ Becomes([ Threads EXCEPT !.world = wait_until_closed(@), !.at.owner = "join" ])

\* the destructor, while the thread is running; what the copying held is gone
Destroy ==
    /\ Unclean /\ at.owner = "copy"
    /\ Becomes([ Threads EXCEPT !.world.copy = NewStreamCopy, !.world.sock.abort = TRUE,
                                !.loop.owner = CopyLoop!NewEventLoop, !.at.owner = "join" ])

Join ==
    /\ at.owner = "join" /\ at.tcp = "over"
    /\ Becomes([ Threads EXCEPT !.at.owner = "over" ])

-----------------------------------------------------------------------------
(* The socket's thread; until the connection is established, the owner's *)

\* time passes while nothing is under way
elapsed(w) ==
    IF w.net.host = << >> /\ w.net.peer = << >> /\ w.sock.tcp.segments_out = << >> THEN 1 ELSE 0

\* the conditions of the loops in connect() and in listen_and_accept()
connecting(c) ==
    state(c) \in IF at.tcp = "connect" THEN {State.SYN_SENT}
                 ELSE {State.LISTEN, State.SYN_RCVD, State.SYN_SENT}

\* a loop that does not look at _abort
iterated_deaf(t, exit) ==
    LET leaves == exit
        ticked == IF leaves THEN t.world ELSE loop_tick(t.world, elapsed(t.world))
        connects == leaves \/ ~connecting(ticked.sock.tcp)
    IN  IF at.tcp \in {"connect", "listen"}
        THEN [ t EXCEPT !.world = ticked,
                        !.at = IF connects THEN [ owner |-> "copy", tcp |-> "main" ] ELSE @ ]
        ELSE [ t EXCEPT !.world = IF leaves THEN tcp_main_ends(@) ELSE ticked,
                        !.at.tcp = IF leaves THEN "over" ELSE @ ]

\* the rest of an iteration of _tcp_loop() after wait_next_event(), and what follows the loop:
\* the thread starts, whose loop has no condition; _tcp_main() ends
iterated(t, exit) ==
    LET leaves == exit \/ t.world.sock.abort
        ticked == IF leaves THEN t.world ELSE loop_tick(t.world, elapsed(t.world))
        connects == leaves \/ ~connecting(ticked.sock.tcp)
    IN  IF at.tcp \in {"connect", "listen"}
        THEN [ t EXCEPT !.world = ticked,
                        !.at = IF connects THEN [ owner |-> "copy", tcp |-> "main" ] ELSE @ ]
        ELSE [ t EXCEPT !.world = IF leaves THEN tcp_main_ends(@) ELSE ticked,
                        !.at.tcp = IF leaves THEN "over" ELSE @ ]

served(next) ==
    LET t == [ Threads EXCEPT !.world = next.world, !.loop.tcp = next.loop ]
    IN  IF next.result = "Pending" \/ next.world.threw # {} THEN t
        ELSE iterated(t, next.result = "Exit")

SocketRuns == at.tcp # "over" /\ Runs /\ served(SocketLoop!step(loop.tcp, world)) # Threads

Serve ==
    /\ at.tcp # "over"
    /\ \E t \in {served(SocketLoop!step(loop.tcp, world))} : t # Threads /\ Becomes(t)

-----------------------------------------------------------------------------
(* Around the program *)

\* the writer of standard input goes away
HangUp ==
    /\ ~world.pipe["stdin"].shut
    /\ world' = [ world EXCEPT !.pipe["stdin"].shut = TRUE ]
    /\ UNCHANGED <<loop, at, peer, got>>

\* the peer's connection after a call; what it sends arrives at the host
PeerBecomes(c, net) ==
    /\ peer' = [ c EXCEPT !.segments_out = << >>,
                          !.receiver.reassembler.output = pop_output(@, buffer_size(@)) ]
    /\ got' = got \o inbound_stream(c).buffer
    /\ world' = [ world EXCEPT !.net = [ net EXCEPT !.host = @ \o c.segments_out ] ]
    /\ UNCHANGED <<loop, at>>

PeerReceives ==
    /\ world.net.peer # << >>
    /\ PeerBecomes(connection_segment_received(peer, Head(world.net.peer)),
                   [ world.net EXCEPT !.peer = Tail(@) ])

PeerWrites ==
    /\ peer.sender.current_seqno > 0 /\ peer.sender.stream.bytes_written = 0 /\ active(peer)
    /\ PeerBecomes(connection_write(peer, PeerText), world.net)

PeerEnds ==
    /\ peer.sender.stream.bytes_written > 0 /\ ~peer.sender.stream.input_ended /\ active(peer)
    /\ PeerBecomes(end_input_stream(peer), world.net)

\* the peer dies instead of ending its stream
PeerResets ==
    /\ peer.sender.stream.bytes_written > 0 /\ ~peer.sender.stream.input_ended /\ active(peer)
    /\ PeerBecomes(destroy(peer), world.net)

Next ==
    \/ Copy \/ Close \/ Destroy \/ Join
    \/ Serve
    \/ HangUp \/ PeerReceives \/ PeerWrites \/ PeerEnds \/ PeerResets

Spec == Init /\ [][Next]_vars

\* Both threads are scheduled and the peer receives what is sent, with what enables the larger
\* actions written out.  Nothing makes the writer of standard input go away, or the peer write or end.
FairSpec ==
    /\ Spec
    /\ []<>~CopyRuns \/ []<><<Copy>>_vars
    /\ []<>~SocketRuns \/ []<><<Serve>>_vars
    /\ []<>(world.net.peer = << >>) \/ []<><<PeerReceives>>_vars
    /\ WF_vars(Close) /\ WF_vars(Join)

-----------------------------------------------------------------------------
\* the peer has reset the connection
reset == inbound_stream(peer).error

\* An end is handed on only behind everything in front of it, through both streams of the copy, the
\* pair of sockets, the connection and the peer, and a program that ends undisturbed has handed on
\* both: the peer sees the end of standard input after all of it, and standard output is closed after
\* all that the peer wrote (bidirectional_stream_copy.cc:48, :77, tcp_sponge_socket.cc:106, :136,
\* eventloop.cc:69-93).
EndsComplete ==
    LET peer_ended == inbound_stream(peer).input_ended
        output_closed == world.pipe["stdout"].closed
    IN  /\ peer_ended => got = Text /\ world.pipe["stdin"].shut
        /\ output_closed /\ ~reset =>
               world.pipe["stdout"].bytes = PeerText /\ peer.sender.stream.input_ended
        /\ at.owner = "over" /\ ~reset /\ ~world.sock.abort => peer_ended /\ output_closed

\* Neither loop throws, except for a write behind a reset: no descriptor is read or written when it
\* would block or is shut down, the connection takes what it said it would, also when the reset came
\* in between, and no callback leaves its descriptor ready and its rule interested (eventloop.cc:135,
\* file_descriptor.cc:54, :82, tcp_sponge_socket.cc:100-104).
NothingThrown == world.threw \subseteq IF reset THEN {"write"} ELSE {}

\* "Write from the inbound_stream into the pipe, handling the possibility of a partial write": the
\* socket's own thread never fails on a write.  A write that fails is the owner's, to a socket whose
\* thread has ended (tcp_sponge_socket.cc:128-130, :149-150).
PartialWriteHandled == "write" \in world.threw => at.tcp = "over"

\* The program ends, at worst by an exception, once its input has ended and the peer has ended or
\* reset its stream, or once its owner destroys the socket: wait_until_closed() and the destructor
\* join a thread that ends (tcp_sponge_socket.cc:194-200, :180-186).
Terminates ==
    \/ world.sock.abort
    \/ world.pipe["stdin"].shut /\ (peer.sender.stream.input_ended \/ reset)
    ~> at.owner = "over" \/ ~Runs
=============================================================================
