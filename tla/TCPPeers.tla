------------------------------ MODULE TCPPeers ------------------------------
(***************************************************************************)
(* Two TCPConnections, their applications, one clock and a network that    *)
(* may lose, duplicate and reorder.  The owner of a connection puts what   *)
(* is in segments_out() on the network after each call.                    *)
(***************************************************************************)
EXTENDS TCPConnection

CONSTANTS Byte,
          RecvCapacity,
          SendCapacity,
          Texts,        \* the string each host may write, or the empty set
          MaxWritten,   \* each host stops after this many bytes
          MaxInFlight,  \* an application and the clock wait while this many segments are under way
          MaxFaults,    \* how many segments the network loses or duplicates
          Reorders,     \* whether the network reorders
          Timely,       \* whether every segment arrives before the clock ticks
          Patient,      \* whether an application ends its stream only when all of it is acknowledged
          Aborters      \* the hosts that may destroy their connection at any time

Host == {"client", "server"}
Peer(h) == IF h = "client" THEN "server" ELSE "client"
Isn == [ client |-> W - 2, server |-> 3 ]

ASSUME PeersAssumption ==
    /\ RecvCapacity \in Nat \ {0} /\ SendCapacity \in Nat \ {0}
    /\ Texts \in [ Host -> SUBSET Seq(Byte) ]
    /\ MaxWritten \in Nat /\ 2 * (MaxWritten + 4) <= W
    /\ MaxInFlight \in Nat \ {0} /\ MaxFaults \in Nat
    /\ Reorders \in BOOLEAN /\ Timely \in BOOLEAN /\ Patient \in BOOLEAN
    /\ Aborters \subseteq Host

VARIABLES conn,      \* the TCPConnection of each host
          net,       \* the segments on their way to each host
          faults,    \* how many segments have been lost or duplicated
          written,   \* what each application has written
          received,  \* what each application has read
          saw_eof,   \* whether each application has seen the end of the other's stream
          destroyed  \* the hosts whose connection has been destroyed

vars == <<conn, net, faults, written, received, saw_eof, destroyed>>

Init ==
    /\ conn = [ h \in Host |-> NewTCPConnection(RecvCapacity, SendCapacity, Isn[h]) ]
    /\ net = [ h \in Host |-> << >> ]
    /\ faults = 0
    /\ written = [ h \in Host |-> << >> ]
    /\ received = [ h \in Host |-> << >> ]
    /\ saw_eof = [ h \in Host |-> FALSE ]
    /\ destroyed = {}

\* the owner empties segments_out()
Emptied(c) == [ c EXCEPT !.segments_out = << >> ]

Room(h) == Len(net[Peer(h)]) < MaxInFlight

\* one call of a method of the connection of h
Call(h, c) ==
    /\ conn' = [ conn EXCEPT ![h] = Emptied(c) ]
    /\ net' = [ net EXCEPT ![Peer(h)] = @ \o c.segments_out ]

Connect ==
    /\ conn["client"].sender.next_seqno = 0
    /\ Call("client", connect(conn["client"]))
    /\ UNCHANGED <<faults, written, received, saw_eof, destroyed>>

\* TCPSpongeSocket hands the connection to its application after the handshake
Established(h) ==
    /\ conn[h].receiver.is_syn /\ conn[h].sender.current_seqno > 0
    /\ h \notin destroyed

Write(h, data) ==
    /\ Established(h) /\ Room(h)
    /\ active(conn[h]) /\ ~conn[h].sender.stream.input_ended
    /\ Len(written[h]) + Len(data) <= MaxWritten
    /\ written' = [ written EXCEPT ![h] =
                        @ \o SubSeq(data, 1, accepted_size(conn[h].sender.stream, data)) ]
    /\ Call(h, connection_write(conn[h], data))
    /\ UNCHANGED <<faults, received, saw_eof, destroyed>>

AllAcked(h) == bytes_in_flight(conn[h].sender) = 0 /\ buffer_size(conn[h].sender.stream) = 0

EndInput(h) ==
    /\ Established(h) /\ Room(h)
    /\ ~conn[h].sender.stream.input_ended
    /\ Patient => AllAcked(h)
    /\ Call(h, end_input_stream(conn[h]))
    /\ UNCHANGED <<faults, written, received, saw_eof, destroyed>>

Read(h) ==
    /\ h \notin destroyed /\ buffer_size(inbound_stream(conn[h])) > 0
    /\ conn' = [ conn EXCEPT ![h].receiver.reassembler.output = pop_output(@, 1) ]
    /\ received' = [ received EXCEPT ![h] = @ \o peek_output(inbound_stream(conn[h]), 1) ]
    /\ UNCHANGED <<net, faults, written, saw_eof, destroyed>>

SeeEof(h) ==
    /\ h \notin destroyed /\ eof(inbound_stream(conn[h]))
    /\ saw_eof' = [ saw_eof EXCEPT ![h] = TRUE ]
    /\ UNCHANGED <<conn, net, faults, written, received, destroyed>>

\* TCPSpongeSocket's thread ends and drops its TCPConnection, and segments_out() with it
Abort(h) ==
    /\ h \in Aborters /\ Established(h)
    /\ conn' = [ conn EXCEPT ![h] = Emptied(destroy(@)) ]
    /\ destroyed' = destroyed \cup {h}
    /\ UNCHANGED <<net, faults, written, received, saw_eof>>

Removed(h, i) == SubSeq(net[h], 1, i - 1) \o SubSeq(net[h], i + 1, Len(net[h]))

Deliver(h, i) ==
    /\ i > 1 => Reorders
    /\ LET c == connection_segment_received(conn[h], net[h][i])
       IN  /\ conn' = [ conn EXCEPT ![h] = Emptied(c) ]
           /\ net' = [ net EXCEPT ![h] = Removed(h, i), ![Peer(h)] = @ \o c.segments_out ]
    /\ UNCHANGED <<faults, written, received, saw_eof, destroyed>>

Lose(h, i) ==
    /\ faults < MaxFaults
    /\ net' = [ net EXCEPT ![h] = Removed(h, i) ]
    /\ faults' = faults + 1
    /\ UNCHANGED <<conn, written, received, saw_eof, destroyed>>

Duplicate(h, i) ==
    /\ faults < MaxFaults /\ Len(net[h]) < MaxInFlight
    /\ net' = [ net EXCEPT ![h] = Append(@, @[i]) ]
    /\ faults' = faults + 1
    /\ UNCHANGED <<conn, written, received, saw_eof, destroyed>>

\* what a tick can change
Ticking(h) ==
    /\ active(conn[h])
    /\ \/ conn[h].sender.is_timer_on
       \/ conn[h].time_since_last_segment_received < linger_time
       \/ lingers(conn[h]) # conn[h].linger_after_streams_finish

CanTick ==
    /\ \E h \in Host : Ticking(h)
    /\ \A h \in Host : Room(h) /\ (Timely => net[h] = << >>)

\* the clock of both hosts
Tick ==
    /\ CanTick
    /\ LET c == [ h \in Host |-> connection_tick(conn[h], 1) ]
       IN  /\ conn' = [ h \in Host |-> Emptied(c[h]) ]
           /\ net' = [ h \in Host |-> net[h] \o c[Peer(h)].segments_out ]
    /\ UNCHANGED <<faults, written, received, saw_eof, destroyed>>

DeliverAny(h) == \E i \in DOMAIN net[h] : Deliver(h, i)

Next ==
    \/ Connect
    \/ \E h \in Host :
           \/ \E data \in Texts[h] : Write(h, data)
           \/ EndInput(h)
           \/ Read(h)
           \/ SeeEof(h)
           \/ Abort(h)
           \/ DeliverAny(h)
           \/ \E i \in DOMAIN net[h] : Lose(h, i) \/ Duplicate(h, i)
    \/ Tick

Spec == Init /\ [][Next]_vars

\* Weak fairness, with what enables the larger actions written out: the first segment under way
\* arrives (a lost one is not under way), applications read and end their streams, time passes.
Fairness ==
    /\ WF_vars(Connect)
    /\ \A h \in Host :
           /\ []<>(net[h] = << >>) \/ []<><<DeliverAny(h)>>_vars
           /\ WF_vars(Read(h))
           /\ WF_vars(SeeEof(h))
    /\ []<>~CanTick \/ []<><<Tick>>_vars

FairSpec == Spec /\ Fairness

-----------------------------------------------------------------------------
\* what the application of h has got or can read
Assembled(h) == received[h] \o inbound_stream(conn[h]).buffer

\* A connection that goes away without an error has delivered both streams: its application has read
\* all of the peer's bytes, and the peer holds all of its own and knows that they are all
\* (tcp_connection.cc:69-80, :132-146).
CleanFinish ==
    \A h \in Host : ~active(conn[h]) /\ ~conn[h].error =>
        /\ received[h] = written[Peer(h)]
        /\ Assembled(Peer(h)) = written[h]
        /\ inbound_stream(conn[Peer(h)]).input_ended

\* Every byte that one end takes for acknowledged has been assembled by the other, and its FIN only
\* after all of them.
NothingAckedUnseen ==
    \A h \in Host :
        LET unseen == first_unassembled(conn[Peer(h)].receiver.reassembler)
        IN  /\ min(conn[h].sender.current_seqno, Len(written[h]) + 1) <= unseen + 1
            /\ conn[h].sender.current_seqno = Len(written[h]) + 2 =>
                   inbound_stream(conn[Peer(h)]).input_ended

\* A timely network that loses or repeats no more than MAX_RETX_ATTEMPTS segments causes no reset,
\* the last acknowledgment included: the end that closes first stays to repeat it.
Survives == \A h \in Host : ~conn[h].error

\* A connection that is no longer active never becomes active again, and sends nothing more.
InactiveForGood ==
    [][ \A h \in Host : ~active(conn[h]) =>
            /\ ~active(conn'[h])
            /\ Len(net'[Peer(h)]) <= Len(net[Peer(h)]) + (faults' - faults) ]_vars

\* A connection that gives up takes its peer with it: what it sends then carries the RST
\* (tcp_connection.cc:34-35, :107-108, :176).
ResetReachesPeer ==
    \A h \in Host : conn[h].error /\ h \notin destroyed ~> ~active(conn[Peer(h)])

ClientToServer == INSTANCE ReliableStream WITH
    input <- written["client"], closed <- conn["client"].sender.stream.input_ended,
    output <- received["server"], finished <- saw_eof["server"]

ServerToClient == INSTANCE ReliableStream WITH
    input <- written["server"], closed <- conn["server"].sender.stream.input_ended,
    output <- received["client"], finished <- saw_eof["client"]

\* The two ends and the network between them make two reliable streams.
ImplementsReliableStreams == ClientToServer!Spec /\ ServerToClient!Spec

\* Once both applications have ended their streams, both connections finish.
Finishes ==
    (\A h \in Host : conn[h].sender.stream.input_ended) ~> (\A h \in Host : ~active(conn[h]))

\* "the last byte of `data` will be the last byte in the entire stream" (stream_reassembler.hh:37):
\* an application that sees the end has got all that was written.
EofMeansAll == \A h \in Host : saw_eof[h] => received[h] = written[Peer(h)]
=============================================================================
