-------------------------------- MODULE Wire --------------------------------
(***************************************************************************)
(* A segment from its absolute number to the number its receiver unwraps:  *)
(* the counters of SequenceSpace, and between the two ends the adapters,   *)
(* the packet formats and a network that damages bytes, cuts packets       *)
(* short, repeats and loses them.  One host listens, several others may    *)
(* send to it; every host sees every packet, except over UDP.              *)
(***************************************************************************)
EXTENDS SequenceSpace, Adapters, FiniteSets

CONSTANTS Server,    \* the address of the host that listens
          Clients,   \* the addresses of those that connect to it
          MACs,      \* the Ethernet address of each
          Segments,  \* the segments hosts send, but for the ports and the sequence number
          Flips,     \* what damage adds to a byte
          Samples    \* the pairs <<isn, sent>> at which segments are sent

ASSUME WireAssumption ==
    /\ W <= 65536
    /\ Server \notin Clients
    /\ DOMAIN MACs = Clients \cup {Server}
    /\ Flips \subseteq Byte \ {0}
    /\ Samples \subseteq WrappingInt32 \X UInt64

Hosts == Clients \cup {Server}

VARIABLES kind,      \* which adapter the hosts use
          adapter,   \* of each host
          wire,      \* the last packet, and what its sender meant by it
          read,      \* what came of the last read
          accepted   \* the hosts whose segments the server's adapter has accepted

wireVars == <<kind, adapter, wire, read, accepted>>

NotRead == [ at |-> Server, damage |-> "none", returned |-> << >>, ours |-> FALSE, hit |-> FALSE, verdict |-> "NoError" ]

\* the listener is bound to any address of its host
WireInit ==
    /\ Init
    /\ kind \in {"udp", "tun", "tap"}
    /\ adapter = [ h \in Hosts |-> IF h = Server
                                   THEN NewAdapter([ h EXCEPT !.ip = <<0, 0>> ], [ ip |-> <<0, 0>>, port |-> 0 ], TRUE)
                                   ELSE NewAdapter(h, Server, FALSE) ]
    /\ wire = [ by |-> Server, to |-> Server, bytes |-> << >>, meant |-> << >> ]
    /\ read = NotRead
    /\ accepted = {}

\* bounds: the counters stop when the first packet is sent, which is at a few numbers only
Count ==
    /\ wire.meant = << >>
    /\ Next
    /\ UNCHANGED wireVars

Put(by, to, bytes, meant) ==
    /\ <<isn, sent>> \in Samples /\ checkpoint = 0
    /\ wire' = [ by |-> by, to |-> to, bytes |-> bytes, meant |-> << meant >> ]
    /\ read' = NotRead
    /\ UNCHANGED <<vars, kind, adapter, accepted>>

\* LossyFdAdapter::write() may also drop the segment, which leaves everything as it was
Write(h, s) ==
    LET a == adapter[h]
        seg == [ s EXCEPT !.header.seqno = <<0, wrap(sent, isn)>> ]
    IN  /\ ~a.listening
        /\ Put(h, a.destination,
               CASE kind = "udp" -> udp_write(a, seg)
                 [] kind = "tun" -> tun_write(a, seg)
                 [] kind = "tap" -> tap_write(a, seg, MACs[h], MACs[a.destination]),
               with_ports(a, seg))

\* the interface of h asks for the Ethernet address of `target`
Ask(h, target) ==
    LET message == ARP_request(MACs[h], h.ip, target.ip)
    IN  /\ kind = "tap"
        /\ Put(h, target, ARP_write(message), message)

ReadBy(a, h, bytes) ==
    CASE kind = "udp" -> udp_read(a, wire.by, bytes)
      [] kind = "tun" -> tun_read(a, bytes)
      [] kind = "tap" -> tap_read(a, MACs[h], bytes)

is_segment == wire.meant # << >> /\ "header" \in DOMAIN wire.meant[1]

\* the packet is one that h has to take
for_host(h) ==
    /\ wire.to = h
    /\ is_segment => IF adapter[h].listening THEN wire.meant[1].header.syn /\ ~wire.meant[1].header.rst
                     ELSE wire.by = adapter[h].destination

\* Host h reads what the network made of the packet; LossyFdAdapter::read() drops it when the adapter has
\* already acted on it.  `hit`: the damage is in the IPv4 header, or the packet is cut.
Read(h, bytes, damage, hit, dropped) ==
    LET heard == IF kind = "tap" THEN ARP_heard(MACs[h], h.ip, bytes) ELSE << >>
    IN  /\ wire.meant # << >>
        /\ h # wire.by
        /\ kind = "udp" => h = wire.to
        /\ \E got \in {ReadBy(adapter[h], h, bytes)} :
             /\ adapter' = [ adapter EXCEPT ![h] = got.adapter ]
             /\ accepted' = IF h = Server /\ got.segments # << >> THEN accepted \cup {wire.by} ELSE accepted
             /\ read' = [ at |-> h, damage |-> damage, hit |-> hit,
                          returned |-> (IF dropped THEN << >> ELSE got.segments) \o heard,
                          ours |-> damage = "none" /\ ~dropped /\ for_host(h),
                          verdict |-> IF kind = "tun" THEN IPv4Header_parse(NewNetParser(bytes)).result
                                      ELSE "NoError" ]
        /\ UNCHANGED <<vars, kind, wire>>

ReadIntact(h) == \E dropped \in BOOLEAN : Read(h, wire.bytes, "none", FALSE, dropped)

\* bound: what is left of a damaged packet is read first, its copies later
ReadDamaged(h) ==
    read = NotRead /\ \E n \in DOMAIN wire.bytes, flip \in Flips :
      Read(h, [ wire.bytes EXCEPT ![n] = (@ + flip) % 256 ], "byte", kind = "tun" /\ n <= IPv4Header_LENGTH, FALSE)

ReadCut(h) == read = NotRead /\ \E n \in 0 .. Len(wire.bytes) - 1 : Read(h, SubSeq(wire.bytes, 1, n), "cut", kind = "tun", FALSE)

WireNext ==
    \/ Count
    \/ \E h \in Hosts : \/ \E s \in Segments : Write(h, s)
                        \/ \E target \in Hosts \ {h} : Ask(h, target)
                        \/ ReadIntact(h)
                        \/ ReadDamaged(h)
                        \/ ReadCut(h)

WireSpec == WireInit /\ [][WireNext]_<<vars, wireVars>>

-----------------------------------------------------------------------------
\* What an adapter returns is what was sent, by its peer, field by field and byte by byte, whatever byte
\* of the packet was damaged and wherever it was cut: IPv4Datagram::parse and TCPSegment::parse ignore
\* what the headers' parse() returns (ipv4_datagram.cc:13, tcp_segment.cc:20, ethernet_frame.cc:13), but
\* the pseudo-header and the TCP checksum cover all that matters.  ARP messages have no checksum; only
\* for them a damaged byte is excepted.
Genuine ==
    read.returned # << >> /\ (is_segment \/ read.damage # "byte") =>
      IF is_segment
      THEN /\ [ read.returned[1] EXCEPT !.header.cksum = 0 ] = wire.meant[1]
           /\ wire.by = adapter[read.at].destination
      ELSE read.returned = wire.meant

\* A packet for a host that arrives undamaged is returned to it: no checksum, length or port that an
\* adapter writes is refused by another, and a SYN that was dropped after the adapter took it for its
\* peer's (lossy_fd_adapter.hh:43-46) can still be repeated.
Delivers == read.ours => read.returned # << >>

\* IPv4Header::parse reports every damaged byte of a header and every packet that is cut short, and
\* nothing else.
HeaderVerdict == read.verdict = "NoError" <=> ~read.hit

\* A listening adapter chooses one peer, at the first SYN, and takes segments from no other for as long as
\* it lives (tcp_over_ip.cc:55-66, fd_adapter.cc:36-43); it answers this peer only.
OnePeer ==
    /\ Cardinality(accepted) <= 1
    /\ ~adapter[Server].listening => accepted = {adapter[Server].destination}
    /\ wire.by = Server /\ is_segment => accepted = {wire.to}
=============================================================================
