------------------------------ MODULE Adapters ------------------------------
(***************************************************************************)
(* The FD adapters of libsponge/tcp_helpers: how a TCPSegment becomes a    *)
(* UDP payload, an IPv4 datagram or an Ethernet frame, and which of those  *)
(* that arrive are for this connection.  An adapter is its FdAdapterConfig *)
(* with the listening flag; a read gives the adapter after it and the      *)
(* segments it returns, none or one.                                       *)
(***************************************************************************)
EXTENDS Formats

\* FdAdapterConfig as connect() (listening = FALSE) and listen_and_accept() set it
NewAdapter(source, destination, listening) ==
    [ source |-> source, destination |-> destination, listening |-> listening ]

Nothing(a) == [ adapter |-> a, segments |-> << >> ]
Returns(a, seg) == [ adapter |-> a, segments |-> << seg >> ]

\* a listening adapter that goes on listening
bind_still_listening(a, source, destination, seg) ==
    IF seg.header.syn /\ ~seg.header.rst
    THEN Returns([ a EXCEPT !.source = source, !.destination = destination ], seg)
    ELSE Nothing(a)

\* a listening adapter has read seg: only a SYN makes it choose its peer
bind(a, source, destination, seg) ==
    IF seg.header.syn /\ ~seg.header.rst THEN Returns(NewAdapter(source, destination, FALSE), seg)
    ELSE Nothing(a)

with_ports(a, seg) ==
    [ seg EXCEPT !.header.sport = a.source.port, !.header.dport = a.destination.port ]

\* what becomes of the segment in a datagram with header h
accepted_segment(a, h, parsed) ==
    LET seg == parsed.segment
        bound == IF a.listening
                 THEN bind(a, [ ip |-> h.dst, port |-> a.source.port ], [ ip |-> h.src, port |-> seg.header.sport ], seg)
                 ELSE Returns(a, seg)
    IN  IF \/ ~a.listening /\ (h.dst # a.source.ip \/ h.src # a.destination.ip)
           \/ h.proto # PROTO_TCP
           \/ parsed.result # "NoError"
           \/ seg.header.dport # a.source.port
        THEN Nothing(a)
        ELSE IF seg.header.sport # bound.adapter.destination.port THEN Nothing(bound.adapter)
        ELSE bound

unwrap_tcp_in_ip(a, ip_dgram) ==
    accepted_segment(a, ip_dgram.header, TCPSegment_parse(ip_dgram.payload, pseudo_cksum(ip_dgram.header)))

\* a wrap that leaves the pseudo-header out of the checksum
wrap_tcp_in_ip_unsummed(a, seg) ==
    LET header == [ NewIPv4Header EXCEPT !.src = a.source.ip, !.dst = a.destination.ip,
                      !.len = 4 * NewIPv4Header.hlen + 4 * seg.header.doff + Len(seg.payload) ]
    IN  [ header |-> header, payload |-> TCPSegment_serialize(with_ports(a, seg), 0) ]

wrap_tcp_in_ip(a, seg) ==
    LET header == [ NewIPv4Header EXCEPT !.src = a.source.ip, !.dst = a.destination.ip,
                      !.len = 4 * NewIPv4Header.hlen + 4 * seg.header.doff + Len(seg.payload) ]
    IN  [ header |-> header, payload |-> TCPSegment_serialize(with_ports(a, seg), pseudo_cksum(header)) ]

\* TCPOverUDPSocketAdapter; the kernel knows which address a datagram came from
udp_read(a, source_address, payload) ==
    LET parsed == TCPSegment_parse(payload, 0)
    IN  IF (~a.listening /\ source_address # a.destination) \/ parsed.result # "NoError" THEN Nothing(a)
        ELSE IF a.listening THEN bind(a, a.source, source_address, parsed.segment)
        ELSE Returns(a, parsed.segment)

udp_write(a, seg) == TCPSegment_serialize(with_ports(a, seg), 0)

\* TCPOverIPv4OverTunFdAdapter
tun_read(a, bytes) ==
    LET parsed == IPv4Datagram_parse(bytes)
    IN  IF parsed.result # "NoError" THEN Nothing(a) ELSE unwrap_tcp_in_ip(a, parsed.datagram)

tun_write(a, seg) == IPv4Datagram_serialize(wrap_tcp_in_ip(a, seg))

\* TCPOverIPv4OverEthernetAdapter and its interface at the address `ethernet_address`, when the frame is
\* not ARP; a frame with another type is left to ARP_heard
tap_read(a, ethernet_address, bytes) ==
    LET frame == EthernetFrame_parse(bytes)
    IN  IF \/ frame.result # "NoError"
           \/ frame.header.dst \notin {ethernet_address, BROADCAST}
           \/ frame.header.type # TYPE_IPv4
        THEN Nothing(a)
        ELSE tun_read(a, frame.payload)

\* send_datagram() once the address of the next hop is known
tap_write(a, seg, ethernet_address, next_hop) ==
    EthernetFrame_serialize([ header |-> [ dst |-> next_hop, src |-> ethernet_address, type |-> TYPE_IPv4 ],
                              payload |-> tun_write(a, seg) ])

\* the ARP messages that an interface acts on, none or one
ARP_heard(ethernet_address, ip_address, bytes) ==
    LET frame == EthernetFrame_parse(bytes)
        parsed == ARPMessage_parse(frame.payload)
    IN  IF /\ frame.result = "NoError"
           /\ frame.header.dst \in {ethernet_address, BROADCAST}
           /\ frame.header.type # TYPE_IPv4
           /\ parsed.result = "NoError"
           /\ parsed.message.target_ip_address = ip_address
        THEN << parsed.message >> ELSE << >>

ARP_request(ethernet_address, ip_address, target_ip_address) ==
    [ NewARPMessage EXCEPT !.opcode = OPCODE_REQUEST, !.sender_ethernet_address = ethernet_address,
                           !.sender_ip_address = ip_address, !.target_ip_address = target_ip_address ]

ARP_write(message) ==
    EthernetFrame_serialize([ header |-> [ dst |-> BROADCAST, src |-> message.sender_ethernet_address,
                                           type |-> TYPE_ARP ],
                              payload |-> ARPMessage_serialize(message) ])
=============================================================================
