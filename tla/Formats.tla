------------------------------ MODULE Formats ------------------------------
(***************************************************************************)
(* The packets of libsponge/tcp_helpers in bytes: each class is a record,  *)
(* serialize() gives its bytes and parse() a ParseResult with what was     *)
(* read.  A serialize() that throws writes nothing: << >>.                 *)
(***************************************************************************)
EXTENDS Parser

TCPHeader_LENGTH == 20
IPv4Header_LENGTH == 20
EthernetHeader_LENGTH == 14
ARPMessage_LENGTH == 28

NewTCPHeader ==
    [ sport |-> 0, dport |-> 0, seqno |-> <<0, 0>>, ackno |-> <<0, 0>>, doff |-> TCPHeader_LENGTH \div 4,
      urg |-> FALSE, ack |-> FALSE, psh |-> FALSE, rst |-> FALSE, syn |-> FALSE, fin |-> FALSE,
      win |-> 0, cksum |-> 0, uptr |-> 0 ]

TCPHeader_of(v) ==
    LET fl_b == v[6]
    IN  [ sport |-> v[1], dport |-> v[2], seqno |-> v[3], ackno |-> v[4], doff |-> v[5] \div 16,
          urg |-> has_bit(fl_b, 32), ack |-> has_bit(fl_b, 16), psh |-> has_bit(fl_b, 8),
          rst |-> has_bit(fl_b, 4), syn |-> has_bit(fl_b, 2), fin |-> has_bit(fl_b, 1),
          win |-> v[7], cksum |-> v[8], uptr |-> v[9] ]

\* the options behind the fields are skipped
TCPHeader_read(header, p) ==
    [ header |-> header,
      parser |-> IF header.doff < 5 THEN p ELSE remove_prefix(p, 4 * header.doff - TCPHeader_LENGTH) ]

TCPHeader_parse(p) ==
    LET read == parse_fields(p, <<2, 2, 4, 4, 1, 1, 2, 2, 2>>)
    IN  TCPHeader_read(TCPHeader_of(read.values), read.parser)

TCPHeader_serialize(h) ==
    LET fl_b == 32 * int(h.urg) + 16 * int(h.ack) + 8 * int(h.psh) + 4 * int(h.rst) + 2 * int(h.syn) + int(h.fin)
    IN  IF h.doff < 5 THEN << >>
        ELSE padded(concatenate(<< u16(h.sport), u16(h.dport), u32(h.seqno), u32(h.ackno), u8(16 * h.doff),
                                   u8(fl_b), u16(h.win), u16(h.cksum), u16(h.uptr) >>), 4 * h.doff)

\* a parse that leaves the checksum to others
TCPSegment_parse_unchecked(buffer, datagram_layer_checksum) ==
    LET read == TCPHeader_parse(NewNetParser(buffer))
    IN  [ result |-> read.parser.error, segment |-> [ header |-> read.header, payload |-> read.parser.buffer ] ]

\* what TCPHeader::parse returns is not looked at
TCPSegment_parse(buffer, datagram_layer_checksum) ==
    LET read == TCPHeader_parse(NewNetParser(buffer))
        sum == value(add(NewInternetChecksum(datagram_layer_checksum), buffer))
    IN  [ result |-> IF sum # 0 THEN "BadChecksum" ELSE read.parser.error,
          segment |-> [ header |-> read.header, payload |-> read.parser.buffer ] ]

TCPSegment_serialize(seg, datagram_layer_checksum) ==
    LET zeroed == [ seg.header EXCEPT !.cksum = 0 ]
        check == add(add(NewInternetChecksum(datagram_layer_checksum), TCPHeader_serialize(zeroed)), seg.payload)
    IN  concatenate(<< TCPHeader_serialize([ zeroed EXCEPT !.cksum = value(check) ]), seg.payload >>)

-----------------------------------------------------------------------------
PROTO_TCP == 6

NewIPv4Header ==
    [ ver |-> 4, hlen |-> IPv4Header_LENGTH \div 4, tos |-> 0, len |-> 0, id |-> 0, df |-> TRUE, mf |-> FALSE,
      offset |-> 0, ttl |-> 128, proto |-> PROTO_TCP, cksum |-> 0, src |-> <<0, 0>>, dst |-> <<0, 0>> ]

payload_length(h) == (h.len - 4 * h.hlen) % 65536

pseudo_cksum(h) == h.src[1] + h.src[2] + h.dst[1] + h.dst[2] + h.proto + payload_length(h)

\* a parse that does not sum the header up
IPv4Header_verdict_unsummed(h, data, rest) ==
    IF Len(data) < 4 * h.hlen THEN "PacketTooShort"
    ELSE IF h.ver # 4 THEN "WrongIPVersion"
    ELSE IF h.hlen < 5 THEN "HeaderTooShort"
    ELSE IF Len(data) # h.len THEN "TruncatedPacket"
    ELSE rest.error

\* the checks of IPv4Header::parse on the fields h read from `data`, in their order
IPv4Header_verdict(h, data, rest) ==
    IF Len(data) < 4 * h.hlen THEN "PacketTooShort"
    ELSE IF h.ver # 4 THEN "WrongIPVersion"
    ELSE IF h.hlen < 5 THEN "HeaderTooShort"
    ELSE IF Len(data) # h.len THEN "TruncatedPacket"
    ELSE IF rest.error # "NoError" THEN rest.error
    ELSE IF value(add(NewInternetChecksum(0), SubSeq(data, 1, 4 * h.hlen))) # 0 THEN "BadChecksum"
    ELSE "NoError"

IPv4Header_of(v) ==
    LET fo_val == v[5]
    IN  [ ver |-> v[1] \div 16, hlen |-> v[1] % 16, tos |-> v[2], len |-> v[3], id |-> v[4],
          df |-> has_bit(fo_val, 16384), mf |-> has_bit(fo_val, 8192), offset |-> fo_val % 8192,
          ttl |-> v[6], proto |-> v[7], cksum |-> v[8], src |-> v[9], dst |-> v[10] ]

\* the options behind the fields, up to p, are skipped unless a check before has failed
IPv4Header_read(h, data, p) ==
    LET skips == h.ver = 4 /\ h.hlen >= 5 /\ Len(data) >= 4 * h.hlen /\ Len(data) = h.len
        rest == IF skips THEN remove_prefix(p, 4 * h.hlen - IPv4Header_LENGTH) ELSE p
    IN  [ result |-> IPv4Header_verdict(h, data, rest), header |-> h, parser |-> rest ]

IPv4Header_parse(p) ==
    LET read == parse_fields(p, <<1, 1, 2, 2, 2, 1, 1, 2, 4, 4>>)
    IN  IF Len(p.buffer) < IPv4Header_LENGTH
        THEN [ result |-> "PacketTooShort", header |-> NewIPv4Header, parser |-> p ]
        ELSE IPv4Header_read(IPv4Header_of(read.values), p.buffer, read.parser)

IPv4Header_serialize(h) ==
    LET fo_val == 16384 * int(h.df) + 8192 * int(h.mf) + (h.offset % 8192)
    IN  IF h.ver # 4 \/ 4 * h.hlen < IPv4Header_LENGTH THEN << >>
        ELSE padded(concatenate(<< u8(16 * h.ver + (h.hlen % 16)), u8(h.tos), u16(h.len), u16(h.id), u16(fo_val),
                                   u8(h.ttl), u8(h.proto), u16(h.cksum), u32(h.src), u32(h.dst) >>), 4 * h.hlen)

\* what IPv4Header::parse returns is not looked at
IPv4Datagram_parse(buffer) ==
    LET read == IPv4Header_parse(NewNetParser(buffer))
    IN  [ result |-> IF Len(read.parser.buffer) # payload_length(read.header) THEN "PacketTooShort"
                     ELSE read.parser.error,
          datagram |-> [ header |-> read.header, payload |-> read.parser.buffer ] ]

IPv4Datagram_serialize(d) ==
    LET zeroed == [ d.header EXCEPT !.cksum = 0 ]
        check == add(NewInternetChecksum(0), IPv4Header_serialize(zeroed))
    IN  IF Len(d.payload) # payload_length(d.header) THEN << >>
        ELSE concatenate(<< IPv4Header_serialize([ zeroed EXCEPT !.cksum = value(check) ]), d.payload >>)

-----------------------------------------------------------------------------
TYPE_IPv4 == 2048
TYPE_ARP == 2054
BROADCAST == [ n \in 1 .. 6 |-> 255 ]

\* a header that is too short to read stays as it was constructed, and nobody looks at the result
EthernetFrame_parse(buffer) ==
    LET p == NewNetParser(buffer)
        read == parse_fields(p, <<6, 6, 2>>)
        v == read.values
    IN  IF Len(buffer) < EthernetHeader_LENGTH
        THEN [ result |-> p.error, header |-> [ dst |-> zero(6), src |-> zero(6), type |-> 0 ], payload |-> p.buffer ]
        ELSE [ result |-> read.parser.error, header |-> [ dst |-> v[1], src |-> v[2], type |-> v[3] ],
               payload |-> read.parser.buffer ]

EthernetFrame_serialize(f) == concatenate(<< f.header.dst, f.header.src, u16(f.header.type), f.payload >>)

OPCODE_REQUEST == 1
OPCODE_REPLY == 2

NewARPMessage ==
    [ hardware_type |-> 1, protocol_type |-> TYPE_IPv4, hardware_address_size |-> 6, protocol_address_size |-> 4,
      opcode |-> 0, sender_ethernet_address |-> zero(6), sender_ip_address |-> zero(4),
      target_ethernet_address |-> zero(6), target_ip_address |-> zero(4) ]

supported(m) ==
    /\ m.hardware_type = 1
    /\ m.protocol_type = TYPE_IPv4
    /\ m.hardware_address_size = 6
    /\ m.protocol_address_size = 4
    /\ m.opcode \in {OPCODE_REQUEST, OPCODE_REPLY}

ARPMessage_of(v) ==
    [ hardware_type |-> v[1], protocol_type |-> v[2], hardware_address_size |-> v[3],
      protocol_address_size |-> v[4], opcode |-> v[5], sender_ethernet_address |-> v[6],
      sender_ip_address |-> v[7], target_ethernet_address |-> v[8], target_ip_address |-> v[9] ]

ARPMessage_parse(buffer) ==
    LET read == parse_fields(NewNetParser(buffer), <<2, 2, 1, 1, 2, 6, 4, 6, 4>>)
        message == ARPMessage_of(read.values)
    IN  [ message |-> message,
          result |-> IF Len(buffer) < ARPMessage_LENGTH THEN "PacketTooShort"
                     ELSE IF ~supported(message) THEN "Unsupported"
                     ELSE read.parser.error ]

ARPMessage_serialize(m) ==
    IF ~supported(m) THEN << >>
    ELSE concatenate(<< u16(m.hardware_type), u16(m.protocol_type), u8(m.hardware_address_size),
                        u8(m.protocol_address_size), u16(m.opcode), m.sender_ethernet_address,
                        u32(m.sender_ip_address), m.target_ethernet_address, u32(m.target_ip_address) >>)
=============================================================================
