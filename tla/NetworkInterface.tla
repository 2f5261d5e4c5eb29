-------------------------- MODULE NetworkInterface --------------------------
(***************************************************************************)
(* The NetworkInterface class of libsponge/network_interface as a record,  *)
(* one operator per method.                                                *)
(*                                                                         *)
(* Both lists of the class are searched and erased by IP address, so they  *)
(* are functions of it here.  A datagram never changes place with another  *)
(* one for the same next hop, and the order between next hops shows only   *)
(* in the order in which tick() repeats several requests: `again`.         *)
(***************************************************************************)
EXTENDS Integers, Sequences

CONSTANTS IP,                  \* IP addresses
          MAC,                 \* Ethernet addresses of interfaces
          ETHERNET_BROADCAST,
          DEFAULT_ARP_TTL,     \* how long a mapping is believed
          DEFAULT_ARP_TIMEOUT  \* how long a request may go unanswered

ASSUME ARPAssumption ==
    /\ ETHERNET_BROADCAST \notin MAC
    /\ DEFAULT_ARP_TTL \in Nat \ {0}
    /\ DEFAULT_ARP_TIMEOUT \in Nat \ {0}
    /\ DEFAULT_ARP_TIMEOUT <= DEFAULT_ARP_TTL

NewNetworkInterface(ethernet_address, ip_address) ==
    [ ethernet_address |-> ethernet_address,
      ip_address |-> ip_address,
      frames_out |-> << >>,
      ARP_table |-> [ ip \in {} |-> [ mac |-> ETHERNET_BROADCAST, ttl |-> 0 ] ],
      ARP_pending_ip_addresses |-> [ ip \in {} |-> 0 ],
      ARP_pending_datagrams |-> [ ip \in IP |-> << >> ] ]

is_ip_known(ni, ip) == ip \in DOMAIN ni.ARP_table

\* target_ethernet_address is left out: nobody reads it
generate_ARPMessage(ni, target_ip_address, opcode) ==
    [ opcode |-> opcode,
      sender_ethernet_address |-> ni.ethernet_address,
      sender_ip_address |-> ni.ip_address,
      target_ip_address |-> target_ip_address ]

\* build_frame_header and serialize(); `intact` until the link damages it: the payload parses
generate_frame(ni, dst_ip_address, type, payload) ==
    [ type |-> type,
      src |-> ni.ethernet_address,
      dst |-> IF is_ip_known(ni, dst_ip_address) THEN ni.ARP_table[dst_ip_address].mac
                                                 ELSE ETHERNET_BROADCAST,
      payload |-> payload,
      intact |-> TRUE ]

ARP_frame(ni, ip, opcode) == generate_frame(ni, ip, "ARP", generate_ARPMessage(ni, ip, opcode))

push_frames(ni, frames) == [ ni EXCEPT !.frames_out = @ \o frames ]

\* f with x mapped to y
Extend(f, x, y) == [ z \in DOMAIN f \cup {x} |-> IF z = x THEN y ELSE f[z] ]

\* f without x
Without(f, x) == [ z \in DOMAIN f \ {x} |-> f[z] ]

\* a send_datagram that asks for every datagram, request outstanding or not
send_datagram_asking_always(ni, dgram, next_hop) ==
    IF is_ip_known(ni, next_hop)
    THEN push_frames(ni, << generate_frame(ni, next_hop, "IPv4", dgram) >>)
    ELSE push_frames([ ni EXCEPT !.ARP_pending_datagrams[next_hop] = Append(@, dgram),
                                 !.ARP_pending_ip_addresses = Extend(@, next_hop, DEFAULT_ARP_TIMEOUT) ],
                     << ARP_frame(ni, next_hop, "REQUEST") >>)

send_datagram(ni, dgram, next_hop) ==
    LET waiting == [ ni EXCEPT !.ARP_pending_datagrams[next_hop] = Append(@, dgram) ]
    IN  IF is_ip_known(ni, next_hop) THEN push_frames(ni, << generate_frame(ni, next_hop, "IPv4", dgram) >>)
        ELSE IF next_hop \in DOMAIN ni.ARP_pending_ip_addresses THEN waiting
        ELSE push_frames([ waiting EXCEPT !.ARP_pending_ip_addresses = Extend(@, next_hop, DEFAULT_ARP_TIMEOUT) ],
                         << ARP_frame(ni, next_hop, "REQUEST") >>)

for_us(ni, frame) == frame.dst \in {ni.ethernet_address, ETHERNET_BROADCAST}

\* what recv_frame() returns: the datagrams to pass up, none or one
received_datagrams(ni, frame) ==
    IF for_us(ni, frame) /\ frame.type = "IPv4" /\ frame.intact THEN << frame.payload >> ELSE << >>

\* a learn that keeps the request outstanding
learn_still_asking(ni, message) ==
    LET ip == message.sender_ip_address
        known == [ ni EXCEPT !.ARP_table = Extend(@, ip, [ mac |-> message.sender_ethernet_address,
                                                           ttl |-> DEFAULT_ARP_TTL ]),
                             !.ARP_pending_datagrams[ip] = << >> ]
    IN  push_frames(known, [ n \in DOMAIN ni.ARP_pending_datagrams[ip] |->
                               generate_frame(known, ip, "IPv4", ni.ARP_pending_datagrams[ip][n]) ])

\* a learn that sends the datagrams that wait and leaves them in the list
learn_keeping(ni, message) ==
    LET ip == message.sender_ip_address
        known == [ ni EXCEPT !.ARP_table = Extend(@, ip, [ mac |-> message.sender_ethernet_address,
                                                           ttl |-> DEFAULT_ARP_TTL ]),
                             !.ARP_pending_ip_addresses = Without(@, ip) ]
        reply == IF message.opcode = "REQUEST" THEN << ARP_frame(known, ip, "REPLY") >> ELSE << >>
    IN  push_frames(known, reply \o [ n \in DOMAIN ni.ARP_pending_datagrams[ip] |->
                                        generate_frame(known, ip, "IPv4", ni.ARP_pending_datagrams[ip][n]) ])

\* the interface believes the sender of an ARP message, answers and sends what waited
learn(ni, message) ==
    LET ip == message.sender_ip_address
        knowing == [ ni EXCEPT !.ARP_table = Extend(@, ip, [ mac |-> message.sender_ethernet_address,
                                                             ttl |-> DEFAULT_ARP_TTL ]),
                               !.ARP_pending_ip_addresses = Without(@, ip),
                               !.ARP_pending_datagrams[ip] = << >> ]
        reply == IF message.opcode = "REQUEST" THEN << ARP_frame(knowing, ip, "REPLY") >> ELSE << >>
        waiting == ni.ARP_pending_datagrams[ip]
        released == [ n \in DOMAIN waiting |-> generate_frame(knowing, ip, "IPv4", waiting[n]) ]
    IN  push_frames(knowing, reply \o released)

\* the interface after recv_frame(); every frame that is not IPv4 is taken for ARP
recv_frame(ni, frame) ==
    IF /\ for_us(ni, frame)
       /\ frame.type # "IPv4"
       /\ frame.intact
       /\ frame.payload.target_ip_address = ni.ip_address
    THEN learn(ni, frame.payload)
    ELSE ni

\* the requests that tick(ms) repeats
overdue(ni, ms) == { ip \in DOMAIN ni.ARP_pending_ip_addresses : ni.ARP_pending_ip_addresses[ip] <= ms }

\* a tick that lets requests run out without repeating them
tick_silent(ni, ms, again) ==
    [ ni EXCEPT !.ARP_pending_ip_addresses = [ ip \in DOMAIN @ \ overdue(ni, ms) |-> @[ip] - ms ] ]

\* a tick that does not age the ARP table
tick_trusting(ni, ms, again) ==
    push_frames([ ni EXCEPT !.ARP_pending_ip_addresses =
                              [ ip \in DOMAIN @ |-> IF @[ip] <= ms THEN DEFAULT_ARP_TIMEOUT ELSE @[ip] - ms ] ],
                [ n \in DOMAIN again |-> ARP_frame(ni, again[n], "REQUEST") ])

\* tick(), repeating the overdue requests in the order of the sequence `again`
tick(ni, ms, again) ==
    LET asking == ni.ARP_pending_ip_addresses
        table == ni.ARP_table
        left == { ip \in DOMAIN table : table[ip].ttl > ms }
    IN  push_frames(
          [ ni EXCEPT
              !.ARP_pending_ip_addresses =
                [ ip \in DOMAIN asking |-> IF asking[ip] <= ms THEN DEFAULT_ARP_TIMEOUT ELSE asking[ip] - ms ],
              !.ARP_table = [ ip \in left |-> [ mac |-> table[ip].mac, ttl |-> table[ip].ttl - ms ] ] ],
          [ n \in DOMAIN again |-> ARP_frame(ni, again[n], "REQUEST") ])
=============================================================================
