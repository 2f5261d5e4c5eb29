------------------------------- MODULE Router -------------------------------
(***************************************************************************)
(* The Router class of libsponge/router and its AsyncNetworkInterface: a   *)
(* router is a sequence of interfaces, each with a queue of datagrams that *)
(* arrived, and a routing table.  IP addresses are numbers.                *)
(***************************************************************************)
EXTENDS NetworkInterface, SequencesExt

CONSTANTS AddressBits,  \* 32
          NoAddress     \* next hop of a directly attached network

NewAsyncNetworkInterface(ethernet_address, ip_address) ==
    [ interface |-> NewNetworkInterface(ethernet_address, ip_address), datagrams_out |-> << >> ]

NewRouter == [ interfaces |-> << >>, routingTable |-> << >> ]

add_interface(router, interface) == [ router EXCEPT !.interfaces = Append(@, interface) ]

add_route(router, route_prefix, prefix_length, next_hop, interface_num) ==
    [ router EXCEPT !.routingTable = Append(@, [ route_prefix |-> route_prefix,
                                                 prefix_length |-> prefix_length,
                                                 next_hop |-> next_hop,
                                                 interface_num |-> interface_num ]) ]

\* dst & prefix_mask
masked(dst, prefix_length) == dst - (dst % 2 ^ (AddressBits - prefix_length))

matches(route, dst) == masked(dst, route.prefix_length) = route.route_prefix

\* a search that takes the last route that matches
target_last(table, dst) ==
    FoldLeftDomain(LAMBDA target, it : IF matches(table[it], dst) THEN it ELSE target, 0, table)

\* the index of the route that route_one_datagram() picks, 0 for end()
target(table, dst) ==
    FoldLeftDomain(LAMBDA best, it :
                     IF matches(table[it], dst)
                        /\ (best = 0 \/ table[best].prefix_length < table[it].prefix_length)
                     THEN it ELSE best,
                   0, table)

\* a router that forwards the datagram as it came
route_one_datagram_undiminished(router, dgram) ==
    LET n == target(router.routingTable, dgram.dst)
        route == router.routingTable[n]
    IN  IF dgram.ttl <= 1 \/ n = 0 THEN router
        ELSE [ router EXCEPT !.interfaces[route.interface_num].interface =
                 send_datagram(@, dgram, IF route.next_hop = NoAddress THEN dgram.dst ELSE route.next_hop) ]

route_one_datagram(router, dgram) ==
    LET n == target(router.routingTable, dgram.dst)
        route == router.routingTable[n]
        next_hop == IF route.next_hop = NoAddress THEN dgram.dst ELSE route.next_hop
    IN  IF dgram.ttl <= 1 \/ n = 0 THEN router
        ELSE [ router EXCEPT !.interfaces[route.interface_num].interface =
                 send_datagram(@, [ dgram EXCEPT !.ttl = @ - 1 ], next_hop) ]

\* every datagram of every interface, interface by interface
route(router) ==
    FoldLeftDomain(LAMBDA r, n : [ FoldLeft(route_one_datagram, r, r.interfaces[n].datagrams_out)
                                   EXCEPT !.interfaces[n].datagrams_out = << >> ],
                   router, router.interfaces)

async_recv_frame(async, frame) ==
    [ interface |-> recv_frame(async.interface, frame),
      datagrams_out |-> async.datagrams_out \o received_datagrams(async.interface, frame) ]
=============================================================================
