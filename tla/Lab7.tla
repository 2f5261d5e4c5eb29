-------------------------------- MODULE Lab7 --------------------------------
(***************************************************************************)
(* The network of apps/lab7: on each of two sides a host whose adapter     *)
(* holds a network interface, joined by a pair of datagram sockets to a    *)
(* thread that runs a router, and between the routers the Internet, which  *)
(* may lose frames.  Datagrams stand for the segments of the hosts.        *)
(***************************************************************************)
EXTENDS Router, FiniteSets

CONSTANTS Plan,          \* the addresses of each side
          Internet,      \* the network between the routers
          DefaultRoute,  \* whether each router also sends to the other what no other route matches
          Flows,         \* the pairs <<side, destination>> of datagrams that are sent
          TTLs,          \* time to live of new datagrams
          MaxSent,       \* datagrams in all
          MaxLost,       \* frames the Internet may lose
          MaxQueue       \* frames on their way to a host at which its router waits

Sides == {"client", "server"}

ASSUME Lab7Assumption ==
    /\ Plan \in [Sides -> [host : IP, host_side : IP, internet_side : IP, prefix : Nat, length : 0 .. AddressBits]]
    /\ Internet \in [prefix : Nat, length : 0 .. AddressBits]
    /\ DefaultRoute \in BOOLEAN
    /\ Flows \subseteq Sides \X IP
    /\ TTLs \subseteq Nat
    /\ {MaxSent, MaxLost, MaxQueue} \subseteq Nat

other(side) == IF side = "client" THEN "server" ELSE "client"

host_side == 1
internet_side == 2

\* the router of program_body; the Ethernet address of an interface is named by its IP address
NewSideRouter(side) ==
    LET near == Plan[side]
        far == Plan[other(side)]
        interfaces == add_interface(add_interface(NewRouter,
                        NewAsyncNetworkInterface(near.host_side, near.host_side)),
                        NewAsyncNetworkInterface(near.internet_side, near.internet_side))
        direct == add_route(add_route(interfaces,
                    near.prefix, near.length, NoAddress, host_side),
                    Internet.prefix, Internet.length, NoAddress, internet_side)
        routed == add_route(direct, far.prefix, far.length, far.internet_side, internet_side)
    IN  IF DefaultRoute THEN add_route(routed, 0, 0, far.internet_side, internet_side) ELSE routed

VARIABLES host,      \* the interface in each adapter
          router,
          up,        \* frames from each host to its router
          down,      \* frames from each router to its host
          internet,  \* frames to each router from the other
          sent,      \* datagrams sent so far
          received,  \* datagrams that reached each adapter
          lost,      \* how many frames the Internet lost
          missing    \* the datagrams in these

vars == <<host, router, up, down, internet, sent, received, lost, missing>>

Init ==
    /\ host = [ side \in Sides |-> NewNetworkInterface(Plan[side].host, Plan[side].host) ]
    /\ router = [ side \in Sides |-> NewSideRouter(side) ]
    /\ up = [ side \in Sides |-> << >> ]
    /\ down = up
    /\ internet = up
    /\ sent = {}
    /\ received = up
    /\ lost = 0
    /\ missing = {}

\* the adapter's interface has become ni: send_pending() empties its frames_out
AdapterBecomes(side, ni) ==
    /\ host' = [ host EXCEPT ![side] = [ ni EXCEPT !.frames_out = << >> ] ]
    /\ up' = [ up EXCEPT ![side] = @ \o ni.frames_out ]

AdapterWrite(side, dst, ttl) ==
    LET dgram == [ src |-> Plan[side].host, dst |-> dst, ttl |-> ttl, id |-> Cardinality(sent) + 1 ]
    IN  /\ Cardinality(sent) < MaxSent
        /\ AdapterBecomes(side, send_datagram(host[side], dgram, Plan[side].host_side))
        /\ sent' = sent \cup {dgram}
        /\ UNCHANGED <<router, down, internet, received, lost, missing>>

AdapterRead(side) ==
    /\ down[side] # << >>
    /\ AdapterBecomes(side, recv_frame(host[side], Head(down[side])))
    /\ received' = [ received EXCEPT ![side] = @ \o received_datagrams(host[side], Head(down[side])) ]
    /\ down' = [ down EXCEPT ![side] = Tail(@) ]
    /\ UNCHANGED <<router, internet, sent, lost, missing>>

ticked(ni, ms) == tick(ni, ms, SetToSeq(overdue(ni, ms)))

AdapterTick(side) ==
    /\ up[side] = << >>
    /\ AdapterBecomes(side, ticked(host[side], 1))
    /\ UNCHANGED <<router, down, internet, sent, received, lost, missing>>

frames_out(r, n) == r.interfaces[n].interface.frames_out

\* the callbacks of the four rules; each reports the router and what it wrote
receive_and_route(r, n, frames) ==
    IF frames = << >> THEN r
    ELSE route([ r EXCEPT !.interfaces[n] = async_recv_frame(@, Head(frames)) ])

\* f.pop(), when the rule was interested
popped(r, n, interested) ==
    IF interested THEN [ r EXCEPT !.interfaces[n].interface.frames_out = Tail(@) ] ELSE r

first(frames) == IF frames = << >> THEN << >> ELSE << Head(frames) >>
rest(frames) == IF frames = << >> THEN << >> ELSE Tail(frames)

\* bound: a router whose frames are not taken waits
RouterMayTurn(side) ==
    Len(down[side]) <= MaxQueue /\ (Len(internet[other(side)]) <= MaxQueue \/ internet[side] # << >>)

\* One turn of the network thread.  wait_next_event() decides which of the four rules are ready before
\* it calls any of them, then calls them in the order they were added: from the host, to the host, to
\* the Internet, from the Internet.  The timers go on by one unit whether an event came or the wait
\* timed out.
RouterTurn(side) ==
    LET r == router[side]
        to_host == first(frames_out(r, host_side))
        to_internet == first(frames_out(r, internet_side))
        r1 == receive_and_route(r, host_side, up[side])
        r3 == popped(popped(r1, host_side, to_host # << >>), internet_side, to_internet # << >>)
        r4 == receive_and_route(r3, internet_side, internet[side])
    IN  /\ RouterMayTurn(side)
        /\ router' = [ router EXCEPT ![side].interfaces = [ n \in DOMAIN r4.interfaces |->
                         [ r4.interfaces[n] EXCEPT !.interface = ticked(@, 1) ] ],
                                     ![side].routingTable = r4.routingTable ]
        /\ up' = [ up EXCEPT ![side] = rest(@) ]
        /\ down' = [ down EXCEPT ![side] = @ \o to_host ]
        /\ internet' = [ internet EXCEPT ![side] = rest(@), ![other(side)] = @ \o to_internet ]
        /\ UNCHANGED <<host, sent, received, lost, missing>>

Lose(side) ==
    /\ internet[side] # << >>
    /\ lost < MaxLost
    /\ internet' = [ internet EXCEPT ![side] = Tail(@) ]
    /\ lost' = lost + 1
    /\ missing' = missing \cup IF Head(internet[side]).type = "IPv4" THEN {Head(internet[side]).payload.id} ELSE {}
    /\ UNCHANGED <<host, router, up, down, sent, received>>

Next ==
    \/ \E flow \in Flows, ttl \in TTLs : AdapterWrite(flow[1], flow[2], ttl)
    \/ \E side \in Sides : AdapterRead(side) \/ AdapterTick(side) \/ RouterTurn(side) \/ Lose(side)

Spec == Init /\ [][Next]_vars

timers_run(ni) == DOMAIN ni.ARP_table # {} \/ DOMAIN ni.ARP_pending_ip_addresses # {}

\* a turn of the router is possible and changes something
RouterCanTurn(side) ==
    /\ RouterMayTurn(side)
    /\ \/ up[side] # << >>
       \/ internet[side] # << >>
       \/ \E n \in {host_side, internet_side} :
            frames_out(router[side], n) # << >> \/ timers_run(router[side].interfaces[n].interface)

\* Both threads of each program keep running: weak fairness of AdapterRead, AdapterTick and RouterTurn,
\* each written with the condition under which it can take a step.
Fairness ==
    \A side \in Sides :
      /\ []<>(down[side] = << >>) \/ []<><<AdapterRead(side)>>_vars
      /\ []<>~(up[side] = << >> /\ timers_run(host[side])) \/ []<><<AdapterTick(side)>>_vars
      /\ []<>~RouterCanTurn(side) \/ []<><<RouterTurn(side)>>_vars

FairSpec == Spec /\ Fairness

-----------------------------------------------------------------------------
reached(side) == { received[side][n] : n \in DOMAIN received[side] }

\* Whatever ARP, the routing tables and the queues do on the way, a host gets only datagrams that were
\* sent to it, each once and with a TTL two less, those of one sender in the order they were sent.
RightHost ==
    \A side \in Sides : \A n, m \in DOMAIN received[side] :
      LET dgram == received[side][n]
      IN  /\ dgram.dst = Plan[side].host
          /\ [ dgram EXCEPT !.ttl = @ + 2 ] \in sent
          /\ n < m /\ received[side][m].src = dgram.src => dgram.id < received[side][m].id

\* the datagrams in a sequence of frames
carried(frames) == { frames[n].payload : n \in { m \in DOMAIN frames : frames[m].type = "IPv4" } }

\* the datagrams an interface holds back or has in frames_out
held(ni) == carried(ni.frames_out) \cup UNION { ToSet(ni.ARP_pending_datagrams[ip]) : ip \in IP }

on_the_way ==
    UNION { carried(up[side]) \cup carried(down[side]) \cup carried(internet[side]) \cup held(host[side])
            \cup held(router[side].interfaces[1].interface) \cup held(router[side].interfaces[2].interface)
            : side \in Sides }

\* No datagram is forwarded for ever, not even between two routers that each take the other for the
\* way to its destination: the TTL that route_one_datagram() takes one from at each hop runs out.
NoneCirculates == <>[](on_the_way = {})

\* A datagram with hops enough for both routers that the Internet did not lose arrives, however many
\* ARP exchanges its way takes and whatever frames of these are lost.
Arrives ==
    \A side \in Sides, id \in 1 .. MaxSent :
      (\E dgram \in sent : dgram.id = id /\ dgram.dst = Plan[side].host /\ dgram.ttl >= 3)
        ~> (id \in missing \/ \E dgram \in reached(side) : dgram.id = id)
=============================================================================
