------------------------------ MODULE Ethernet ------------------------------
(***************************************************************************)
(* Network interfaces on one Ethernet link: the hosts send each other      *)
(* datagrams, time passes for each of them, a host is restarted with       *)
(* another Ethernet address, and the link loses and damages frames.  A     *)
(* frame stays in frames_out until the link has carried it.                *)
(***************************************************************************)
EXTENDS NetworkInterface, FiniteSets

CONSTANTS Flows,       \* the pairs <<from, to>> of addresses that exchange datagrams
          FirstMAC,    \* the Ethernet addresses the hosts start with
          Clocks,      \* the hosts that time passes for
          Ticks,       \* the intervals between two calls of tick()
          MaxAsked,    \* how many datagrams each flow has
          MaxQueue,    \* with more frames than this waiting at a host, no host sends and no time passes
          Restarting,  \* the hosts that may be restarted, once
          Spare        \* the Ethernet address such a host draws

ASSUME EthernetAssumption ==
    /\ \A hosts \in SUBSET IP : Cardinality(hosts) \in Nat  \* there are finitely many
    /\ Flows \subseteq IP \X IP
    /\ FirstMAC \in [IP -> MAC]
    /\ \A i, j \in IP : FirstMAC[i] = FirstMAC[j] => i = j
    /\ \A i \in Restarting, j \in IP : Spare[i] # FirstMAC[j]
    /\ \A i, j \in Restarting : Spare[i] = Spare[j] => i = j
    /\ Clocks \subseteq IP
    /\ Ticks \subseteq Nat
    /\ MaxAsked \in [Flows -> Nat]
    /\ MaxQueue \in Nat
    /\ Restarting \subseteq IP
    /\ Spare \in [Restarting -> MAC]

VARIABLES ni,        \* the interface with each address
          asked,     \* how many datagrams of each flow were sent
          got,       \* the datagrams each interface passed up
          restarted, \* the hosts that were restarted
          since,     \* for each flow, time since the last request for its ARP mapping, up to the timeout
          gap,       \* the time between the last two of these requests, up to the timeout
          outdated   \* time since the receiver was restarted, up to the TTL; all by the sender's clock

vars == <<ni, asked, got, restarted, since, gap, outdated>>

Init ==
    /\ ni = [ i \in IP |-> NewNetworkInterface(FirstMAC[i], i) ]
    /\ asked = [ flow \in Flows |-> 0 ]
    /\ got = [ i \in IP |-> << >> ]
    /\ restarted = {}
    /\ since = [ flow \in Flows |-> DEFAULT_ARP_TIMEOUT ]
    /\ gap = since
    /\ outdated = [ flow \in Flows |-> DEFAULT_ARP_TTL ]

LinkReady == \A i \in IP : Len(ni[i].frames_out) <= MaxQueue

upto(bound, n) == IF n < bound THEN n ELSE bound

requests(frames, ip) ==
    \E n \in DOMAIN frames : /\ frames[n].type = "ARP"
                             /\ frames[n].payload.opcode = "REQUEST"
                             /\ frames[n].payload.target_ip_address = ip

\* interface i becomes `new` after ms on its clock
Clocked(i, new, ms) ==
    LET pushed == SubSeq(new.frames_out, Len(ni[i].frames_out) + 1, Len(new.frames_out))
        asks(flow) == flow[1] = i /\ requests(pushed, flow[2])
        now(flow) == upto(DEFAULT_ARP_TIMEOUT, since[flow] + IF flow[1] = i THEN ms ELSE 0)
    IN  /\ ni' = [ ni EXCEPT ![i] = new ]
        /\ since' = [ flow \in Flows |-> IF asks(flow) THEN 0 ELSE now(flow) ]
        /\ gap' = [ flow \in Flows |-> IF asks(flow) THEN now(flow) ELSE gap[flow] ]

Send(i, j) ==
    LET dgram == [ src |-> i, dst |-> j, seq |-> asked[<<i, j>>] + 1 ]
    IN  /\ asked[<<i, j>>] < MaxAsked[<<i, j>>]
        /\ LinkReady
        /\ Clocked(i, send_datagram(ni[i], dgram, j), 0)
        /\ asked' = [ asked EXCEPT ![<<i, j>>] = @ + 1 ]
        /\ UNCHANGED <<got, restarted, outdated>>

Tick(i, ms) ==
    LET late == overdue(ni[i], ms)
    IN  \E again \in [ 1 .. Cardinality(late) -> late ] :
          /\ \A ip \in late : \E n \in DOMAIN again : again[n] = ip
          /\ LinkReady
          /\ Clocked(i, tick(ni[i], ms, again), ms)
          /\ outdated' = [ flow \in Flows |->
                             upto(DEFAULT_ARP_TTL, outdated[flow] + IF flow[1] = i THEN ms ELSE 0) ]
          /\ UNCHANGED <<asked, got, restarted>>

\* the link takes the first frame of i and brings `frame` to the interfaces in R
Transfer(i, R, frame) ==
    /\ ni[i].frames_out # << >>
    /\ ni' = [ j \in IP |-> CASE j = i -> [ ni[i] EXCEPT !.frames_out = Tail(@) ]
                              [] j \in R -> recv_frame(ni[j], frame)
                              [] OTHER -> ni[j] ]
    /\ got' = [ j \in IP |-> IF j \in R THEN got[j] \o received_datagrams(ni[j], frame) ELSE got[j] ]
    /\ UNCHANGED <<asked, restarted, since, gap, outdated>>

Deliver(i) == Transfer(i, IP \ {i}, Head(ni[i].frames_out))

\* some interfaces miss the frame
Lose(i) == \E R \in SUBSET (IP \ {i}) : Transfer(i, R, Head(ni[i].frames_out))

Damage(i) == Transfer(i, IP \ {i}, [ Head(ni[i].frames_out) EXCEPT !.intact = FALSE ])

\* the program of host i is started again and has drawn another Ethernet address
Restart(i) ==
    /\ i \notin restarted
    /\ ni' = [ ni EXCEPT ![i] = NewNetworkInterface(Spare[i], i) ]
    /\ restarted' = restarted \cup {i}
    /\ outdated' = [ flow \in Flows |-> IF flow[2] = i THEN 0 ELSE outdated[flow] ]
    /\ since' = [ flow \in Flows |-> IF flow[1] = i THEN DEFAULT_ARP_TIMEOUT ELSE since[flow] ]
    /\ UNCHANGED <<asked, got, gap>>

Next ==
    \/ \E flow \in Flows : Send(flow[1], flow[2])
    \/ \E i \in Clocks, ms \in Ticks : Tick(i, ms)
    \/ \E i \in IP : Deliver(i) \/ Lose(i) \/ Damage(i)
    \/ \E i \in Restarting : Restart(i)

Spec == Init /\ [][Next]_vars

\* tick() is called for ever, and a link that is tried for ever does not lose every frame of a host
Fairness ==
    /\ \A i \in Clocks : WF_vars(\E ms \in Ticks : Tick(i, ms))
    /\ \A i \in IP : SF_vars(Deliver(i))

FairSpec == Spec /\ Fairness

-----------------------------------------------------------------------------
waiting(i, j) == ni[i].ARP_pending_datagrams[j]

\* Datagrams wait exactly for the addresses being asked for, and never for one that is known
\* (network_interface.cc:37-55, :93-114): a reply releases all that waits, and tick() repeats no
\* request that was answered.
Coherent ==
    \A i, j \in IP :
      /\ j \in DOMAIN ni[i].ARP_pending_ip_addresses <=> waiting(i, j) # << >>
      /\ is_ip_known(ni[i], j) => waiting(i, j) = << >>

\* An interface passes up only datagrams for its own host, and those of one sender in the order in
\* which they were sent: none that waited for ARP is overtaken by a later one or sent twice, whatever
\* the link loses and whoever is restarted.
InOrder ==
    \A j \in IP : \A n, m \in DOMAIN got[j] :
      /\ got[j][n].dst = j
      /\ n < m /\ got[j][n].src = got[j][m].src => got[j][n].seq < got[j][m].seq

\* "pending mappings last five seconds" (tests/net_interface.cc:155): on the clock of the interface,
\* two requests for one address are at least a timeout apart, whatever is sent or learned in between.
RequestsSpaced == \A flow \in Flows : gap[flow] = DEFAULT_ARP_TIMEOUT

\* A mapping to the Ethernet address of a host that is gone is used for less than the TTL.
StaleBounded ==
    \A flow \in Flows :
      LET i == flow[1]
          j == flow[2]
      IN  is_ip_known(ni[i], j) /\ ni[i].ARP_table[j].mac # ni[j].ethernet_address
            => outdated[flow] < DEFAULT_ARP_TTL

\* A datagram that waits for an Ethernet address is sent in the end: tick() asks until it is answered.
Released == \A flow \in Flows : waiting(flow[1], flow[2]) # << >> ~> waiting(flow[1], flow[2]) = << >>
=============================================================================
