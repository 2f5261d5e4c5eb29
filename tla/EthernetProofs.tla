--------------------------- MODULE EthernetProofs ---------------------------
(***************************************************************************)
(* What the interfaces of an Ethernet keep true, for any number of hosts,  *)
(* any timeouts, and whatever the link loses.                              *)
(***************************************************************************)
EXTENDS Ethernet, TLAPS

TTL == DEFAULT_ARP_TTL
TIMEOUT == DEFAULT_ARP_TIMEOUT

Datagram == [ src : IP, dst : IP, seq : Nat ]

\* the ARP messages and the frames of the interface at `mac` and `ip`
MessageOf(mac, ip) ==
    [ opcode : {"REQUEST", "REPLY"}, sender_ethernet_address : {mac}, sender_ip_address : {ip}, target_ip_address : IP ]

FrameOf(mac, ip) ==
    [ type : {"ARP"}, src : {mac}, dst : MAC \cup {ETHERNET_BROADCAST}, payload : MessageOf(mac, ip), intact : {TRUE} ]
    \cup
    [ type : {"IPv4"}, src : {mac}, dst : MAC \cup {ETHERNET_BROADCAST}, payload : Datagram, intact : {TRUE} ]

\* f is a function from a subset of S to T
Partial(f, S, T) ==
    /\ DOMAIN f \subseteq S
    /\ f \in [DOMAIN f -> T]

Fields == {"ethernet_address", "ip_address", "frames_out", "ARP_table", "ARP_pending_ip_addresses",
           "ARP_pending_datagrams"}

Interface(x) ==
    /\ x = [ field \in Fields |-> x[field] ]
    /\ x.ethernet_address \in MAC
    /\ x.ip_address \in IP
    /\ x.frames_out \in Seq(FrameOf(x.ethernet_address, x.ip_address))
    /\ Partial(x.ARP_table, IP, [ mac : MAC, ttl : 1 .. TTL ])
    /\ Partial(x.ARP_pending_ip_addresses, IP, 1 .. TIMEOUT)
    /\ x.ARP_pending_datagrams \in [IP -> Seq(Datagram)]

\* Datagrams wait for the addresses being asked for
Settled(x, j) ==
    /\ j \in DOMAIN x.ARP_pending_ip_addresses <=> x.ARP_pending_datagrams[j] # << >>
    /\ j \in DOMAIN x.ARP_table => x.ARP_pending_datagrams[j] = << >>

\* The interface x last asked for j s ago: the request and what was learned from it are as old as that,
\* and when neither is left a whole timeout has passed.
Spaced(x, j, s) ==
    /\ j \in DOMAIN x.ARP_pending_ip_addresses => x.ARP_pending_ip_addresses[j] + s = TIMEOUT
    /\ j \in DOMAIN x.ARP_table => x.ARP_table[j].ttl + s >= TTL \/ s = TIMEOUT
    /\ j \notin DOMAIN x.ARP_pending_ip_addresses /\ j \notin DOMAIN x.ARP_table => s = TIMEOUT

\* A mapping that is not to `mac` was learned before the host got it, o ago.
Fresh(x, j, mac, o) ==
    j \in DOMAIN x.ARP_table /\ x.ARP_table[j].mac # mac => x.ARP_table[j].ttl + o <= TTL

IInv ==
    /\ ni = [ i \in IP |-> ni[i] ]
    /\ \A i \in IP : Interface(ni[i]) /\ ni[i].ip_address = i
    /\ asked \in [Flows -> Nat]
    /\ since \in [Flows -> 0 .. TIMEOUT]
    /\ gap \in [Flows -> {TIMEOUT}]
    /\ outdated \in [Flows -> 0 .. TTL]
    /\ \A i, j \in IP : Settled(ni[i], j)
    /\ \A flow \in Flows : Spaced(ni[flow[1]], flow[2], since[flow])
    /\ \A flow \in Flows : Fresh(ni[flow[1]], flow[2], ni[flow[2]].ethernet_address, outdated[flow])

-----------------------------------------------------------------------------
\* The frames that generate_frame builds belong to its interface.
LEMMA FramesOwned ==
    ASSUME NEW x, Interface(x), NEW ip
    PROVE  /\ \A d \in Datagram :
                generate_frame(x, ip, "IPv4", d) \in FrameOf(x.ethernet_address, x.ip_address)
           /\ \A op \in {"REQUEST", "REPLY"} :
                ip \in IP => ARP_frame(x, ip, op) \in FrameOf(x.ethernet_address, x.ip_address)
  <1>1. (IF is_ip_known(x, ip) THEN x.ARP_table[ip].mac ELSE ETHERNET_BROADCAST) \in MAC \cup {ETHERNET_BROADCAST}
    BY DEF Interface, Partial, is_ip_known
  <1>2. ASSUME NEW d \in Datagram
        PROVE  generate_frame(x, ip, "IPv4", d) \in FrameOf(x.ethernet_address, x.ip_address)
    BY <1>1 DEF generate_frame, FrameOf
  <1>3. ASSUME NEW op \in {"REQUEST", "REPLY"}, ip \in IP
        PROVE  ARP_frame(x, ip, op) \in FrameOf(x.ethernet_address, x.ip_address)
    <2>1. generate_ARPMessage(x, ip, op) \in MessageOf(x.ethernet_address, x.ip_address)
      BY <1>3 DEF generate_ARPMessage, MessageOf
    <2> QED BY <1>1, <2>1 DEF ARP_frame, generate_frame, FrameOf
  <1> QED BY <1>2, <1>3

\* y is x with more frames to send
Pushed(x, y, frames) ==
    /\ Interface(y)
    /\ y.ethernet_address = x.ethernet_address
    /\ y.ip_address = x.ip_address
    /\ y.frames_out = x.frames_out \o frames
    /\ y.ARP_table = x.ARP_table
    /\ y.ARP_pending_ip_addresses = x.ARP_pending_ip_addresses
    /\ y.ARP_pending_datagrams = x.ARP_pending_datagrams

\* push_frames only adds frames.
LEMMA PushFrames ==
    ASSUME NEW x, Interface(x), NEW frames \in Seq(FrameOf(x.ethernet_address, x.ip_address))
    PROVE  Pushed(x, push_frames(x, frames), frames)
  <1> DEFINE y == push_frames(x, frames)
  <1>1. /\ y = [ field \in Fields |-> y[field] ]
        /\ y.ethernet_address = x.ethernet_address
        /\ y.ip_address = x.ip_address
        /\ y.frames_out = x.frames_out \o frames
        /\ y.ARP_table = x.ARP_table
        /\ y.ARP_pending_ip_addresses = x.ARP_pending_ip_addresses
        /\ y.ARP_pending_datagrams = x.ARP_pending_datagrams
    BY Zenon DEF push_frames, Interface, Fields
  <1>2. x.frames_out \o frames \in Seq(FrameOf(x.ethernet_address, x.ip_address))
    BY DEF Interface
  <1> HIDE DEF y
  <1>3. y.frames_out \in Seq(FrameOf(y.ethernet_address, y.ip_address))
    BY <1>1, <1>2, Zenon
  <1>4. Pushed(x, y, frames)
    BY <1>1, <1>3, Zenon DEF Pushed, Interface
  <1> QED BY <1>4 DEF y

\* The frames a step added are the ones it pushed.
LEMMA PushedFrames ==
    ASSUME NEW S, NEW old \in Seq(S), NEW frames \in Seq(S)
    PROVE  SubSeq(old \o frames, Len(old) + 1, Len(old \o frames)) = frames
  OBVIOUS

-----------------------------------------------------------------------------
\* The interface x becomes y after ms on its clock and sends `frames`: it stays in order, asks for no
\* address within a timeout, and its mappings grow older.
Ages(x, y, frames, ms) ==
    /\ Interface(y)
    /\ y.ethernet_address = x.ethernet_address
    /\ y.ip_address = x.ip_address
    /\ frames \in Seq(FrameOf(x.ethernet_address, x.ip_address))
    /\ y.frames_out = x.frames_out \o frames
    /\ \A j \in IP : Settled(y, j)
    /\ \A j \in IP, s \in 0 .. TIMEOUT : Spaced(x, j, s) =>
         IF requests(frames, j) THEN s + ms >= TIMEOUT /\ Spaced(y, j, 0) ELSE Spaced(y, j, upto(TIMEOUT, s + ms))
    /\ \A j \in IP, mac \in MAC, o \in 0 .. TTL : Fresh(x, j, mac, o) => Fresh(y, j, mac, upto(TTL, o + ms))

\* What a sequence of at most one frame requests.
LEMMA RequestsOne ==
    ASSUME NEW x, Interface(x), NEW ip \in IP
    PROVE  /\ \A j : ~requests(<< >>, j)
           /\ \A d, j : ~requests(<< generate_frame(x, ip, "IPv4", d) >>, j)
           /\ \A j : requests(<< ARP_frame(x, ip, "REQUEST") >>, j) <=> j = ip
  <1>1. \A j : ~requests(<< >>, j)
    BY DEF requests
  <1>2. ASSUME NEW d, NEW j PROVE ~requests(<< generate_frame(x, ip, "IPv4", d) >>, j)
    BY DEF requests, generate_frame
  <1>3. ASSUME NEW j PROVE requests(<< ARP_frame(x, ip, "REQUEST") >>, j) <=> j = ip
    <2> DEFINE f == ARP_frame(x, ip, "REQUEST")
    <2>1. f.type = "ARP" /\ f.payload.opcode = "REQUEST" /\ f.payload.target_ip_address = ip
      BY DEF ARP_frame, generate_frame, generate_ARPMessage
    <2>2. DOMAIN << f >> = {1} /\ << f >>[1] = f
      OBVIOUS
    <2> HIDE DEF f
    <2> QED BY <2>1, <2>2 DEF requests, f
  <1> QED BY <1>1, <1>2, <1>3

\* A single frame is a sequence of frames.
LEMMA OneFrame == \A S : \A f \in S : << f >> \in Seq(S)
  OBVIOUS

LEMMA NoFrame == \A S : << >> \in Seq(S)
  OBVIOUS

LEMMA Joined ==
    ASSUME NEW S, NEW s \in Seq(S), NEW t \in Seq(S)
    PROVE  /\ s \o t \in Seq(S) /\ Len(s \o t) = Len(s) + Len(t)
           /\ \A n \in 1 .. Len(s) + Len(t) : (s \o t)[n] = IF n <= Len(s) THEN s[n] ELSE t[n - Len(s)]
  OBVIOUS

LEMMA NothingAdded == \A S : \A s \in Seq(S) : s \o << >> = s
  OBVIOUS

\* Extend on functions with a domain within S.
LEMMA ExtendFacts ==
    ASSUME NEW S, NEW T, NEW f, Partial(f, S, T), NEW x \in S, NEW y \in T
    PROVE  /\ Partial(Extend(f, x, y), S, T)
           /\ DOMAIN Extend(f, x, y) = DOMAIN f \cup {x}
           /\ Extend(f, x, y)[x] = y
           /\ \A z \in DOMAIN f \ {x} : Extend(f, x, y)[z] = f[z]
  <1> DEFINE g == Extend(f, x, y)
  <1>1. g = [ z \in DOMAIN f \cup {x} |-> IF z = x THEN y ELSE f[z] ]
    BY DEF Extend
  <1> HIDE DEF g
  <1>2. \A z \in DOMAIN f : f[z] \in T
    BY DEF Partial
  <1>3. /\ DOMAIN g = DOMAIN f \cup {x}
        /\ g[x] = y
        /\ \A z \in DOMAIN f \ {x} : g[z] = f[z]
        /\ g \in [DOMAIN f \cup {x} -> T]
    BY <1>1, <1>2
  <1>4. Partial(g, S, T)
    BY <1>3 DEF Partial
  <1> QED BY <1>3, <1>4 DEF g

\* send_datagram asks only when it neither knows the address nor has asked, and never leaves a datagram
\* waiting for an answer that nobody asked for.
LEMMA SendAges ==
    ASSUME NEW x, Interface(x), \A j \in IP : Settled(x, j), NEW d \in Datagram, NEW hop \in IP
    PROVE  \E frames : Ages(x, send_datagram(x, d, hop), frames, 0)
  <1> DEFINE S == FrameOf(x.ethernet_address, x.ip_address)
             w == [ x EXCEPT !.ARP_pending_datagrams[hop] = Append(@, d) ]
  <1>0. /\ \A s \in 0 .. TIMEOUT : upto(TIMEOUT, s + 0) = s
        /\ \A o \in 0 .. TTL : upto(TTL, o + 0) = o
        /\ TIMEOUT \in Nat /\ TTL \in Nat
    BY ARPAssumption DEF upto, TIMEOUT, TTL
  <1>1. CASE is_ip_known(x, hop)
    <2> DEFINE frames == << generate_frame(x, hop, "IPv4", d) >>
               y == push_frames(x, frames)
    <2>1. frames \in Seq(S)
      BY FramesOwned, OneFrame
    <2>2. Pushed(x, y, frames)
      BY <2>1, PushFrames, Zenon
    <2>3. send_datagram(x, d, hop) = y
      BY <1>1 DEF send_datagram
    <2>4. \A j : ~requests(frames, j)
      BY RequestsOne, Zenon
    <2> HIDE DEF frames, y
    <2>5. Ages(x, y, frames, 0)
      BY <1>0, <2>1, <2>2, <2>4 DEF Ages, Pushed, Settled, Spaced, Fresh
    <2> QED BY <2>3, <2>5
  <1>w. /\ w = [ field \in Fields |-> w[field] ]
        /\ w.ethernet_address = x.ethernet_address
        /\ w.ip_address = x.ip_address
        /\ w.frames_out = x.frames_out
        /\ w.ARP_table = x.ARP_table
        /\ w.ARP_pending_ip_addresses = x.ARP_pending_ip_addresses
        /\ w.ARP_pending_datagrams = [ x.ARP_pending_datagrams EXCEPT ![hop] = Append(@, d) ]
    BY Zenon DEF Interface, Fields
  <1>a. /\ w.ARP_pending_datagrams \in [IP -> Seq(Datagram)]
        /\ w.ARP_pending_datagrams[hop] # << >>
        /\ \A j \in IP \ {hop} : w.ARP_pending_datagrams[j] = x.ARP_pending_datagrams[j]
    <2>1. x.ARP_pending_datagrams \in [IP -> Seq(Datagram)]
      BY DEF Interface
    <2>2. x.ARP_pending_datagrams[hop] \in Seq(Datagram)
      BY <2>1
    <2>3. /\ Append(x.ARP_pending_datagrams[hop], d) \in Seq(Datagram)
          /\ Append(x.ARP_pending_datagrams[hop], d) # << >>
      BY <2>2
    <2> HIDE DEF w
    <2> QED BY <1>w, <2>1, <2>3, Zenon
  <1>2. CASE ~is_ip_known(x, hop) /\ hop \in DOMAIN x.ARP_pending_ip_addresses
    <2>1. send_datagram(x, d, hop) = w
      BY <1>2 DEF send_datagram
    <2> HIDE DEF w
    <2>2. Interface(w)
      BY <1>w, <1>a DEF Interface
    <2>3. w.frames_out = x.frames_out \o << >> /\ << >> \in Seq(S)
      BY <1>w DEF Interface
    <2>4. \A j \in IP : Settled(w, j)
      BY <1>w, <1>a, <1>2, Zenon DEF Settled, is_ip_known
    <2>5. \A j : ~requests(<< >>, j)
      BY RequestsOne, Zenon
    <2>6. Ages(x, w, << >>, 0)
      BY <1>0, <1>w, <2>2, <2>3, <2>4, <2>5 DEF Ages, Spaced, Fresh
    <2> QED BY <2>1, <2>6
  <1>3. CASE ~is_ip_known(x, hop) /\ hop \notin DOMAIN x.ARP_pending_ip_addresses
    <2> DEFINE z == [ w EXCEPT !.ARP_pending_ip_addresses = Extend(@, hop, DEFAULT_ARP_TIMEOUT) ]
               frames == << ARP_frame(x, hop, "REQUEST") >>
               y == push_frames(z, frames)
    <2>1. send_datagram(x, d, hop) = y
      BY <1>3 DEF send_datagram
    <2> HIDE DEF w
    <2>2. /\ z = [ field \in Fields |-> z[field] ]
          /\ z.ethernet_address = x.ethernet_address
          /\ z.ip_address = x.ip_address
          /\ z.frames_out = x.frames_out
          /\ z.ARP_table = x.ARP_table
          /\ z.ARP_pending_ip_addresses = Extend(x.ARP_pending_ip_addresses, hop, TIMEOUT)
          /\ z.ARP_pending_datagrams = w.ARP_pending_datagrams
      BY <1>w DEF Fields, TIMEOUT
    <2> HIDE DEF z
    <2>3. /\ Partial(z.ARP_pending_ip_addresses, IP, 1 .. TIMEOUT)
          /\ DOMAIN z.ARP_pending_ip_addresses = DOMAIN x.ARP_pending_ip_addresses \cup {hop}
          /\ z.ARP_pending_ip_addresses[hop] = TIMEOUT
          /\ \A j \in DOMAIN x.ARP_pending_ip_addresses \ {hop} :
               z.ARP_pending_ip_addresses[j] = x.ARP_pending_ip_addresses[j]
      <3>1. Partial(x.ARP_pending_ip_addresses, IP, 1 .. TIMEOUT) /\ TIMEOUT \in 1 .. TIMEOUT
        BY ARPAssumption DEF Interface, TIMEOUT
      <3> DEFINE old == x.ARP_pending_ip_addresses
                 e == Extend(old, hop, TIMEOUT)
      <3>2. /\ Partial(e, IP, 1 .. TIMEOUT)
            /\ DOMAIN e = DOMAIN old \cup {hop}
            /\ e[hop] = TIMEOUT
            /\ \A j \in DOMAIN old \ {hop} : e[j] = old[j]
        <4> DEFINE T == 1 .. TIMEOUT
        <4>1. Partial(old, IP, T) /\ TIMEOUT \in T
          BY <3>1
        <4> HIDE DEF T, old
        <4>2. /\ Partial(Extend(old, hop, TIMEOUT), IP, T)
              /\ DOMAIN Extend(old, hop, TIMEOUT) = DOMAIN old \cup {hop}
              /\ Extend(old, hop, TIMEOUT)[hop] = TIMEOUT
              /\ \A j \in DOMAIN old \ {hop} : Extend(old, hop, TIMEOUT)[j] = old[j]
          BY <4>1, ExtendFacts
        <4> QED BY <4>2 DEF T
      <3>3. z.ARP_pending_ip_addresses = e
        BY <2>2
      <3> HIDE DEF e
      <3> QED BY <3>2, <3>3
    <2>4. Interface(z)
      BY <1>a, <2>2, <2>3, Zenon DEF Interface
    <2>5. frames \in Seq(S) /\ S = FrameOf(z.ethernet_address, z.ip_address)
      BY <2>2, FramesOwned, OneFrame
    <2>6. Pushed(z, y, frames)
      BY <2>4, <2>5, PushFrames, Zenon
    <2>7. \A j : requests(frames, j) <=> j = hop
      BY RequestsOne, Zenon
    <2> HIDE DEF y, frames
    <2>8. \A j \in IP : Settled(y, j)
      <3>1. hop \notin DOMAIN x.ARP_table
        BY <1>3 DEF is_ip_known
      <3>2. /\ y.ARP_table = x.ARP_table
            /\ y.ARP_pending_ip_addresses = z.ARP_pending_ip_addresses
            /\ y.ARP_pending_datagrams = w.ARP_pending_datagrams
        BY <2>2, <2>6 DEF Pushed
      <3> QED BY <1>a, <2>3, <3>1, <3>2, Zenon DEF Settled
    <2>9. ASSUME NEW j \in IP, NEW s \in 0 .. TIMEOUT, Spaced(x, j, s)
          PROVE  IF requests(frames, j) THEN s + 0 >= TIMEOUT /\ Spaced(y, j, 0) ELSE Spaced(y, j, upto(TIMEOUT, s + 0))
      <3>1. CASE j = hop
        <4>1. s = TIMEOUT
          BY <3>1, <1>3, <2>9 DEF Spaced, is_ip_known
        <4>2. /\ y.ARP_table = x.ARP_table /\ hop \notin DOMAIN x.ARP_table
              /\ y.ARP_pending_ip_addresses = z.ARP_pending_ip_addresses
          BY <1>3, <2>2, <2>6 DEF Pushed, is_ip_known
        <4>3. Spaced(y, hop, 0)
          BY <1>0, <2>3, <4>2 DEF Spaced
        <4> QED BY <3>1, <1>0, <2>7, <4>1, <4>3
      <3>2. CASE j # hop
        BY <3>2, <1>0, <2>2, <2>3, <2>6, <2>7, <2>9, Zenon DEF Spaced, Pushed
      <3> QED BY <3>1, <3>2
    <2>10. \A j \in IP, mac \in MAC, o \in 0 .. TTL : Fresh(x, j, mac, o) => Fresh(y, j, mac, upto(TTL, o + 0))
      BY <1>0, <2>2, <2>6 DEF Fresh, Pushed
    <2>11. Ages(x, y, frames, 0)
      BY <2>2, <2>5, <2>6, <2>8, <2>9, <2>10 DEF Ages, Pushed
    <2> QED BY <2>1, <2>11
  <1> QED BY <1>1, <1>2, <1>3

\* A function on 1 .. n with values in S is a sequence.
LEMMA MappedSeq == \A S : \A n \in Nat : \A f \in [1 .. n -> S] : f \in Seq(S)
  OBVIOUS

\* tick repeats a request once its timeout has run out and forgets a mapping once its TTL has.
LEMMA TickAges ==
    ASSUME NEW x, Interface(x), \A j \in IP : Settled(x, j), NEW ms \in Nat,
           NEW n \in Nat, NEW again \in [1 .. n -> overdue(x, ms)],
           \A ip \in overdue(x, ms) : \E m \in DOMAIN again : again[m] = ip
    PROVE  \E frames : Ages(x, tick(x, ms, again), frames, ms)
  <1> DEFINE S == FrameOf(x.ethernet_address, x.ip_address)
             frames == [ m \in DOMAIN again |-> ARP_frame(x, again[m], "REQUEST") ]
             asking == x.ARP_pending_ip_addresses
             table == x.ARP_table
             left == { ip \in DOMAIN table : table[ip].ttl > ms }
             asking2 == [ ip \in DOMAIN asking |-> IF asking[ip] <= ms THEN DEFAULT_ARP_TIMEOUT ELSE asking[ip] - ms ]
             table2 == [ ip \in left |-> [ mac |-> table[ip].mac, ttl |-> table[ip].ttl - ms ] ]
             z == [ x EXCEPT !.ARP_pending_ip_addresses = asking2, !.ARP_table = table2 ]
             y == push_frames(z, frames)
  <1>1. tick(x, ms, again) = y
    BY DEF tick
  <1>2. TIMEOUT \in Nat \ {0} /\ TTL \in Nat \ {0} /\ TIMEOUT <= TTL
    BY ARPAssumption DEF TIMEOUT, TTL
  <1>3. Partial(asking, IP, 1 .. TIMEOUT) /\ Partial(table, IP, [ mac : MAC, ttl : 1 .. TTL ])
    BY DEF Interface
  <1>4. Partial(asking2, IP, 1 .. TIMEOUT)
    <2>1. \A ip \in DOMAIN asking : asking[ip] \in 1 .. TIMEOUT
      BY <1>3 DEF Partial
    <2>2. \A ip \in DOMAIN asking : (IF asking[ip] <= ms THEN TIMEOUT ELSE asking[ip] - ms) \in 1 .. TIMEOUT
      BY <1>2, <2>1
    <2> QED BY <1>3, <2>2 DEF Partial, TIMEOUT
  <1>5. ASSUME NEW ip \in left
        PROVE  /\ ip \in IP
               /\ table2[ip] \in [ mac : MAC, ttl : 1 .. TTL ]
               /\ table2[ip].mac = table[ip].mac
               /\ table2[ip].ttl = table[ip].ttl - ms
    <2>1. ip \in IP /\ table[ip] \in [ mac : MAC, ttl : 1 .. TTL ] /\ table[ip].ttl > ms
      BY <1>3 DEF Partial
    <2>2. table[ip].mac \in MAC /\ table[ip].ttl \in 1 .. TTL
      BY <2>1
    <2>3. table[ip].ttl - ms \in 1 .. TTL
      BY <1>2, <2>1, <2>2
    <2>4. table2[ip] = [ mac |-> table[ip].mac, ttl |-> table[ip].ttl - ms ]
      OBVIOUS
    <2> HIDE DEF table2
    <2> QED BY <2>1, <2>2, <2>3, <2>4
  <1>6. Partial(table2, IP, [ mac : MAC, ttl : 1 .. TTL ])
    BY <1>5, Zenon DEF Partial
  <1>7. /\ z = [ field \in Fields |-> z[field] ]
        /\ z.ethernet_address = x.ethernet_address
        /\ z.ip_address = x.ip_address
        /\ z.frames_out = x.frames_out
        /\ z.ARP_table = table2
        /\ z.ARP_pending_ip_addresses = asking2
        /\ z.ARP_pending_datagrams = x.ARP_pending_datagrams
    <2> HIDE DEF asking2, table2
    <2> QED BY Zenon DEF Interface, Fields
  <1>8. overdue(x, ms) \subseteq IP /\ \A j : j \in overdue(x, ms) <=> j \in DOMAIN asking /\ asking[j] <= ms
    BY <1>3 DEF overdue, Partial
  <1>9. frames \in Seq(S)
    <2>1. \A m \in 1 .. n : ARP_frame(x, again[m], "REQUEST") \in S
      BY <1>8, FramesOwned
    <2>2. frames \in [1 .. n -> S]
      BY <2>1
    <2> HIDE DEF frames, S
    <2> QED BY <2>2, MappedSeq
  <1>10. \A j : requests(frames, j) <=> j \in overdue(x, ms)
    <2>1. \A m \in DOMAIN again : /\ frames[m].type = "ARP"
                                  /\ frames[m].payload.opcode = "REQUEST"
                                  /\ frames[m].payload.target_ip_address = again[m]
      BY DEF ARP_frame, generate_frame, generate_ARPMessage
    <2>2. DOMAIN frames = DOMAIN again /\ \A m \in DOMAIN again : again[m] \in overdue(x, ms)
      OBVIOUS
    <2> HIDE DEF frames
    <2>3. ASSUME NEW j PROVE requests(frames, j) <=> \E m \in DOMAIN again : again[m] = j
      BY <2>1, <2>2 DEF requests
    <2> QED BY <2>2, <2>3, Zenon
  <1>11. DOMAIN asking2 = DOMAIN asking /\ DOMAIN table2 = left
    OBVIOUS
  <1>12. \A j \in DOMAIN asking : asking2[j] = IF asking[j] <= ms THEN TIMEOUT ELSE asking[j] - ms
    BY Zenon DEF TIMEOUT
  <1> HIDE DEF frames, asking2, table2, z
  <1>13. Interface(z)
    BY <1>4, <1>6, <1>7 DEF Interface
  <1>14. Pushed(z, y, frames)
    BY <1>7, <1>9, <1>13, PushFrames
  <1> HIDE DEF y
  <1>15. /\ y.ARP_table = table2
         /\ y.ARP_pending_ip_addresses = asking2
         /\ y.ARP_pending_datagrams = x.ARP_pending_datagrams
    BY <1>7, <1>14 DEF Pushed
  <1>16. \A j \in IP : Settled(y, j)
    BY <1>11, <1>15, Zenon DEF Settled
  <1>17. ASSUME NEW j \in IP, NEW s \in 0 .. TIMEOUT, Spaced(x, j, s)
         PROVE  IF requests(frames, j) THEN s + ms >= TIMEOUT /\ Spaced(y, j, 0) ELSE Spaced(y, j, upto(TIMEOUT, s + ms))
    <2>0. j \in DOMAIN asking => j \notin DOMAIN table /\ asking[j] \in 1 .. TIMEOUT /\ asking[j] + s = TIMEOUT
      BY <1>3, <1>17, Zenon DEF Settled, Spaced, Partial
    <2>1. CASE j \in overdue(x, ms)
      <3>1. s + ms >= TIMEOUT
        BY <1>2, <1>8, <2>0, <2>1
      <3>2. j \in DOMAIN asking /\ asking2[j] = TIMEOUT /\ j \notin DOMAIN table2
        BY <1>8, <1>11, <1>12, <2>0, <2>1
      <3>3. Spaced(y, j, 0)
        BY <1>2, <1>11, <1>15, <3>2 DEF Spaced
      <3> QED BY <1>10, <2>1, <3>1, <3>3
    <2>2. CASE j \notin overdue(x, ms) /\ j \in DOMAIN asking
      <3>1. asking2[j] = asking[j] - ms /\ asking[j] > ms /\ j \notin DOMAIN table2
        BY <1>2, <1>8, <1>11, <1>12, <2>0, <2>2
      <3>2. upto(TIMEOUT, s + ms) = s + ms /\ asking2[j] + (s + ms) = TIMEOUT
        BY <1>2, <2>0, <2>2, <3>1 DEF upto
      <3>3. Spaced(y, j, s + ms)
        BY <1>2, <1>11, <1>15, <2>2, <3>1, <3>2 DEF Spaced
      <3> QED BY <1>10, <2>2, <3>2, <3>3
    <2>3. CASE j \notin DOMAIN asking
      <3>1. ~requests(frames, j)
        BY <1>8, <1>10, <2>3
      <3>2. CASE j \in left
        <4>1. table2[j].ttl = table[j].ttl - ms /\ table[j].ttl \in 1 .. TTL /\ j \in DOMAIN table
          BY <1>3, <1>5, <3>2 DEF Partial
        <4>2. table[j].ttl + s >= TTL \/ s = TIMEOUT
          BY <1>17, <4>1 DEF Spaced
        <4>3. table2[j].ttl + upto(TIMEOUT, s + ms) >= TTL \/ upto(TIMEOUT, s + ms) = TIMEOUT
          BY <1>2, <4>1, <4>2 DEF upto
        <4> QED BY <1>11, <1>15, <2>3, <3>1, <3>2, <4>3 DEF Spaced
      <3>3. CASE j \notin left
        <4>1. upto(TIMEOUT, s + ms) = TIMEOUT
          <5>1. CASE j \in DOMAIN table
            <6>1. table[j].ttl \in 1 .. TTL /\ table[j].ttl <= ms
              BY <1>2, <1>3, <3>3, <5>1 DEF Partial
            <6>2. table[j].ttl + s >= TTL \/ s = TIMEOUT
              BY <1>17, <5>1 DEF Spaced
            <6> QED BY <1>2, <6>1, <6>2 DEF upto
          <5>2. CASE j \notin DOMAIN table
            <6>1. s = TIMEOUT
              BY <1>17, <2>3, <5>2 DEF Spaced
            <6> QED BY <1>2, <6>1 DEF upto
          <5> QED BY <5>1, <5>2
        <4> QED BY <1>11, <1>15, <2>3, <3>1, <3>3, <4>1 DEF Spaced
      <3> QED BY <3>2, <3>3
    <2> QED BY <1>8, <2>1, <2>2, <2>3
  <1>18. ASSUME NEW j \in IP, NEW mac \in MAC, NEW o \in 0 .. TTL, Fresh(x, j, mac, o)
         PROVE  Fresh(y, j, mac, upto(TTL, o + ms))
    <2>1. SUFFICES ASSUME j \in left, table2[j].mac # mac
                   PROVE  table2[j].ttl + upto(TTL, o + ms) <= TTL
      BY <1>11, <1>15 DEF Fresh
    <2>2. /\ table2[j].ttl = table[j].ttl - ms /\ table[j].ttl \in 1 .. TTL /\ table[j].ttl > ms
          /\ j \in DOMAIN table /\ table[j].mac # mac
      BY <1>3, <1>5, <2>1 DEF Partial
    <2>3. table[j].ttl + o <= TTL
      BY <1>18, <2>2 DEF Fresh
    <2> QED BY <1>2, <2>2, <2>3 DEF upto
  <1>19. Ages(x, y, frames, ms)
    BY <1>7, <1>9, <1>14, <1>16, <1>17, <1>18 DEF Ages, Pushed
  <1> QED BY <1>1, <1>19
-----------------------------------------------------------------------------
\* The interface x becomes y having heard that `mac` has ip: it stays in order, and no request or
\* mapping is younger than it should be.
Learns(x, y, mac, ip) ==
    /\ Interface(y)
    /\ y.ethernet_address = x.ethernet_address
    /\ y.ip_address = x.ip_address
    /\ \A j \in IP : Settled(y, j)
    /\ \A j \in IP, s \in 0 .. TIMEOUT : Spaced(x, j, s) => Spaced(y, j, s)
    /\ \A j \in IP, m \in MAC, o \in 0 .. TTL :
         Fresh(x, j, m, o) /\ (j = ip => m = mac) => Fresh(y, j, m, o)

\* learn ends the wait for the address it learns and sends every datagram that waited for it.
LEMMA LearnLearns ==
    ASSUME NEW x, Interface(x), \A j \in IP : Settled(x, j), NEW mac \in MAC, NEW ip \in IP,
           NEW message \in MessageOf(mac, ip)
    PROVE  Learns(x, learn(x, message), mac, ip)
  <1> DEFINE asking == x.ARP_pending_ip_addresses
             table == x.ARP_table
             pending == x.ARP_pending_datagrams
             entry == [ mac |-> mac, ttl |-> TTL ]
             z == [ x EXCEPT !.ARP_table = Extend(@, ip, entry),
                             !.ARP_pending_ip_addresses = Without(@, ip),
                             !.ARP_pending_datagrams[ip] = << >> ]
             reply == IF message.opcode = "REQUEST" THEN << ARP_frame(z, ip, "REPLY") >> ELSE << >>
             released == [ n \in DOMAIN pending[ip] |-> generate_frame(z, ip, "IPv4", pending[ip][n]) ]
             frames == reply \o released
             y == push_frames(z, frames)
             S == FrameOf(x.ethernet_address, x.ip_address)
             E == [ mac : MAC, ttl : 1 .. TTL ]
  <1>1. message.sender_ip_address = ip /\ message.sender_ethernet_address = mac
    BY DEF MessageOf
  <1>2. learn(x, message) = y
    BY <1>1 DEF learn, TTL
  <1>3. TIMEOUT \in Nat \ {0} /\ TTL \in Nat \ {0}
    BY ARPAssumption DEF TIMEOUT, TTL
  <1>4. /\ Partial(asking, IP, 1 .. TIMEOUT) /\ Partial(table, IP, E)
        /\ pending \in [IP -> Seq(Datagram)] /\ entry \in E
    BY <1>3 DEF Interface
  <1>5. /\ z = [ field \in Fields |-> z[field] ]
        /\ z.ethernet_address = x.ethernet_address
        /\ z.ip_address = x.ip_address
        /\ z.frames_out = x.frames_out
        /\ z.ARP_table = Extend(table, ip, entry)
        /\ z.ARP_pending_ip_addresses = Without(asking, ip)
        /\ z.ARP_pending_datagrams = [ pending EXCEPT ![ip] = << >> ]
    <2> HIDE DEF entry
    <2> QED BY Zenon DEF Interface, Fields
  <1>6. entry.mac = mac /\ entry.ttl = TTL
    OBVIOUS
  <1> HIDE DEF z, entry
  <1>7. /\ Partial(z.ARP_table, IP, E)
        /\ DOMAIN z.ARP_table = DOMAIN table \cup {ip}
        /\ z.ARP_table[ip] = entry
        /\ \A j \in DOMAIN table \ {ip} : z.ARP_table[j] = table[j]
    <2>1. Partial(table, IP, E) /\ entry \in E
      BY <1>4
    <2> DEFINE e == Extend(table, ip, entry)
    <2> HIDE DEF E, table
    <2>2. /\ Partial(e, IP, E)
          /\ DOMAIN e = DOMAIN table \cup {ip}
          /\ e[ip] = entry
          /\ \A j \in DOMAIN table \ {ip} : e[j] = table[j]
      BY <2>1, ExtendFacts
    <2>3. z.ARP_table = e
      BY <1>5 DEF table
    <2> HIDE DEF e
    <2> QED BY <2>2, <2>3
  <1>8. /\ Partial(z.ARP_pending_ip_addresses, IP, 1 .. TIMEOUT)
        /\ DOMAIN z.ARP_pending_ip_addresses = DOMAIN asking \ {ip}
        /\ \A j \in DOMAIN asking \ {ip} : z.ARP_pending_ip_addresses[j] = asking[j]
    <2> DEFINE T == 1 .. TIMEOUT
               g == Without(asking, ip)
    <2>1. Partial(asking, IP, T)
      BY <1>4
    <2> HIDE DEF T, asking
    <2>2. /\ Partial(g, IP, T)
          /\ DOMAIN g = DOMAIN asking \ {ip}
          /\ \A j \in DOMAIN asking \ {ip} : g[j] = asking[j]
      BY <2>1 DEF Partial, Without
    <2> HIDE DEF g
    <2> QED BY <1>5, <2>2 DEF g, T
  <1>9. /\ z.ARP_pending_datagrams \in [IP -> Seq(Datagram)]
        /\ z.ARP_pending_datagrams[ip] = << >>
        /\ \A j \in IP \ {ip} : z.ARP_pending_datagrams[j] = pending[j]
    <2>1. << >> \in Seq(Datagram)
      OBVIOUS
    <2> HIDE DEF pending
    <2> QED BY <1>4, <1>5, <2>1, Zenon
  <1>10. Interface(z)
    BY <1>5, <1>7, <1>8, <1>9 DEF Interface
  <1>11. frames \in Seq(S)
    <2>1. S = FrameOf(z.ethernet_address, z.ip_address)
      BY <1>5
    <2>2. reply \in Seq(S)
      BY <1>10, <2>1, FramesOwned, OneFrame, NoFrame, Zenon
    <2>3. pending[ip] \in Seq(Datagram)
      BY <1>4
    <2>4. /\ Len(pending[ip]) \in Nat /\ DOMAIN pending[ip] = 1 .. Len(pending[ip])
          /\ \A n \in 1 .. Len(pending[ip]) : pending[ip][n] \in Datagram
      BY <2>3
    <2> DEFINE waiting_ == pending[ip]
    <2>5. /\ Len(waiting_) \in Nat /\ DOMAIN waiting_ = 1 .. Len(waiting_)
          /\ \A n \in 1 .. Len(waiting_) : waiting_[n] \in Datagram
          /\ released = [ n \in DOMAIN waiting_ |-> generate_frame(z, ip, "IPv4", waiting_[n]) ]
      BY <2>4
    <2> HIDE DEF waiting_, S, released
    <2>6. \A n \in 1 .. Len(waiting_) : generate_frame(z, ip, "IPv4", waiting_[n]) \in S
      BY <1>10, <2>1, <2>5, FramesOwned
    <2>7. released \in [1 .. Len(waiting_) -> S]
      BY <2>5, <2>6
    <2>8. released \in Seq(S)
      BY <2>5, <2>7, MappedSeq
    <2> HIDE DEF reply
    <2> QED BY <2>2, <2>8
  <1> HIDE DEF frames
  <1>12. Pushed(z, y, frames)
    BY <1>5, <1>10, <1>11, PushFrames
  <1> HIDE DEF y
  <1>13. /\ y.ARP_table = z.ARP_table
         /\ y.ARP_pending_ip_addresses = z.ARP_pending_ip_addresses
         /\ y.ARP_pending_datagrams = z.ARP_pending_datagrams
    BY <1>12 DEF Pushed
  <1>14. ASSUME NEW j \in IP
         PROVE  Settled(y, j)
    <2>1. Settled(x, j)
      OBVIOUS
    <2>2. CASE j = ip
      BY <1>8, <1>9, <1>13, <2>2 DEF Settled
    <2>3. CASE j # ip
      BY <1>7, <1>8, <1>9, <1>13, <2>1, <2>3 DEF Settled
    <2> QED BY <2>2, <2>3
  <1>15. ASSUME NEW j \in IP, NEW s \in 0 .. TIMEOUT, Spaced(x, j, s)
         PROVE  Spaced(y, j, s)
    <2>1. CASE j = ip
      <3>1. y.ARP_table[j].ttl = TTL /\ j \in DOMAIN y.ARP_table /\ j \notin DOMAIN y.ARP_pending_ip_addresses
        BY <1>6, <1>7, <1>8, <1>13, <2>1
      <3>2. TTL + s >= TTL
        BY <1>3
      <3> QED BY <3>1, <3>2 DEF Spaced
    <2>2. CASE j # ip
      BY <1>7, <1>8, <1>13, <1>15, <2>2 DEF Spaced
    <2> QED BY <2>1, <2>2
  <1>16. ASSUME NEW j \in IP, NEW m \in MAC, NEW o \in 0 .. TTL, Fresh(x, j, m, o), j = ip => m = mac
         PROVE  Fresh(y, j, m, o)
    <2>1. CASE j = ip
      <3>1. y.ARP_table[j].mac = m
        BY <1>6, <1>7, <1>13, <1>16, <2>1
      <3> QED BY <3>1 DEF Fresh
    <2>2. CASE j # ip
      BY <1>7, <1>13, <1>16, <2>2 DEF Fresh
    <2> QED BY <2>1, <2>2
  <1>17. Learns(x, y, mac, ip)
    BY <1>5, <1>12, <1>14, <1>15, <1>16 DEF Learns, Pushed
  <1> QED BY <1>2, <1>17
\* An interface that hears a frame of `mac` at ip, whole or damaged, learns from it or stays as it is.
LEMMA RecvLearns ==
    ASSUME NEW x, Interface(x), \A j \in IP : Settled(x, j), NEW mac \in MAC, NEW ip \in IP,
           NEW frame, frame \in FrameOf(mac, ip) \/ ~frame.intact
    PROVE  Learns(x, recv_frame(x, frame), mac, ip)
  <1>1. Learns(x, x, mac, ip)
    BY DEF Learns
  <1>2. CASE recv_frame(x, frame) = x
    BY <1>1, <1>2
  <1>3. CASE recv_frame(x, frame) # x
    <2>1. frame.intact /\ frame.type # "IPv4" /\ recv_frame(x, frame) = learn(x, frame.payload)
      BY <1>3 DEF recv_frame
    <2>2. frame \in FrameOf(mac, ip)
      BY <2>1
    <2>3. frame.payload \in MessageOf(mac, ip)
      BY <2>1, <2>2, Zenon DEF FrameOf
    <2> QED BY <2>1, <2>3, LearnLearns
  <1> QED BY <1>2, <1>3

-----------------------------------------------------------------------------
\* A new interface is in order, and knows and asks for nothing.
LEMMA NewInterface ==
    ASSUME NEW mac \in MAC, NEW ip \in IP
    PROVE  LET x == NewNetworkInterface(mac, ip)
           IN  /\ Interface(x)
               /\ x.ethernet_address = mac /\ x.ip_address = ip
               /\ x.frames_out = << >>
               /\ \A j \in IP : Settled(x, j) /\ Spaced(x, j, TIMEOUT)
               /\ \A j, m, o : Fresh(x, j, m, o)
  <1> DEFINE x == NewNetworkInterface(mac, ip)
  <1>1. /\ x = [ field \in Fields |-> x[field] ]
        /\ x.ethernet_address = mac /\ x.ip_address = ip
        /\ x.frames_out = << >>
        /\ DOMAIN x.ARP_table = {}
        /\ DOMAIN x.ARP_pending_ip_addresses = {}
        /\ x.ARP_pending_datagrams = [ j \in IP |-> << >> ]
        /\ x.ARP_table = [ j \in {} |-> [ mac |-> ETHERNET_BROADCAST, ttl |-> 0 ] ]
        /\ x.ARP_pending_ip_addresses = [ j \in {} |-> 0 ]
    BY DEF NewNetworkInterface, Fields
  <1> HIDE DEF x
  <1>2. \A S : << >> \in Seq(S)
    OBVIOUS
  <1>3. \A S, T : Partial(x.ARP_table, S, T) /\ Partial(x.ARP_pending_ip_addresses, S, T)
    BY <1>1, Zenon DEF Partial
  <1>4. x.ARP_pending_datagrams \in [IP -> Seq(Datagram)]
    BY <1>1, <1>2, Zenon
  <1>5. x.frames_out \in Seq(FrameOf(x.ethernet_address, x.ip_address))
    BY <1>1, <1>2, Zenon
  <1>6. Interface(x)
    BY <1>1, <1>3, <1>4, <1>5 DEF Interface
  <1>7. \A j \in IP : Settled(x, j) /\ Spaced(x, j, TIMEOUT)
    BY <1>1, Zenon DEF Settled, Spaced
  <1>8. \A j, m, o : Fresh(x, j, m, o)
    BY <1>1 DEF Fresh
  <1> QED BY <1>1, <1>6, <1>7, <1>8 DEF x

\* The hosts start in order.
LEMMA InitIInv == Init => IInv
  <1> SUFFICES ASSUME Init PROVE IInv
    OBVIOUS
  <1>1. TIMEOUT \in Nat \ {0} /\ TTL \in Nat \ {0}
    BY ARPAssumption DEF TIMEOUT, TTL
  <1>2. \A i \in IP : FirstMAC[i] \in MAC /\ ni[i] = NewNetworkInterface(FirstMAC[i], i)
    BY EthernetAssumption, Zenon DEF Init
  <1>3. ASSUME NEW i \in IP
        PROVE  /\ Interface(ni[i]) /\ ni[i].ip_address = i
               /\ \A j \in IP : Settled(ni[i], j) /\ Spaced(ni[i], j, TIMEOUT)
               /\ \A j, m, o : Fresh(ni[i], j, m, o)
    BY <1>2, NewInterface
  <1>4. \A flow \in Flows : flow[1] \in IP /\ flow[2] \in IP
    BY EthernetAssumption
  <1>5. /\ ni = [ i \in IP |-> ni[i] ]
        /\ asked \in [Flows -> Nat]
        /\ since \in [Flows -> 0 .. TIMEOUT]
        /\ gap \in [Flows -> {TIMEOUT}]
        /\ outdated \in [Flows -> 0 .. TTL]
        /\ \A flow \in Flows : since[flow] = TIMEOUT
    BY <1>1 DEF Init, TIMEOUT, TTL
  <1> QED BY <1>3, <1>4, <1>5, Zenon DEF IInv

\* Time passing for one interface that ages keeps all in order.
LEMMA ClockedIInv ==
    ASSUME IInv, NEW i \in IP, NEW new, NEW frames, NEW ms \in Nat, Ages(ni[i], new, frames, ms),
           Clocked(i, new, ms), asked' \in [Flows -> Nat],
           outdated' = [ flow \in Flows |-> upto(DEFAULT_ARP_TTL, outdated[flow] + IF flow[1] = i THEN ms ELSE 0) ]
    PROVE  IInv'
  <1>1. TIMEOUT \in Nat \ {0} /\ TTL \in Nat \ {0}
    BY ARPAssumption DEF TIMEOUT, TTL
  <1>2. \A flow \in Flows : flow[1] \in IP /\ flow[2] \in IP
    BY EthernetAssumption
  <1>3. SubSeq(new.frames_out, Len(ni[i].frames_out) + 1, Len(new.frames_out)) = frames
    <2> DEFINE S == FrameOf(ni[i].ethernet_address, ni[i].ip_address)
    <2>1. frames \in Seq(S) /\ ni[i].frames_out \in Seq(S) /\ new.frames_out = ni[i].frames_out \o frames
      BY Zenon DEF IInv, Interface, Ages
    <2> HIDE DEF S
    <2> QED BY <2>1, PushedFrames, Zenon
  <1> DEFINE asks(flow) == flow[1] = i /\ requests(frames, flow[2])
             now(flow) == upto(TIMEOUT, since[flow] + IF flow[1] = i THEN ms ELSE 0)
  <1>4. /\ ni' = [ ni EXCEPT ![i] = new ]
        /\ since' = [ flow \in Flows |-> IF asks(flow) THEN 0 ELSE now(flow) ]
        /\ gap' = [ flow \in Flows |-> IF asks(flow) THEN now(flow) ELSE gap[flow] ]
    BY <1>3, Zenon DEF Clocked, TIMEOUT
  <1>5. /\ ni' = [ k \in IP |-> ni'[k] ]
        /\ ni'[i] = new
        /\ \A k \in IP \ {i} : ni'[k] = ni[k]
    BY <1>4 DEF IInv
  <1>6. /\ \A k \in IP : Interface(ni'[k]) /\ ni'[k].ip_address = k /\ ni'[k].ethernet_address = ni[k].ethernet_address
        /\ \A k, j \in IP : Settled(ni'[k], j)
    BY <1>5, Zenon DEF IInv, Ages
  <1>7. /\ \A flow \in Flows : since[flow] \in 0 .. TIMEOUT /\ gap[flow] = TIMEOUT /\ outdated[flow] \in 0 .. TTL
        /\ \A flow \in Flows : Spaced(ni[flow[1]], flow[2], since[flow])
        /\ \A flow \in Flows : Fresh(ni[flow[1]], flow[2], ni[flow[2]].ethernet_address, outdated[flow])
        /\ \A k \in IP : ni[k].ethernet_address \in MAC
    BY DEF IInv, Interface
  <1>8. \A bound, n \in Nat : upto(bound, n) \in 0 .. bound /\ (n <= bound => upto(bound, n) = n) /\ (n >= bound => upto(bound, n) = bound)
    BY DEF upto
  <1>9. ASSUME NEW flow \in Flows
        PROVE  /\ since'[flow] \in 0 .. TIMEOUT
               /\ gap'[flow] = TIMEOUT
               /\ outdated'[flow] \in 0 .. TTL
               /\ Spaced(ni'[flow[1]], flow[2], since'[flow])
               /\ Fresh(ni'[flow[1]], flow[2], ni'[flow[2]].ethernet_address, outdated'[flow])
    <2> DEFINE k == flow[1]
               j == flow[2]
               s == since[flow]
               o == outdated[flow]
               mac == ni[j].ethernet_address
    <2>1. /\ k \in IP /\ j \in IP /\ s \in 0 .. TIMEOUT /\ o \in 0 .. TTL /\ mac \in MAC
          /\ s \in Nat /\ o \in Nat
          /\ gap[flow] = TIMEOUT
          /\ Spaced(ni[k], j, s)
          /\ Fresh(ni[k], j, mac, o)
          /\ ni'[j].ethernet_address = mac
      BY <1>1, <1>2, <1>6, <1>7
    <2>2. CASE k = i
      <3>1. /\ since'[flow] = IF requests(frames, j) THEN 0 ELSE upto(TIMEOUT, s + ms)
            /\ gap'[flow] = IF requests(frames, j) THEN upto(TIMEOUT, s + ms) ELSE TIMEOUT
            /\ outdated'[flow] = upto(TTL, o + ms)
            /\ ni'[k] = new
        BY <1>4, <1>5, <2>1, <2>2 DEF TTL
      <3>2. /\ IF requests(frames, j) THEN s + ms >= TIMEOUT /\ Spaced(new, j, 0) ELSE Spaced(new, j, upto(TIMEOUT, s + ms))
            /\ Fresh(new, j, mac, upto(TTL, o + ms))
        <4> HIDE DEF k, j, s, o, mac
        <4> QED BY <2>1, <2>2 DEF Ages
      <3>3. /\ upto(TIMEOUT, s + ms) \in 0 .. TIMEOUT
            /\ (s + ms >= TIMEOUT => upto(TIMEOUT, s + ms) = TIMEOUT)
            /\ upto(TTL, o + ms) \in 0 .. TTL
            /\ 0 \in 0 .. TIMEOUT
        <4> HIDE DEF s, o
        <4> QED BY <1>1, <1>8, <2>1
      <3> HIDE DEF s, o, mac
      <3> QED BY <2>1, <3>1, <3>2, <3>3
    <2>3. CASE k # i
      <3>1. /\ since'[flow] = upto(TIMEOUT, s + 0)
            /\ gap'[flow] = TIMEOUT
            /\ outdated'[flow] = upto(TTL, o + 0)
            /\ ni'[k] = ni[k]
        BY <1>4, <1>5, <2>1, <2>3 DEF TTL
      <3>2. upto(TIMEOUT, s + 0) = s /\ upto(TTL, o + 0) = o
        <4> HIDE DEF s, o
        <4>1. s + 0 = s /\ o + 0 = o /\ s <= TIMEOUT /\ o <= TTL
          BY <1>1, <2>1
        <4> QED BY <1>1, <1>8, <2>1, <4>1, Zenon
      <3> HIDE DEF s, o, mac
      <3> QED BY <2>1, <3>1, <3>2
    <2> QED BY <2>2, <2>3
  <1>10. /\ since' \in [Flows -> 0 .. TIMEOUT]
         /\ gap' \in [Flows -> {TIMEOUT}]
         /\ outdated' \in [Flows -> 0 .. TTL]
    BY <1>4, <1>9
  <1> QED BY <1>5, <1>6, <1>9, <1>10 DEF IInv
\* A frame that the link carries, to anyone or no one, whole or damaged, keeps all in order.
LEMMA TransferIInv ==
    ASSUME IInv, NEW i \in IP, NEW R \in SUBSET (IP \ {i}), NEW frame, Transfer(i, R, frame),
           frame = Head(ni[i].frames_out) \/ ~frame.intact
    PROVE  IInv'
  <1> DEFINE mac == ni[i].ethernet_address
  <1>1. \A flow \in Flows : flow[1] \in IP /\ flow[2] \in IP
    BY EthernetAssumption
  <1>2. Interface(ni[i]) /\ ni[i].ip_address = i /\ mac \in MAC /\ \A j \in IP : Settled(ni[i], j)
    BY Zenon DEF IInv, Interface
  <1>3. /\ ni[i].frames_out \in Seq(FrameOf(mac, i))
        /\ ni[i].frames_out # << >>
    BY <1>2 DEF Interface, Transfer
  <1>4. /\ Head(ni[i].frames_out) \in FrameOf(mac, i)
        /\ Tail(ni[i].frames_out) \in Seq(FrameOf(mac, i))
    <2> DEFINE S == FrameOf(mac, i)
               f == ni[i].frames_out
    <2>1. f \in Seq(S) /\ f # << >>
      BY <1>3
    <2> HIDE DEF S, f
    <2>2. Head(f) \in S /\ Tail(f) \in Seq(S)
      BY <2>1
    <2> QED BY <2>2 DEF S, f
  <1> DEFINE x == [ ni[i] EXCEPT !.frames_out = Tail(@) ]
  <1>5. /\ Interface(x) /\ x.ethernet_address = mac /\ x.ip_address = i
        /\ x.ARP_table = ni[i].ARP_table
        /\ x.ARP_pending_ip_addresses = ni[i].ARP_pending_ip_addresses
        /\ x.ARP_pending_datagrams = ni[i].ARP_pending_datagrams
    <2>1. /\ x = [ field \in Fields |-> x[field] ]
          /\ x.ethernet_address = mac /\ x.ip_address = i
          /\ x.frames_out = Tail(ni[i].frames_out)
          /\ x.ARP_table = ni[i].ARP_table
          /\ x.ARP_pending_ip_addresses = ni[i].ARP_pending_ip_addresses
          /\ x.ARP_pending_datagrams = ni[i].ARP_pending_datagrams
      BY <1>2, Zenon DEF Interface, Fields
    <2> HIDE DEF x
    <2> QED BY <1>2, <1>4, <2>1 DEF Interface
  <1>6. /\ ni' = [ k \in IP |-> ni'[k] ]
        /\ ni'[i] = x
        /\ \A k \in R : ni'[k] = recv_frame(ni[k], frame)
        /\ \A k \in IP \ (R \cup {i}) : ni'[k] = ni[k]
        /\ UNCHANGED <<asked, since, gap, outdated>>
    BY DEF Transfer
  <1> HIDE DEF x, mac
  <1>7. ASSUME NEW k \in IP
        PROVE  Learns(ni[k], ni'[k], mac, i)
    <2>1. Interface(ni[k]) /\ \A j \in IP : Settled(ni[k], j)
      BY Zenon DEF IInv
    <2>2. CASE k = i
      BY <1>2, <1>5, <1>6, <2>1, <2>2 DEF Learns, Settled, Spaced, Fresh, mac
    <2>3. CASE k \in R
      BY <1>2, <1>4, <1>6, <2>1, <2>3, RecvLearns
    <2>4. CASE k \notin R \cup {i}
      BY <1>6, <2>1, <2>4 DEF Learns
    <2> QED BY <2>2, <2>3, <2>4
  <1>8. /\ \A k \in IP : Interface(ni'[k]) /\ ni'[k].ip_address = k /\ ni'[k].ethernet_address = ni[k].ethernet_address
        /\ \A k, j \in IP : Settled(ni'[k], j)
    BY <1>7 DEF IInv, Learns
  <1>9. ASSUME NEW flow \in Flows
        PROVE  /\ Spaced(ni'[flow[1]], flow[2], since[flow])
               /\ Fresh(ni'[flow[1]], flow[2], ni[flow[2]].ethernet_address, outdated[flow])
    <2> DEFINE k == flow[1]
               j == flow[2]
               m == ni[j].ethernet_address
    <2>1. /\ k \in IP /\ j \in IP /\ since[flow] \in 0 .. TIMEOUT /\ outdated[flow] \in 0 .. TTL /\ m \in MAC
          /\ Spaced(ni[k], j, since[flow])
          /\ Fresh(ni[k], j, m, outdated[flow])
          /\ j = i => m = mac
      BY <1>1, Zenon DEF IInv, Interface, mac
    <2>2. Learns(ni[k], ni'[k], mac, i)
      BY <1>7, <2>1
    <2> HIDE DEF k, j, m
    <2>3. Spaced(ni'[k], j, since[flow]) /\ Fresh(ni'[k], j, m, outdated[flow])
      BY <2>1, <2>2 DEF Learns
    <2> QED BY <2>3 DEF k, j, m
  <1> QED BY <1>1, <1>6, <1>8, <1>9 DEF IInv

\* A restarted host knows and asks for nothing, and what others know of it grows old from now on.
LEMMA RestartIInv ==
    ASSUME IInv, NEW i \in Restarting, Restart(i)
    PROVE  IInv'
  <1> DEFINE x == NewNetworkInterface(Spare[i], i)
  <1>1. /\ \A flow \in Flows : flow[1] \in IP /\ flow[2] \in IP
        /\ i \in IP /\ Spare[i] \in MAC
    BY EthernetAssumption
  <1>2. TIMEOUT \in Nat \ {0} /\ TTL \in Nat \ {0}
    BY ARPAssumption DEF TIMEOUT, TTL
  <1>3. /\ Interface(x) /\ x.ip_address = i
        /\ \A j \in IP : Settled(x, j) /\ Spaced(x, j, TIMEOUT)
        /\ \A j, m, o : Fresh(x, j, m, o)
    BY <1>1, NewInterface
  <1>4. /\ ni' = [ ni EXCEPT ![i] = x ]
        /\ outdated' = [ flow \in Flows |-> IF flow[2] = i THEN 0 ELSE outdated[flow] ]
        /\ since' = [ flow \in Flows |-> IF flow[1] = i THEN TIMEOUT ELSE since[flow] ]
        /\ UNCHANGED <<asked, gap>>
    BY DEF Restart, TIMEOUT
  <1> HIDE DEF x
  <1>5. /\ ni' = [ k \in IP |-> ni'[k] ]
        /\ ni'[i] = x
        /\ \A k \in IP \ {i} : ni'[k] = ni[k]
    BY <1>1, <1>4 DEF IInv
  <1>6. /\ \A k \in IP : Interface(ni'[k]) /\ ni'[k].ip_address = k
        /\ \A k, j \in IP : Settled(ni'[k], j)
    BY <1>3, <1>5 DEF IInv
  <1>7. /\ asked' \in [Flows -> Nat]
        /\ since' \in [Flows -> 0 .. TIMEOUT]
        /\ gap' \in [Flows -> {TIMEOUT}]
        /\ outdated' \in [Flows -> 0 .. TTL]
    BY <1>2, <1>4 DEF IInv
  <1>8. ASSUME NEW flow \in Flows
        PROVE  Spaced(ni'[flow[1]], flow[2], since'[flow])
    BY <1>1, <1>3, <1>4, <1>5 DEF IInv
  <1>9. ASSUME NEW flow \in Flows
        PROVE  Fresh(ni'[flow[1]], flow[2], ni'[flow[2]].ethernet_address, outdated'[flow])
    <2> DEFINE k == flow[1]
               j == flow[2]
    <2>1. k \in IP /\ j \in IP /\ Fresh(ni[k], j, ni[j].ethernet_address, outdated[flow])
      BY <1>1, Zenon DEF IInv
    <2>2. CASE k = i
      BY <1>3, <1>5, <2>2
    <2>3. CASE k # i /\ j = i
      <3>1. ni'[k] = ni[k] /\ outdated'[flow] = 0 /\ Partial(ni[k].ARP_table, IP, [ mac : MAC, ttl : 1 .. TTL ])
        BY <1>4, <1>5, <2>1, <2>3, Zenon DEF IInv, Interface
      <3>2. j \in DOMAIN ni[k].ARP_table => ni[k].ARP_table[j].ttl + 0 <= TTL
        BY <1>2, <3>1 DEF Partial
      <3> QED BY <3>1, <3>2 DEF Fresh
    <2>4. CASE k # i /\ j # i
      <3>1. ni'[k] = ni[k] /\ ni'[j] = ni[j] /\ outdated'[flow] = outdated[flow]
        BY <1>4, <1>5, <2>1, <2>4
      <3> QED BY <2>1, <3>1
    <2> QED BY <2>2, <2>3, <2>4
  <1> QED BY <1>5, <1>6, <1>7, <1>8, <1>9 DEF IInv

\* The frame that the link carries is the first of an interface, or a damaged one.
LEMMA CarriedFrame ==
    ASSUME NEW i \in IP, Interface(ni[i]), Deliver(i) \/ Lose(i) \/ Damage(i)
    PROVE  \E R \in SUBSET (IP \ {i}) :
             \E frame : Transfer(i, R, frame) /\ (frame = Head(ni[i].frames_out) \/ ~frame.intact)
  <1>1. CASE Deliver(i) \/ Lose(i)
    BY <1>1 DEF Deliver, Lose
  <1>2. CASE Damage(i)
    <2> DEFINE f == Head(ni[i].frames_out)
               g == [ f EXCEPT !.intact = FALSE ]
    <2>1. Transfer(i, IP \ {i}, g)
      BY <1>2 DEF Damage
    <2>2. ~g.intact
      <3> DEFINE S == FrameOf(ni[i].ethernet_address, ni[i].ip_address)
                 q == ni[i].frames_out
      <3>1. q \in Seq(S) /\ q # << >>
        BY <2>1 DEF Interface, Transfer
      <3>2. f \in S
        <4> HIDE DEF S, q
        <4>1. Head(q) \in S
          BY <3>1
        <4> QED BY <4>1 DEF q
      <3> HIDE DEF f
      <3> QED BY <3>2 DEF FrameOf
    <2> HIDE DEF g
    <2> QED BY <2>1, <2>2
  <1> QED BY <1>1, <1>2

\* Every step keeps the interfaces in order.
LEMMA NextIInv == IInv /\ [Next]_vars => IInv'
  <1> SUFFICES ASSUME IInv, [Next]_vars PROVE IInv'
    OBVIOUS
  <1>1. \A i \in IP : Interface(ni[i]) /\ \A j \in IP : Settled(ni[i], j)
    BY DEF IInv
  <1>2. ASSUME NEW flow \in Flows, Send(flow[1], flow[2])
        PROVE  IInv'
    <2> DEFINE i == flow[1]
               j == flow[2]
               d == [ src |-> i, dst |-> j, seq |-> asked[<<i, j>>] + 1 ]
    <2>1. i \in IP /\ j \in IP /\ <<i, j>> = flow /\ asked \in [Flows -> Nat]
      BY EthernetAssumption DEF IInv
    <2>2. d \in Datagram /\ asked' \in [Flows -> Nat]
      BY <1>2, <2>1 DEF Send, Datagram
    <2>3. Clocked(i, send_datagram(ni[i], d, j), 0)
      BY <1>2 DEF Send
    <2>4. \E frames : Ages(ni[i], send_datagram(ni[i], d, j), frames, 0)
      <3> HIDE DEF i, j, d
      <3> QED BY <1>1, <2>1, <2>2, SendAges
    <2>5. outdated' = [ fl \in Flows |-> upto(DEFAULT_ARP_TTL, outdated[fl] + IF fl[1] = i THEN 0 ELSE 0) ]
      <3>1. outdated' = outdated /\ outdated \in [Flows -> 0 .. TTL] /\ TTL \in Nat
        BY <1>2, ARPAssumption DEF Send, IInv, TTL
      <3>2. \A fl \in Flows : upto(TTL, outdated[fl] + IF fl[1] = i THEN 0 ELSE 0) = outdated[fl]
        BY <3>1 DEF upto
      <3> QED BY <3>1, <3>2 DEF TTL
    <2> HIDE DEF i, j, d
    <2> QED BY <2>1, <2>2, <2>3, <2>4, <2>5, ClockedIInv
  <1>3. ASSUME NEW i \in Clocks, NEW ms \in Ticks, Tick(i, ms)
        PROVE  IInv'
    <2> DEFINE late == overdue(ni[i], ms)
    <2>1. i \in IP /\ ms \in Nat
      BY EthernetAssumption
    <2>2. PICK again \in [ 1 .. Cardinality(late) -> late ] :
            /\ \A ip \in late : \E n \in DOMAIN again : again[n] = ip
            /\ Clocked(i, tick(ni[i], ms, again), ms)
      BY <1>3, Zenon DEF Tick
    <2>3. /\ outdated' = [ flow \in Flows |-> upto(DEFAULT_ARP_TTL, outdated[flow] + IF flow[1] = i THEN ms ELSE 0) ]
          /\ asked' \in [Flows -> Nat]
      BY <1>3 DEF Tick, IInv
    <2>4. Cardinality(late) \in Nat
      <3>1. late \subseteq IP
        BY <1>1, <2>1, Zenon DEF overdue, Interface, Partial
      <3> HIDE DEF late
      <3> QED BY <3>1, EthernetAssumption
    <2>5. \E frames : Ages(ni[i], tick(ni[i], ms, again), frames, ms)
      BY <1>1, <2>1, <2>2, <2>4, TickAges
    <2> QED BY <2>1, <2>2, <2>3, <2>5, ClockedIInv, Zenon
  <1>4. ASSUME NEW i \in IP, Deliver(i) \/ Lose(i) \/ Damage(i)
        PROVE  IInv'
    <2>1. PICK R \in SUBSET (IP \ {i}) :
            \E frame : Transfer(i, R, frame) /\ (frame = Head(ni[i].frames_out) \/ ~frame.intact)
      BY <1>1, <1>4, CarriedFrame
    <2> QED BY <2>1, TransferIInv
  <1>5. ASSUME NEW i \in Restarting, Restart(i)
        PROVE  IInv'
    BY <1>5, RestartIInv
  <1>6. CASE UNCHANGED vars
    BY <1>6 DEF vars, IInv
  <1> QED BY <1>2, <1>3, <1>4, <1>5, <1>6 DEF Next

-----------------------------------------------------------------------------
\* The interfaces are in order in every state.
THEOREM SpecIInv == Spec => []IInv
  BY InitIInv, NextIInv, PTL DEF Spec

\* Datagrams wait exactly for the addresses that send_datagram and tick are asking for.
THEOREM SpecCoherent == Spec => []Coherent
  <1>1. IInv => Coherent
    BY Zenon DEF IInv, Coherent, Settled, waiting, is_ip_known
  <1> QED BY <1>1, SpecIInv, PTL

\* However sends, ticks, replies and restarts interleave, an interface that is not restarted leaves a
\* whole timeout between two requests for one address.
THEOREM SpecRequestsSpaced == Spec => []RequestsSpaced
  <1>1. IInv => RequestsSpaced
    BY Zenon DEF IInv, RequestsSpaced, TIMEOUT
  <1> QED BY <1>1, SpecIInv, PTL

\* tick forgets the Ethernet address of a host that is gone before the TTL has passed.
THEOREM SpecStaleBounded == Spec => []StaleBounded
  <1>1. IInv => StaleBounded
    <2> SUFFICES ASSUME IInv, NEW flow \in Flows,
                        is_ip_known(ni[flow[1]], flow[2]),
                        ni[flow[1]].ARP_table[flow[2]].mac # ni[flow[2]].ethernet_address
                 PROVE  outdated[flow] < TTL
      BY DEF StaleBounded, TTL
    <2>1. flow[1] \in IP /\ flow[2] \in IP
      BY EthernetAssumption
    <2>2. /\ ni[flow[1]].ARP_table[flow[2]].ttl + outdated[flow] <= TTL
          /\ outdated[flow] \in 0 .. TTL
          /\ Partial(ni[flow[1]].ARP_table, IP, [ mac : MAC, ttl : 1 .. TTL ])
      BY <2>1, Zenon DEF IInv, Fresh, Interface, is_ip_known
    <2>3. ni[flow[1]].ARP_table[flow[2]].ttl \in 1 .. TTL
      BY <2>2 DEF Partial, is_ip_known
    <2> QED BY <2>2, <2>3, ARPAssumption DEF TTL
  <1> QED BY <1>1, SpecIInv, PTL

-----------------------------------------------------------------------------
\* The Ethernet addresses a host may ever have; no other host has one of them.
Owned(ip) == {FirstMAC[ip]} \cup { Spare[i] : i \in Restarting \cap {ip} }

\* The datagrams of one flow, and the frames of an interface that send its own datagrams to an Ethernet
\* address of the host they are for.
Between(i, j) == [ src : {i}, dst : {j}, seq : Nat ]

Honest(mac, ip) ==
    { f \in FrameOf(mac, ip) : f.type = "IPv4" => f.payload.src = ip /\ f.dst \in Owned(f.payload.dst) }

Truthful(x) ==
    /\ x.ethernet_address \in Owned(x.ip_address)
    /\ \A j \in DOMAIN x.ARP_table : x.ARP_table[j].mac \in Owned(j)
    /\ x.frames_out \in Seq(Honest(x.ethernet_address, x.ip_address))
    /\ \A j \in IP : x.ARP_pending_datagrams[j] \in Seq(Between(x.ip_address, j))

\* frame f carries a datagram to j
To(f, j) == f.type = "IPv4" /\ f.payload.dst = j

\* the datagrams to j in `frames`, or in `waits`, are numbered upwards, after lo and up to hi
Carries(frames, j, lo, hi) ==
    /\ \A n \in 1 .. Len(frames) : To(frames[n], j) => lo < frames[n].payload.seq /\ frames[n].payload.seq <= hi
    /\ \A n, m \in 1 .. Len(frames) :
         n < m /\ To(frames[n], j) /\ To(frames[m], j) => frames[n].payload.seq < frames[m].payload.seq

Waits(waits, lo, hi) ==
    /\ \A n \in 1 .. Len(waits) : lo < waits[n].seq /\ waits[n].seq <= hi
    /\ \A n, m \in 1 .. Len(waits) : n < m => waits[n].seq < waits[m].seq

\* those in the frames of interface x come before those that wait
Flowing(x, j, lo, hi) ==
    \E mid \in lo .. hi : Carries(x.frames_out, j, lo, mid) /\ Waits(x.ARP_pending_datagrams[j], mid, hi)

Asked(i, j) == IF <<i, j>> \in Flows THEN asked[<<i, j>>] ELSE 0

\* what j has got from i is numbered up to lo
Got(i, j, lo) == \A n \in 1 .. Len(got[j]) : got[j][n].src = i => got[j][n].seq <= lo

\* What the interfaces passed up, then what is on its way to the link, then what waits for ARP: each
\* flow is numbered upwards through the three.
Ordered ==
    /\ got \in [IP -> Seq(Datagram)]
    /\ \A i \in IP : Truthful(ni[i])
    /\ \A i, j \in IP : \E lo \in 0 .. Asked(i, j) : Got(i, j, lo) /\ Flowing(ni[i], j, lo, Asked(i, j))
    /\ InOrder

-----------------------------------------------------------------------------
\* Two hosts never have the same Ethernet address, before or after a restart.
LEMMA OwnedApart ==
    /\ \A i \in IP : Owned(i) \subseteq MAC
    /\ \A i, j \in IP : \A mac : mac \in Owned(i) /\ mac \in Owned(j) => i = j
  BY EthernetAssumption DEF Owned

\* The number of a datagram in a frame is a number.
LEMMA SeqType ==
    ASSUME NEW mac, NEW ip, NEW f \in FrameOf(mac, ip), NEW j, To(f, j)
    PROVE  f.payload \in Datagram /\ f.payload.seq \in Nat
  BY Zenon DEF FrameOf, To, Datagram

\* Frames that carry no datagram to j do not matter to it.
LEMMA QuietCarries ==
    ASSUME NEW frames, NEW j, \A n \in 1 .. Len(frames) : ~To(frames[n], j)
    PROVE  \A lo, hi : Carries(frames, j, lo, hi)
  BY DEF Carries

\* Frames numbered after others may be queued behind them.
LEMMA CarriesConcat ==
    ASSUME NEW mac, NEW ip, NEW A \in Seq(FrameOf(mac, ip)), NEW B \in Seq(FrameOf(mac, ip)), NEW j,
           NEW lo \in Nat, NEW mid \in Nat, NEW hi \in Nat, lo <= mid, mid <= hi,
           Carries(A, j, lo, mid), Carries(B, j, mid, hi)
    PROVE  Carries(A \o B, j, lo, hi)
  <1> DEFINE S == FrameOf(mac, ip)
             C == A \o B
             a == Len(A)
             b == Len(B)
             seq(f) == f.payload.seq
  <1>1. a \in Nat /\ b \in Nat /\ (\A n \in 1 .. a : A[n] \in S) /\ (\A n \in 1 .. b : B[n] \in S)
    OBVIOUS
  <1>2. Len(C) = a + b /\ \A n \in 1 .. a + b : C[n] = IF n <= a THEN A[n] ELSE B[n - a]
    <2> HIDE DEF S
    <2> QED BY DEF S
  <1>3. /\ \A n \in 1 .. a : To(A[n], j) => seq(A[n]) \in Nat /\ lo < seq(A[n]) /\ seq(A[n]) <= mid
        /\ \A n, m \in 1 .. a : n < m /\ To(A[n], j) /\ To(A[m], j) => seq(A[n]) < seq(A[m])
    BY <1>1, SeqType DEF Carries
  <1>4. /\ \A n \in 1 .. b : To(B[n], j) => seq(B[n]) \in Nat /\ mid < seq(B[n]) /\ seq(B[n]) <= hi
        /\ \A n, m \in 1 .. b : n < m /\ To(B[n], j) /\ To(B[m], j) => seq(B[n]) < seq(B[m])
    BY <1>1, SeqType DEF Carries
  <1> HIDE DEF C, a, b, seq
  <1>5. ASSUME NEW n \in 1 .. a + b
        PROVE  \/ n \in 1 .. a /\ C[n] = A[n]
               \/ n - a \in 1 .. b /\ n > a /\ C[n] = B[n - a]
    <2>1. CASE n <= a
      BY <1>1, <1>2, <2>1
    <2>2. CASE n > a
      BY <1>1, <1>2, <2>2
    <2> QED BY <1>1, <2>1, <2>2
  <1>6. ASSUME NEW n \in 1 .. a + b, To(C[n], j)
        PROVE  lo < seq(C[n]) /\ seq(C[n]) <= hi
    <2>1. CASE n \in 1 .. a /\ C[n] = A[n]
      BY <1>3, <1>6, <2>1
    <2>2. CASE n - a \in 1 .. b /\ C[n] = B[n - a]
      BY <1>4, <1>6, <2>2
    <2> QED BY <1>5, <2>1, <2>2
  <1>7. ASSUME NEW n \in 1 .. a + b, NEW m \in 1 .. a + b, n < m, To(C[n], j), To(C[m], j)
        PROVE  seq(C[n]) < seq(C[m])
    <2>1. CASE n \in 1 .. a /\ C[n] = A[n] /\ m \in 1 .. a /\ C[m] = A[m]
      BY <1>3, <1>7, <2>1
    <2>2. CASE n \in 1 .. a /\ C[n] = A[n] /\ m - a \in 1 .. b /\ C[m] = B[m - a]
      BY <1>3, <1>4, <1>7, <2>2
    <2>3. CASE n - a \in 1 .. b /\ C[n] = B[n - a] /\ m - a \in 1 .. b /\ C[m] = B[m - a]
      <3>1. n - a < m - a
        BY <1>1, <1>7
      <3> QED BY <1>4, <1>7, <2>3, <3>1
    <2>4. ~(n > a /\ m \in 1 .. a)
      BY <1>1, <1>7
    <2> QED BY <1>5, <2>1, <2>2, <2>3, <2>4
  <1> QED BY <1>2, <1>6, <1>7, Zenon DEF Carries, C, seq

SendShaped(x, y, d, hop) ==
    /\ y.ethernet_address = x.ethernet_address /\ y.ip_address = x.ip_address
    /\ y.ARP_table = x.ARP_table
    /\ is_ip_known(x, hop) =>
         /\ y.frames_out = x.frames_out \o << generate_frame(x, hop, "IPv4", d) >>
         /\ y.ARP_pending_datagrams = x.ARP_pending_datagrams
    /\ ~is_ip_known(x, hop) =>
         /\ \E frames \in {<< >>, << ARP_frame(x, hop, "REQUEST") >>} : y.frames_out = x.frames_out \o frames
         /\ y.ARP_pending_datagrams = [ x.ARP_pending_datagrams EXCEPT ![hop] = Append(@, d) ]

\* What send_datagram leaves in the members: the datagram in a frame, or at the end of those that wait.
LEMMA SendShape ==
    ASSUME NEW x, Interface(x), NEW d, NEW hop \in IP
    PROVE  SendShaped(x, send_datagram(x, d, hop), d, hop)
  <1> DEFINE f == << generate_frame(x, hop, "IPv4", d) >>
             r == << ARP_frame(x, hop, "REQUEST") >>
             more == [ x.ARP_pending_datagrams EXCEPT ![hop] = Append(@, d) ]
             w == [ x EXCEPT !.ARP_pending_datagrams = more ]
             z == [ w EXCEPT !.ARP_pending_ip_addresses = Extend(@, hop, DEFAULT_ARP_TIMEOUT) ]
  <1>1. x = [ field \in Fields |-> x[field] ]
    BY DEF Interface
  <1>2. CASE is_ip_known(x, hop)
    <2>1. send_datagram(x, d, hop) = [ x EXCEPT !.frames_out = @ \o f ]
      BY <1>2 DEF send_datagram, push_frames
    <2> HIDE DEF f
    <2>2. /\ [ x EXCEPT !.frames_out = @ \o f ].frames_out = x.frames_out \o f
          /\ [ x EXCEPT !.frames_out = @ \o f ].ethernet_address = x.ethernet_address
          /\ [ x EXCEPT !.frames_out = @ \o f ].ip_address = x.ip_address
          /\ [ x EXCEPT !.frames_out = @ \o f ].ARP_table = x.ARP_table
          /\ [ x EXCEPT !.frames_out = @ \o f ].ARP_pending_datagrams = x.ARP_pending_datagrams
      BY <1>1 DEF Fields
    <2> QED BY <1>2, <2>1, <2>2 DEF f, SendShaped
  <1>3. CASE ~is_ip_known(x, hop)
    <2>1. w = [ x EXCEPT !.ARP_pending_datagrams[hop] = Append(@, d) ]
      BY <1>1 DEF Fields
    <2>2. \/ send_datagram(x, d, hop) = w
          \/ send_datagram(x, d, hop) = [ z EXCEPT !.frames_out = @ \o r ]
      <3>1. hop \in DOMAIN x.ARP_pending_ip_addresses => send_datagram(x, d, hop) = w
        BY <1>3, <2>1, Zenon DEF send_datagram
      <3>2. hop \notin DOMAIN x.ARP_pending_ip_addresses
              => send_datagram(x, d, hop) = [ z EXCEPT !.frames_out = @ \o r ]
        BY <1>3, <2>1, Zenon DEF send_datagram, push_frames
      <3> QED BY <3>1, <3>2
    <2> HIDE DEF r, more
    <2>3. /\ w.frames_out = x.frames_out /\ w.ethernet_address = x.ethernet_address
          /\ w.ip_address = x.ip_address /\ w.ARP_table = x.ARP_table
          /\ w.ARP_pending_datagrams = more /\ w = [ field \in Fields |-> w[field] ]
      BY <1>1 DEF Fields
    <2>4. w.frames_out = x.frames_out \o << >>
      BY <2>3 DEF Interface
    <2> HIDE DEF w
    <2> DEFINE y == [ z EXCEPT !.frames_out = @ \o r ]
    <2>5. /\ y.frames_out = x.frames_out \o r /\ y.ethernet_address = x.ethernet_address
          /\ y.ip_address = x.ip_address /\ y.ARP_table = x.ARP_table
          /\ y.ARP_pending_datagrams = more
      BY <2>3 DEF Fields
    <2> HIDE DEF y
    <2>6. CASE send_datagram(x, d, hop) = w
      <3>1. \E frames \in {<< >>, r} : w.frames_out = x.frames_out \o frames
        BY <2>4
      <3> QED BY <1>3, <2>3, <2>6, <3>1 DEF more, r, SendShaped
    <2>7. CASE send_datagram(x, d, hop) = y
      <3>1. \E frames \in {<< >>, r} : y.frames_out = x.frames_out \o frames
        BY <2>5
      <3> QED BY <1>3, <2>5, <2>7, <3>1 DEF more, r, SendShaped
    <2> QED BY <2>2, <2>6, <2>7 DEF y
  <1> QED BY <1>2, <1>3

TickShaped(x, y, again) ==
    /\ y.ethernet_address = x.ethernet_address /\ y.ip_address = x.ip_address
    /\ y.frames_out = x.frames_out \o [ n \in DOMAIN again |-> ARP_frame(x, again[n], "REQUEST") ]
    /\ y.ARP_pending_datagrams = x.ARP_pending_datagrams
    /\ DOMAIN y.ARP_table \subseteq DOMAIN x.ARP_table
    /\ \A j \in DOMAIN y.ARP_table : y.ARP_table[j].mac = x.ARP_table[j].mac

\* What tick leaves in the members: more requests, and fewer mappings.
LEMMA TickShape ==
    ASSUME NEW x, Interface(x), NEW ms, NEW again
    PROVE  TickShaped(x, tick(x, ms, again), again)
  <1> DEFINE asking == x.ARP_pending_ip_addresses
             table == x.ARP_table
             left == { ip \in DOMAIN table : table[ip].ttl > ms }
             asking2 == [ ip \in DOMAIN asking |-> IF asking[ip] <= ms THEN DEFAULT_ARP_TIMEOUT ELSE asking[ip] - ms ]
             table2 == [ ip \in left |-> [ mac |-> table[ip].mac, ttl |-> table[ip].ttl - ms ] ]
             frames == [ n \in DOMAIN again |-> ARP_frame(x, again[n], "REQUEST") ]
             z == [ x EXCEPT !.ARP_pending_ip_addresses = asking2, !.ARP_table = table2 ]
             y == [ z EXCEPT !.frames_out = @ \o frames ]
  <1>1. x = [ field \in Fields |-> x[field] ]
    BY DEF Interface
  <1>2. tick(x, ms, again) = y
    BY Zenon DEF tick, push_frames
  <1>3. DOMAIN table2 \subseteq DOMAIN table /\ \A j \in DOMAIN table2 : table2[j].mac = table[j].mac
    OBVIOUS
  <1> HIDE DEF asking2, table2, frames
  <1>4. /\ y.ethernet_address = x.ethernet_address /\ y.ip_address = x.ip_address
        /\ y.frames_out = x.frames_out \o frames
        /\ y.ARP_pending_datagrams = x.ARP_pending_datagrams /\ y.ARP_table = table2
    BY <1>1 DEF Fields
  <1> HIDE DEF y
  <1> QED BY <1>2, <1>3, <1>4 DEF frames, TickShaped

\* The frame that carries d to mac.
Carrier(x, mac, d) == [ type |-> "IPv4", src |-> x.ethernet_address, dst |-> mac, payload |-> d, intact |-> TRUE ]

LearnShaped(x, y, mac, ip) ==
    LET waits == x.ARP_pending_datagrams[ip]
    IN  /\ y.ethernet_address = x.ethernet_address /\ y.ip_address = x.ip_address
        /\ DOMAIN y.ARP_table = DOMAIN x.ARP_table \cup {ip}
        /\ y.ARP_table[ip].mac = mac
        /\ \A j \in DOMAIN x.ARP_table \ {ip} : y.ARP_table[j] = x.ARP_table[j]
        /\ y.ARP_pending_datagrams[ip] = << >>
        /\ \A j \in IP \ {ip} : y.ARP_pending_datagrams[j] = x.ARP_pending_datagrams[j]
        /\ \E reply \in Seq(FrameOf(x.ethernet_address, x.ip_address)) :
             /\ \A n \in 1 .. Len(reply) : reply[n].type = "ARP"
             /\ y.frames_out = x.frames_out \o (reply \o [ n \in 1 .. Len(waits) |-> Carrier(x, mac, waits[n]) ])

\* What learn leaves in the members: the mapping, and every datagram that waited for it in a frame.
LEMMA LearnShape ==
    ASSUME NEW x, Interface(x), NEW mac \in MAC, NEW ip \in IP, NEW message \in MessageOf(mac, ip)
    PROVE  LearnShaped(x, learn(x, message), mac, ip)
  <1> DEFINE table == x.ARP_table
             pending == x.ARP_pending_datagrams
             waits == pending[ip]
             entry == [ mac |-> mac, ttl |-> DEFAULT_ARP_TTL ]
             table2 == Extend(table, ip, entry)
             asking2 == Without(x.ARP_pending_ip_addresses, ip)
             pending2 == [ pending EXCEPT ![ip] = << >> ]
             z == [ x EXCEPT !.ARP_table = table2, !.ARP_pending_ip_addresses = asking2,
                             !.ARP_pending_datagrams = pending2 ]
             z0 == [ x EXCEPT !.ARP_table = Extend(@, ip, entry),
                              !.ARP_pending_ip_addresses = Without(@, ip),
                              !.ARP_pending_datagrams[ip] = << >> ]
             reply == IF message.opcode = "REQUEST" THEN << ARP_frame(z, ip, "REPLY") >> ELSE << >>
             released == [ n \in DOMAIN waits |-> generate_frame(z, ip, "IPv4", waits[n]) ]
             carried == [ n \in 1 .. Len(waits) |-> Carrier(x, mac, waits[n]) ]
             frames == reply \o carried
             y == [ z EXCEPT !.frames_out = @ \o frames ]
             S == FrameOf(x.ethernet_address, x.ip_address)
  <1>1. /\ x = [ field \in Fields |-> x[field] ] /\ pending \in [IP -> Seq(Datagram)]
        /\ x.ethernet_address \in MAC
    BY DEF Interface
  <1>2. message.sender_ip_address = ip /\ message.sender_ethernet_address = mac
    BY DEF MessageOf
  <1>3. z0 = z
    BY <1>1 DEF Fields
  <1>4. learn(x, message) = [ z EXCEPT !.frames_out = @ \o (reply \o released) ]
    <2>1. learn(x, message) = push_frames(z0, (IF message.opcode = "REQUEST" THEN << ARP_frame(z0, ip, "REPLY") >> ELSE << >>)
                                   \o [ n \in DOMAIN waits |-> generate_frame(z0, ip, "IPv4", waits[n]) ])
      BY <1>2 DEF learn
    <2> HIDE DEF z0, z, waits
    <2> QED BY <1>3, <2>1, Zenon DEF push_frames
  <1>5. /\ DOMAIN table2 = DOMAIN table \cup {ip} /\ table2[ip] = entry
        /\ \A j \in DOMAIN table \ {ip} : table2[j] = table[j]
    BY DEF Extend
  <1>6. entry.mac = mac
    OBVIOUS
  <1>7. pending2[ip] = << >> /\ \A j \in IP \ {ip} : pending2[j] = pending[j]
    BY <1>1
  <1> HIDE DEF table2, asking2, pending2, entry
  <1>8. /\ z = [ field \in Fields |-> z[field] ]
        /\ z.ethernet_address = x.ethernet_address /\ z.ip_address = x.ip_address
        /\ z.frames_out = x.frames_out /\ z.ARP_table = table2 /\ z.ARP_pending_datagrams = pending2
    BY <1>1, Zenon DEF Fields
  <1> HIDE DEF z, z0
  <1>9. is_ip_known(z, ip) /\ z.ARP_table[ip].mac = mac
    BY <1>5, <1>6, <1>8 DEF is_ip_known
  <1>10. \A d : generate_frame(z, ip, "IPv4", d) = Carrier(x, mac, d)
    BY <1>8, <1>9, Zenon DEF generate_frame, Carrier
  <1>11. released = carried
    <2>1. waits \in Seq(Datagram)
      BY <1>1
    <2>2. DOMAIN waits = 1 .. Len(waits)
      BY <2>1
    <2> HIDE DEF waits
    <2> QED BY <1>10, <2>2
  <1>12. reply \in Seq(S) /\ \A n \in 1 .. Len(reply) : reply[n].type = "ARP"
    <2> DEFINE f == ARP_frame(z, ip, "REPLY")
    <2>1. generate_ARPMessage(z, ip, "REPLY") \in MessageOf(x.ethernet_address, x.ip_address)
      BY <1>8 DEF generate_ARPMessage, MessageOf
    <2>2. f \in S /\ f.type = "ARP"
      BY <1>8, <1>9, <2>1 DEF ARP_frame, generate_frame, FrameOf
    <2> HIDE DEF f, S
    <2>3. << f >> \in Seq(S) /\ << >> \in Seq(S)
      BY <2>2
    <2>4. Len(<< f >>) = 1 /\ << f >>[1] = f /\ Len(<< >>) = 0
      OBVIOUS
    <2>5. CASE message.opcode = "REQUEST"
      <3>1. reply = << f >>
        BY <2>5 DEF f
      <3> HIDE DEF reply
      <3> QED BY <2>2, <2>3, <2>4, <3>1
    <2>6. CASE message.opcode # "REQUEST"
      <3>1. reply = << >>
        BY <2>6
      <3> HIDE DEF reply
      <3> QED BY <2>3, <2>4, <3>1
    <2> QED BY <2>5, <2>6
  <1> HIDE DEF released, carried, reply
  <1>13. learn(x, message) = y
    BY <1>4, <1>11
  <1> HIDE DEF frames
  <1>14. /\ y.ethernet_address = x.ethernet_address /\ y.ip_address = x.ip_address
         /\ y.frames_out = x.frames_out \o frames /\ y.ARP_table = table2
         /\ y.ARP_pending_datagrams = pending2
    BY <1>8 DEF Fields
  <1> HIDE DEF y
  <1>15. \E r \in Seq(S) : /\ \A n \in 1 .. Len(r) : r[n].type = "ARP"
                           /\ y.frames_out = x.frames_out \o (r \o carried)
    BY <1>12, <1>14, Zenon DEF frames
  <1> QED BY <1>5, <1>6, <1>7, <1>13, <1>14, <1>15, Zenon DEF carried, LearnShaped

\* More frames keep a flow upwards when they are numbered between those queued and those that wait.
LEMMA PushFlowing ==
    ASSUME NEW x, Interface(x), NEW y, NEW F \in Seq(FrameOf(x.ethernet_address, x.ip_address)), NEW j,
           y.frames_out = x.frames_out \o F,
           NEW lo \in Nat, NEW mid \in Nat, NEW up \in Nat, NEW hi \in Nat, lo <= mid, mid <= up, up <= hi,
           Carries(x.frames_out, j, lo, mid), Carries(F, j, mid, up), Waits(y.ARP_pending_datagrams[j], up, hi)
    PROVE  Flowing(y, j, lo, hi)
  <1>1. x.frames_out \in Seq(FrameOf(x.ethernet_address, x.ip_address))
    BY DEF Interface
  <1>2. Carries(y.frames_out, j, lo, up)
    BY <1>1, CarriesConcat
  <1>3. up \in lo .. hi
    OBVIOUS
  <1> QED BY <1>2, <1>3 DEF Flowing

\* More honest frames and waiting datagrams leave the interface truthful.
LEMMA PushTruthful ==
    ASSUME NEW x, Truthful(x), NEW y, NEW F \in Seq(Honest(x.ethernet_address, x.ip_address)),
           y.ethernet_address = x.ethernet_address, y.ip_address = x.ip_address,
           y.frames_out = x.frames_out \o F,
           \A j \in DOMAIN y.ARP_table : y.ARP_table[j].mac \in Owned(j),
           \A j \in IP : y.ARP_pending_datagrams[j] \in Seq(Between(x.ip_address, j))
    PROVE  Truthful(y)
  <1> DEFINE S == Honest(x.ethernet_address, x.ip_address)
  <1>1. x.frames_out \in Seq(S) /\ F \in Seq(S)
    BY DEF Truthful
  <1> HIDE DEF S
  <1>2. x.frames_out \o F \in Seq(S)
    BY <1>1
  <1>3. y.frames_out \in Seq(Honest(y.ethernet_address, y.ip_address))
    BY <1>2 DEF S
  <1> QED BY <1>3 DEF Truthful

\* ARP frames are honest, and quiet for every flow.
LEMMA ARPQuiet ==
    ASSUME NEW mac, NEW ip, NEW F \in Seq(FrameOf(mac, ip)), \A n \in 1 .. Len(F) : F[n].type = "ARP"
    PROVE  F \in Seq(Honest(mac, ip)) /\ \A j : \A n \in 1 .. Len(F) : ~To(F[n], j)
  <1> DEFINE S == FrameOf(mac, ip)
             T == Honest(mac, ip)
  <1>1. Len(F) \in Nat /\ (\A n \in 1 .. Len(F) : F[n] \in S) /\ F = [ n \in 1 .. Len(F) |-> F[n] ]
    <2> HIDE DEF S
    <2>1. F \in Seq(S)
      BY DEF S
    <2> QED BY <2>1
  <1>2. \A n \in 1 .. Len(F) : F[n] \in T
    BY <1>1 DEF Honest
  <1> HIDE DEF T
  <1>3. F \in [1 .. Len(F) -> T]
    BY <1>1, <1>2
  <1>4. F \in Seq(T)
    BY <1>1, <1>3, MappedSeq
  <1> QED BY <1>4 DEF T, To

\* The datagrams that waited for ip, in frames to its Ethernet address, are numbered as they were.
LEMMA ReleasedCarries ==
    ASSUME NEW x, x.ethernet_address \in MAC, x.ip_address \in IP, NEW ip \in IP, NEW mac \in Owned(ip),
           NEW waits \in Seq(Between(x.ip_address, ip))
    PROVE  LET F == [ n \in 1 .. Len(waits) |-> Carrier(x, mac, waits[n]) ]
           IN  /\ F \in Seq(Honest(x.ethernet_address, x.ip_address))
               /\ \A lo, hi : Waits(waits, lo, hi) => Carries(F, ip, lo, hi)
               /\ \A j : j # ip => \A n \in 1 .. Len(F) : ~To(F[n], j)
  <1> DEFINE B == Between(x.ip_address, ip)
             T == Honest(x.ethernet_address, x.ip_address)
             F == [ n \in 1 .. Len(waits) |-> Carrier(x, mac, waits[n]) ]
  <1>1. Len(waits) \in Nat /\ \A n \in 1 .. Len(waits) : waits[n] \in B
    <2> HIDE DEF B
    <2>1. waits \in Seq(B)
      BY DEF B
    <2> QED BY <2>1
  <1>2. mac \in MAC
    BY OwnedApart
  <1>3. ASSUME NEW d \in B
        PROVE  /\ Carrier(x, mac, d) \in T
               /\ Carrier(x, mac, d).type = "IPv4" /\ Carrier(x, mac, d).payload = d /\ d.dst = ip
    <2>1. d \in Datagram /\ d.src = x.ip_address /\ d.dst = ip
      BY DEF Between, Datagram
    <2>2. Carrier(x, mac, d) \in FrameOf(x.ethernet_address, x.ip_address)
      BY <1>2, <2>1 DEF Carrier, FrameOf
    <2> QED BY <2>1, <2>2 DEF Carrier, Honest
  <1> HIDE DEF T, B
  <1>4. F \in [1 .. Len(waits) -> T]
    BY <1>1, <1>3
  <1>5. F \in Seq(T)
    <2> HIDE DEF F
    <2> QED BY <1>1, <1>4, MappedSeq
  <1>6. Len(F) = Len(waits)
    <2>1. DOMAIN F = 1 .. Len(waits)
      OBVIOUS
    <2>2. DOMAIN F = 1 .. Len(F) /\ Len(F) \in Nat
      <3> HIDE DEF F
      <3> QED BY <1>5
    <2> HIDE DEF F
    <2> QED BY <1>1, <2>1, <2>2
  <1>7. \A n \in 1 .. Len(waits) : F[n].type = "IPv4" /\ F[n].payload = waits[n] /\ waits[n].dst = ip
    BY <1>1, <1>3
  <1> HIDE DEF F
  <1>8. \A lo, hi : Waits(waits, lo, hi) => Carries(F, ip, lo, hi)
    BY <1>6, <1>7 DEF Waits, Carries
  <1>9. \A j : j # ip => \A n \in 1 .. Len(F) : ~To(F[n], j)
    BY <1>6, <1>7 DEF To
  <1> QED BY <1>5, <1>8, <1>9, Zenon DEF F, T

\* y is truthful, and keeps every flow that x has upwards.
Keeps(x, y) ==
    /\ Truthful(y)
    /\ \A j \in IP : \A lo, hi \in Nat : Flowing(x, j, lo, hi) => Flowing(y, j, lo, hi)

\* A flow that waits or is on its way, taken apart.
LEMMA FlowingParts ==
    ASSUME NEW x, NEW j, NEW lo \in Nat, NEW hi \in Nat, Flowing(x, j, lo, hi)
    PROVE  \E mid \in Nat : /\ lo <= mid /\ mid <= hi
                            /\ Carries(x.frames_out, j, lo, mid)
                            /\ Waits(x.ARP_pending_datagrams[j], mid, hi)
  <1>1. PICK mid \in lo .. hi : Carries(x.frames_out, j, lo, mid) /\ Waits(x.ARP_pending_datagrams[j], mid, hi)
    BY DEF Flowing
  <1>2. mid \in Nat /\ lo <= mid /\ mid <= hi
    OBVIOUS
  <1> QED BY <1>1, <1>2

\* More ARP frames, and fewer mappings, disturb no flow.
LEMMA QuietKeeps ==
    ASSUME NEW x, Interface(x), Truthful(x), NEW y, NEW F \in Seq(FrameOf(x.ethernet_address, x.ip_address)),
           \A n \in 1 .. Len(F) : F[n].type = "ARP",
           y.ethernet_address = x.ethernet_address, y.ip_address = x.ip_address,
           y.frames_out = x.frames_out \o F, y.ARP_pending_datagrams = x.ARP_pending_datagrams,
           \A j \in DOMAIN y.ARP_table : y.ARP_table[j].mac \in Owned(j)
    PROVE  Keeps(x, y)
  <1>1. F \in Seq(Honest(x.ethernet_address, x.ip_address)) /\ \A j : \A n \in 1 .. Len(F) : ~To(F[n], j)
    BY ARPQuiet, Zenon
  <1>2. \A j \in IP : y.ARP_pending_datagrams[j] \in Seq(Between(x.ip_address, j))
    BY Zenon DEF Truthful
  <1>3. Truthful(y)
    BY <1>1, <1>2, PushTruthful
  <1>4. ASSUME NEW j \in IP, NEW lo \in Nat, NEW hi \in Nat, Flowing(x, j, lo, hi)
        PROVE  Flowing(y, j, lo, hi)
    <2>1. PICK mid \in Nat : /\ lo <= mid /\ mid <= hi
                             /\ Carries(x.frames_out, j, lo, mid)
                             /\ Waits(x.ARP_pending_datagrams[j], mid, hi)
      BY <1>4, FlowingParts, Zenon
    <2>2. Carries(F, j, mid, mid)
      BY <1>1, QuietCarries, Zenon
    <2>3. Waits(y.ARP_pending_datagrams[j], mid, hi) /\ mid <= mid
      BY <2>1
    <2> QED BY <2>1, <2>2, <2>3, PushFlowing, Zenon
  <1> QED BY <1>3, <1>4 DEF Keeps

\* tick disturbs no flow.
LEMMA TickKeeps ==
    ASSUME NEW x, Interface(x), Truthful(x), NEW ms, NEW n \in Nat, NEW again \in [1 .. n -> IP]
    PROVE  Keeps(x, tick(x, ms, again))
  <1> DEFINE y == tick(x, ms, again)
             S == FrameOf(x.ethernet_address, x.ip_address)
             F == [ m \in DOMAIN again |-> ARP_frame(x, again[m], "REQUEST") ]
  <1>0. TickShaped(x, y, again)
    BY TickShape
  <1> HIDE DEF y
  <1>1. /\ y.ethernet_address = x.ethernet_address /\ y.ip_address = x.ip_address
        /\ y.frames_out = x.frames_out \o F
        /\ y.ARP_pending_datagrams = x.ARP_pending_datagrams
        /\ DOMAIN y.ARP_table \subseteq DOMAIN x.ARP_table
        /\ \A j \in DOMAIN y.ARP_table : y.ARP_table[j].mac = x.ARP_table[j].mac
    BY <1>0 DEF TickShaped
  <1>2. \A m \in 1 .. n : F[m] \in S /\ F[m].type = "ARP"
    <2>1. \A ip : ARP_frame(x, ip, "REQUEST").type = "ARP"
      BY DEF ARP_frame, generate_frame
    <2>2. \A ip \in IP : ARP_frame(x, ip, "REQUEST") \in S
      BY FramesOwned
    <2> HIDE DEF S
    <2> QED BY <2>1, <2>2
  <1>3. F \in [1 .. n -> S]
    <2> HIDE DEF S
    <2> QED BY <1>2
  <1>4. F \in Seq(S) /\ Len(F) = n
    <2>1. DOMAIN F = 1 .. n
      OBVIOUS
    <2> HIDE DEF F, S
    <2>2. F \in Seq(S)
      BY <1>3, MappedSeq
    <2>3. DOMAIN F = 1 .. Len(F) /\ Len(F) \in Nat
      BY <2>2
    <2> QED BY <2>1, <2>2, <2>3
  <1>5. \A m \in 1 .. Len(F) : F[m].type = "ARP"
    BY <1>2, <1>4
  <1>6. \A j \in DOMAIN y.ARP_table : y.ARP_table[j].mac \in Owned(j)
    BY <1>1, Zenon DEF Truthful
  <1> HIDE DEF F
  <1>7. Keeps(x, y)
    BY <1>1, <1>4, <1>5, <1>6, QuietKeeps, Zenon
  <1> QED BY <1>7 DEF y

\* Sequences over a set are sequences over a larger one.
LEMMA SeqSubset == \A S, T : S \subseteq T => \A s \in Seq(S) : s \in Seq(T)
  <1> SUFFICES ASSUME NEW S, NEW T, S \subseteq T, NEW s \in Seq(S) PROVE s \in Seq(T)
    OBVIOUS
  <1>1. Len(s) \in Nat /\ (\A n \in 1 .. Len(s) : s[n] \in S) /\ s = [ n \in 1 .. Len(s) |-> s[n] ]
    OBVIOUS
  <1>2. s \in [1 .. Len(s) -> T]
    BY <1>1
  <1> QED BY <1>1, <1>2, MappedSeq

\* learn puts the datagrams that waited behind the frames queued before, and disturbs no other flow.
LEMMA LearnKeeps ==
    ASSUME NEW x, Interface(x), Truthful(x), NEW ip \in IP, NEW mac \in Owned(ip), NEW y,
           LearnShaped(x, y, mac, ip)
    PROVE  Keeps(x, y)
  <1> DEFINE waits == x.ARP_pending_datagrams[ip]
             released == [ n \in 1 .. Len(waits) |-> Carrier(x, mac, waits[n]) ]
             S == FrameOf(x.ethernet_address, x.ip_address)
             T == Honest(x.ethernet_address, x.ip_address)
  <1>1. /\ y.ethernet_address = x.ethernet_address /\ y.ip_address = x.ip_address
        /\ DOMAIN y.ARP_table = DOMAIN x.ARP_table \cup {ip}
        /\ y.ARP_table[ip].mac = mac
        /\ \A j \in DOMAIN x.ARP_table \ {ip} : y.ARP_table[j] = x.ARP_table[j]
        /\ y.ARP_pending_datagrams[ip] = << >>
        /\ \A j \in IP \ {ip} : y.ARP_pending_datagrams[j] = x.ARP_pending_datagrams[j]
    BY DEF LearnShaped
  <1>2. PICK reply \in Seq(S) : /\ \A n \in 1 .. Len(reply) : reply[n].type = "ARP"
                                /\ y.frames_out = x.frames_out \o (reply \o released)
    BY Zenon DEF LearnShaped
  <1>3. waits \in Seq(Between(x.ip_address, ip)) /\ x.ethernet_address \in MAC /\ x.ip_address \in IP
    BY DEF Truthful, Interface
  <1>4. /\ released \in Seq(T)
        /\ \A lo, hi : Waits(waits, lo, hi) => Carries(released, ip, lo, hi)
        /\ \A j : j # ip => \A n \in 1 .. Len(released) : ~To(released[n], j)
    <2> HIDE DEF waits
    <2> QED BY <1>3, ReleasedCarries, Zenon
  <1>5. reply \in Seq(T) /\ \A j : \A n \in 1 .. Len(reply) : ~To(reply[n], j)
    BY <1>2, ARPQuiet, Zenon
  <1> HIDE DEF released
  <1> DEFINE F == reply \o released
  <1>6. F \in Seq(T) /\ F \in Seq(S) /\ released \in Seq(S)
    <2>1. T \subseteq S
      BY DEF Honest
    <2> HIDE DEF S, T
    <2>2. F \in Seq(T)
      BY <1>4, <1>5
    <2> HIDE DEF F
    <2> QED BY <1>4, <2>1, <2>2, SeqSubset
  <1>7. ASSUME NEW j, NEW lo \in Nat, NEW hi \in Nat, lo <= hi, Carries(released, j, lo, hi)
        PROVE  Carries(F, j, lo, hi)
    <2>1. Carries(reply, j, lo, lo)
      BY <1>5, QuietCarries, Zenon
    <2>2. lo <= lo
      OBVIOUS
    <2> QED BY <1>2, <1>6, <1>7, <2>1, <2>2, CarriesConcat
  <1>8. y.frames_out = x.frames_out \o F
    BY <1>2
  <1> HIDE DEF F
  <1>9. \A j \in DOMAIN y.ARP_table : y.ARP_table[j].mac \in Owned(j)
    BY <1>1, Zenon DEF Truthful
  <1>10. \A j \in IP : y.ARP_pending_datagrams[j] \in Seq(Between(x.ip_address, j))
    BY <1>1, NoFrame, Zenon DEF Truthful
  <1>11. Truthful(y)
    BY <1>1, <1>6, <1>8, <1>9, <1>10, PushTruthful
  <1>12. ASSUME NEW j \in IP, NEW lo \in Nat, NEW hi \in Nat, Flowing(x, j, lo, hi)
         PROVE  Flowing(y, j, lo, hi)
    <2>1. PICK mid \in Nat : /\ lo <= mid /\ mid <= hi
                             /\ Carries(x.frames_out, j, lo, mid)
                             /\ Waits(x.ARP_pending_datagrams[j], mid, hi)
      BY <1>12, FlowingParts, Zenon
    <2>2. CASE j = ip
      <3>1. Carries(F, j, mid, hi)
        BY <1>4, <1>7, <2>1, <2>2
      <3>2. Waits(y.ARP_pending_datagrams[j], hi, hi) /\ hi <= hi
        BY <1>1, <2>2 DEF Waits
      <3> QED BY <1>6, <1>8, <2>1, <3>1, <3>2, PushFlowing, Zenon
    <2>3. CASE j # ip
      <3>1. Carries(released, j, mid, mid)
        BY <1>4, <2>3, QuietCarries, Zenon
      <3>2. Carries(F, j, mid, mid) /\ mid <= mid
        BY <1>7, <3>1
      <3>3. Waits(y.ARP_pending_datagrams[j], mid, hi)
        BY <1>1, <2>1, <2>3
      <3> QED BY <1>6, <1>8, <2>1, <3>2, <3>3, PushFlowing, Zenon
    <2> QED BY <2>2, <2>3
  <1> QED BY <1>11, <1>12 DEF Keeps

\* An interface that hears a frame of another, whole or damaged, disturbs no flow.
LEMMA RecvKeeps ==
    ASSUME NEW x, Interface(x), Truthful(x), NEW ip \in IP, NEW mac \in Owned(ip),
           NEW frame, frame \in FrameOf(mac, ip) \/ ~frame.intact
    PROVE  Keeps(x, recv_frame(x, frame))
  <1>1. CASE recv_frame(x, frame) = x
    BY <1>1 DEF Keeps
  <1>2. CASE recv_frame(x, frame) # x
    <2>1. frame.intact /\ frame.type # "IPv4" /\ recv_frame(x, frame) = learn(x, frame.payload)
      BY <1>2 DEF recv_frame
    <2>2. frame.payload \in MessageOf(mac, ip)
      BY <2>1, Zenon DEF FrameOf
    <2>3. mac \in MAC
      BY OwnedApart
    <2>4. LearnShaped(x, learn(x, frame.payload), mac, ip)
      BY <2>2, <2>3, LearnShape
    <2> QED BY <2>1, <2>4, LearnKeeps
  <1> QED BY <1>1, <1>2

\* The next datagram of a flow may wait behind those that wait.
LEMMA WaitsAppend ==
    ASSUME NEW i, NEW j, NEW waits \in Seq(Between(i, j)), NEW d \in Between(i, j),
           NEW mid \in Nat, NEW hi \in Nat, mid <= hi, Waits(waits, mid, hi), d.seq = hi + 1
    PROVE  Append(waits, d) \in Seq(Between(i, j)) /\ Waits(Append(waits, d), mid, hi + 1)
  <1> DEFINE B == Between(i, j)
             k == Len(waits)
             w == Append(waits, d)
  <1>1. \A e \in B : e.seq \in Nat
    BY DEF Between
  <1> HIDE DEF B
  <1>2. waits \in Seq(B) /\ d \in B
    BY DEF B
  <1>3. /\ k \in Nat /\ w \in Seq(B) /\ Len(w) = k + 1 /\ w[k + 1] = d
        /\ \A n \in 1 .. k : w[n] = waits[n] /\ waits[n] \in B
    BY <1>2
  <1>4. \A n \in 1 .. k : waits[n].seq \in Nat
    BY <1>1, <1>3
  <1> HIDE DEF k, w
  <1>5. ASSUME NEW n \in 1 .. k + 1
        PROVE  \/ n \in 1 .. k /\ w[n] = waits[n]
               \/ n = k + 1 /\ w[n] = d
    BY <1>3
  <1>6. /\ \A n \in 1 .. k : mid < waits[n].seq /\ waits[n].seq <= hi
        /\ \A n, m \in 1 .. k : n < m => waits[n].seq < waits[m].seq
    BY DEF Waits, k
  <1>7. ASSUME NEW n \in 1 .. k + 1
        PROVE  mid < w[n].seq /\ w[n].seq <= hi + 1
    <2>1. CASE n \in 1 .. k /\ w[n] = waits[n]
      BY <1>4, <1>6, <2>1
    <2>2. CASE w[n] = d
      BY <2>2
    <2> QED BY <1>5, <2>1, <2>2
  <1>8. ASSUME NEW n \in 1 .. k + 1, NEW m \in 1 .. k + 1, n < m
        PROVE  w[n].seq < w[m].seq
    <2>1. n \in 1 .. k /\ w[n] = waits[n]
      BY <1>3, <1>8
    <2>2. CASE m \in 1 .. k /\ w[m] = waits[m]
      BY <1>6, <1>8, <2>1, <2>2
    <2>3. CASE w[m] = d
      BY <1>4, <1>6, <2>1, <2>3
    <2> QED BY <1>5, <2>2, <2>3
  <1> QED BY <1>3, <1>7, <1>8 DEF Waits, w, B

\* send_datagram puts the next datagram of a flow behind the others, queued or waiting, and disturbs no
\* other flow.
LEMMA SendKeeps ==
    ASSUME NEW x, Interface(x), Truthful(x), NEW hop \in IP, Settled(x, hop),
           NEW d \in Between(x.ip_address, hop), NEW y, SendShaped(x, y, d, hop)
    PROVE  /\ Truthful(y)
           /\ \A j \in IP \ {hop} : \A lo, hi \in Nat : Flowing(x, j, lo, hi) => Flowing(y, j, lo, hi)
           /\ \A lo, hi \in Nat : Flowing(x, hop, lo, hi) /\ d.seq = hi + 1 => Flowing(y, hop, lo, hi + 1)
  <1> DEFINE S == FrameOf(x.ethernet_address, x.ip_address)
             T == Honest(x.ethernet_address, x.ip_address)
             pending == x.ARP_pending_datagrams
  <1>1. /\ y.ethernet_address = x.ethernet_address /\ y.ip_address = x.ip_address
        /\ \A j \in DOMAIN y.ARP_table : y.ARP_table[j].mac \in Owned(j)
    BY DEF SendShaped, Truthful
  <1>2. /\ pending \in [IP -> Seq(Datagram)] /\ x.ethernet_address \in MAC /\ x.ip_address \in IP
        /\ \A j \in IP : pending[j] \in Seq(Between(x.ip_address, j))
    BY Zenon DEF Interface, Truthful
  <1>3. CASE is_ip_known(x, hop)
    <2> DEFINE mac == x.ARP_table[hop].mac
               one == << d >>
               F == [ n \in 1 .. Len(one) |-> Carrier(x, mac, one[n]) ]
    <2>1. mac \in Owned(hop)
      BY <1>3 DEF is_ip_known, Truthful
    <2>2. generate_frame(x, hop, "IPv4", d) = Carrier(x, mac, d)
      BY <1>3 DEF generate_frame, Carrier
    <2> HIDE DEF mac
    <2>3. F = << generate_frame(x, hop, "IPv4", d) >>
      <3> DEFINE c == Carrier(x, mac, d)
      <3>1. Len(one) = 1 /\ one[1] = d
        OBVIOUS
      <3>2. F = [ n \in 1 .. 1 |-> c ]
        BY <3>1
      <3> HIDE DEF c, F
      <3>3. F = << c >>
        BY <3>2
      <3> QED BY <2>2, <3>3 DEF c
    <2>4. one \in Seq(Between(x.ip_address, hop))
      OBVIOUS
    <2>5. Len(one) = 1 /\ one[1] = d
      OBVIOUS
    <2>6. /\ F \in Seq(T)
          /\ \A lo, hi : Waits(one, lo, hi) => Carries(F, hop, lo, hi)
          /\ \A j : j # hop => \A n \in 1 .. Len(F) : ~To(F[n], j)
      <3> HIDE DEF one
      <3> QED BY <1>2, <2>1, <2>4, ReleasedCarries, Zenon
    <2> HIDE DEF one
    <2>7. y.frames_out = x.frames_out \o F /\ y.ARP_pending_datagrams = pending
      BY <1>3, <2>3 DEF SendShaped
    <2> HIDE DEF F
    <2>8. F \in Seq(S)
      <3>1. T \subseteq S
        BY DEF Honest
      <3> HIDE DEF S, T
      <3> QED BY <2>6, <3>1, SeqSubset
    <2>9. Truthful(y)
      BY <1>1, <1>2, <2>6, <2>7, PushTruthful, Zenon
    <2>10. ASSUME NEW j \in IP \ {hop}, NEW lo \in Nat, NEW hi \in Nat, Flowing(x, j, lo, hi)
           PROVE  Flowing(y, j, lo, hi)
      <3>1. PICK mid \in Nat : /\ lo <= mid /\ mid <= hi
                               /\ Carries(x.frames_out, j, lo, mid)
                               /\ Waits(pending[j], mid, hi)
        BY <2>10, FlowingParts, Zenon
      <3>2. Carries(F, j, mid, mid)
        BY <2>6, QuietCarries, Zenon
      <3>3. Waits(y.ARP_pending_datagrams[j], mid, hi) /\ mid <= mid
        BY <2>7, <3>1
      <3> QED BY <2>7, <2>8, <3>1, <3>2, <3>3, PushFlowing, Zenon
    <2>11. ASSUME NEW lo \in Nat, NEW hi \in Nat, Flowing(x, hop, lo, hi), d.seq = hi + 1
           PROVE  Flowing(y, hop, lo, hi + 1)
      <3>1. PICK mid \in Nat : lo <= mid /\ mid <= hi /\ Carries(x.frames_out, hop, lo, mid)
        BY <2>11, FlowingParts, Zenon
      <3>2. Waits(one, mid, hi + 1)
        BY <2>5, <2>11, <3>1 DEF Waits
      <3>3. Carries(F, hop, mid, hi + 1)
        BY <2>6, <3>2
      <3>4. Waits(y.ARP_pending_datagrams[hop], hi + 1, hi + 1)
        BY <1>3, <2>7 DEF Waits, Settled, is_ip_known
      <3>5. hi + 1 \in Nat /\ mid <= hi + 1 /\ hi + 1 <= hi + 1
        BY <3>1
      <3> QED BY <2>7, <2>8, <3>1, <3>3, <3>4, <3>5, PushFlowing, Zenon
    <2> QED BY <2>9, <2>10, <2>11
  <1>4. CASE ~is_ip_known(x, hop)
    <2>1. PICK F \in {<< >>, << ARP_frame(x, hop, "REQUEST") >>} : y.frames_out = x.frames_out \o F
      BY <1>4, Zenon DEF SendShaped
    <2>2. y.ARP_pending_datagrams = [ pending EXCEPT ![hop] = Append(@, d) ]
      BY <1>4 DEF SendShaped
    <2>3. /\ y.ARP_pending_datagrams[hop] = Append(pending[hop], d)
          /\ \A j \in IP \ {hop} : y.ARP_pending_datagrams[j] = pending[j]
      BY <1>2, <2>2
    <2>4. F \in Seq(S) /\ \A n \in 1 .. Len(F) : F[n].type = "ARP"
      <3> DEFINE f == ARP_frame(x, hop, "REQUEST")
      <3>1. f \in S
        BY FramesOwned
      <3>2. f.type = "ARP"
        BY DEF ARP_frame, generate_frame
      <3> HIDE DEF f, S
      <3>3. F = << >> \/ F = << f >>
        BY <2>1 DEF f
      <3>4. CASE F = << >>
        BY <3>4
      <3>5. CASE F = << f >>
        <4>1. << f >> \in Seq(S)
          BY <3>1
        <4>2. Len(<< f >>) = 1 /\ << f >>[1] = f
          OBVIOUS
        <4> QED BY <3>2, <3>5, <4>1, <4>2
      <3> QED BY <3>3, <3>4, <3>5
    <2>5. F \in Seq(T) /\ \A j : \A n \in 1 .. Len(F) : ~To(F[n], j)
      BY <2>4, ARPQuiet
    <2>6. Append(pending[hop], d) \in Seq(Between(x.ip_address, hop))
      <3> DEFINE B == Between(x.ip_address, hop)
      <3>1. pending[hop] \in Seq(B) /\ d \in B
        BY <1>2
      <3> HIDE DEF B
      <3>2. Append(pending[hop], d) \in Seq(B)
        BY <3>1
      <3> QED BY <3>2 DEF B
    <2>7. \A j \in IP : y.ARP_pending_datagrams[j] \in Seq(Between(x.ip_address, j))
      BY <1>2, <2>3, <2>6, Zenon
    <2>8. Truthful(y)
      BY <1>1, <2>1, <2>5, <2>7, PushTruthful
    <2>9. ASSUME NEW j \in IP, NEW lo \in Nat, NEW mid \in Nat, NEW hi \in Nat, lo <= mid, mid <= hi,
                 Carries(x.frames_out, j, lo, mid), Waits(y.ARP_pending_datagrams[j], mid, hi)
          PROVE  Flowing(y, j, lo, hi)
      <3>1. Carries(F, j, mid, mid)
        BY <2>5, QuietCarries, Zenon
      <3>2. mid <= mid
        OBVIOUS
      <3> QED BY <2>1, <2>4, <2>9, <3>1, <3>2, PushFlowing, Zenon
    <2>10. ASSUME NEW j \in IP \ {hop}, NEW lo \in Nat, NEW hi \in Nat, Flowing(x, j, lo, hi)
           PROVE  Flowing(y, j, lo, hi)
      <3>1. PICK mid \in Nat : /\ lo <= mid /\ mid <= hi
                               /\ Carries(x.frames_out, j, lo, mid)
                               /\ Waits(pending[j], mid, hi)
        BY <2>10, FlowingParts, Zenon
      <3> QED BY <2>3, <2>9, <3>1, Zenon
    <2>11. ASSUME NEW lo \in Nat, NEW hi \in Nat, Flowing(x, hop, lo, hi), d.seq = hi + 1
           PROVE  Flowing(y, hop, lo, hi + 1)
      <3>1. PICK mid \in Nat : /\ lo <= mid /\ mid <= hi
                               /\ Carries(x.frames_out, hop, lo, mid)
                               /\ Waits(pending[hop], mid, hi)
        BY <2>11, FlowingParts, Zenon
      <3>2. Waits(Append(pending[hop], d), mid, hi + 1)
        BY <1>2, <2>11, <3>1, WaitsAppend, Zenon
      <3>3. hi + 1 \in Nat /\ mid <= hi + 1
        BY <3>1
      <3> QED BY <2>3, <2>9, <3>1, <3>2, <3>3, Zenon
    <2> QED BY <2>8, <2>10, <2>11
  <1> QED BY <1>3, <1>4

\* The link takes the first frame: the flow it belongs to goes on from there.
LEMMA TailCarries ==
    ASSUME NEW mac, NEW ip, NEW F \in Seq(FrameOf(mac, ip)), F # << >>, NEW j, NEW lo \in Nat, NEW hi \in Nat,
           Carries(F, j, lo, hi)
    PROVE  /\ ~To(Head(F), j) => Carries(Tail(F), j, lo, hi)
           /\ To(Head(F), j) => /\ Head(F).payload.seq \in Nat
                                /\ lo < Head(F).payload.seq /\ Head(F).payload.seq <= hi
                                /\ Carries(Tail(F), j, Head(F).payload.seq, hi)
  <1> DEFINE S == FrameOf(mac, ip)
             G == Tail(F)
             h == Head(F)
             k == Len(F)
             seq(f) == f.payload.seq
  <1>1. k \in Nat /\ k > 0 /\ h = F[1] /\ h \in S /\ Len(G) = k - 1 /\ \A n \in 1 .. k - 1 : G[n] = F[n + 1]
    <2> HIDE DEF S
    <2>1. F \in Seq(S)
      BY DEF S
    <2> QED BY <2>1
  <1>2. /\ \A n \in 1 .. k : To(F[n], j) => lo < seq(F[n]) /\ seq(F[n]) <= hi
        /\ \A n, m \in 1 .. k : n < m /\ To(F[n], j) /\ To(F[m], j) => seq(F[n]) < seq(F[m])
    BY DEF Carries
  <1>3. To(h, j) => seq(h) \in Nat
    BY <1>1, SeqType
  <1> HIDE DEF G, h, k, seq
  <1>4. ASSUME NEW n \in 1 .. k - 1, To(G[n], j)
        PROVE  /\ lo < seq(G[n]) /\ seq(G[n]) <= hi
               /\ To(h, j) => seq(h) < seq(G[n])
    <2>1. n + 1 \in 1 .. k /\ 1 \in 1 .. k /\ 1 < n + 1 /\ G[n] = F[n + 1]
      BY <1>1
    <2> QED BY <1>1, <1>2, <1>4, <2>1
  <1>5. ASSUME NEW n \in 1 .. k - 1, NEW m \in 1 .. k - 1, n < m, To(G[n], j), To(G[m], j)
        PROVE  seq(G[n]) < seq(G[m])
    <2>1. n + 1 \in 1 .. k /\ m + 1 \in 1 .. k /\ n + 1 < m + 1 /\ G[n] = F[n + 1] /\ G[m] = F[m + 1]
      BY <1>1, <1>5
    <2> QED BY <1>2, <1>5, <2>1
  <1>6. To(h, j) => lo < seq(h) /\ seq(h) <= hi
    <2>1. 1 \in 1 .. k
      BY <1>1
    <2> QED BY <1>1, <1>2, <2>1
  <1>7. Carries(G, j, lo, hi)
    BY <1>1, <1>4, <1>5 DEF Carries, seq
  <1>8. To(h, j) => Carries(G, j, seq(h), hi)
    BY <1>1, <1>4, <1>5 DEF Carries, seq
  <1> QED BY <1>3, <1>6, <1>7, <1>8 DEF G, h, seq

\* A frame whose datagram an interface passes up is addressed to the host of the datagram.
LEMMA PassedUp ==
    ASSUME NEW x, Truthful(x), x.ip_address \in IP, NEW ip \in IP, NEW mac,
           NEW f \in Honest(mac, ip), NEW frame, frame = f \/ ~frame.intact
    PROVE  \/ received_datagrams(x, frame) = << >>
           \/ /\ received_datagrams(x, frame) = << f.payload >>
              /\ f.payload \in Datagram /\ f.payload.src = ip /\ To(f, x.ip_address)
  <1> SUFFICES ASSUME received_datagrams(x, frame) # << >>
               PROVE  /\ received_datagrams(x, frame) = << f.payload >>
                      /\ f.payload \in Datagram /\ f.payload.src = ip /\ To(f, x.ip_address)
    OBVIOUS
  <1>1. for_us(x, frame) /\ frame.type = "IPv4" /\ frame.intact /\ received_datagrams(x, frame) = << frame.payload >>
    BY DEF received_datagrams
  <1>2. frame = f /\ f \in FrameOf(mac, ip) /\ f.payload.src = ip /\ f.dst \in Owned(f.payload.dst)
    BY <1>1 DEF Honest
  <1>3. f.payload \in Datagram /\ f.payload.dst \in IP
    BY <1>1, <1>2, Zenon DEF FrameOf, Datagram
  <1>4. f.dst \in MAC /\ f.dst # ETHERNET_BROADCAST
    BY <1>2, <1>3, OwnedApart, ARPAssumption
  <1>5. f.dst = x.ethernet_address
    BY <1>1, <1>2, <1>4 DEF for_us
  <1>6. x.ethernet_address \in Owned(x.ip_address)
    BY DEF Truthful
  <1>7. f.payload.dst = x.ip_address
    BY <1>2, <1>3, <1>5, <1>6, OwnedApart
  <1> QED BY <1>1, <1>2, <1>3, <1>7, Zenon DEF To

\* What got[k] holds after one more datagram.
LEMMA GotMore ==
    ASSUME NEW g \in Seq(Datagram), NEW d \in Datagram
    PROVE  /\ g \o << d >> \in Seq(Datagram)
           /\ Len(g) \in Nat /\ Len(g \o << d >>) = Len(g) + 1
           /\ (g \o << d >>)[Len(g) + 1] = d
           /\ \A n \in 1 .. Len(g) : (g \o << d >>)[n] = g[n]
  <1> HIDE DEF Datagram
  <1>1. << d >> \in Seq(Datagram) /\ Len(<< d >>) = 1 /\ << d >>[1] = d
    OBVIOUS
  <1> DEFINE e == << d >>
  <1> HIDE DEF e
  <1>2. e \in Seq(Datagram) /\ Len(e) = 1 /\ e[1] = d
    BY <1>1 DEF e
  <1>3. /\ g \o e \in Seq(Datagram) /\ Len(g) \in Nat /\ Len(g \o e) = Len(g) + 1
        /\ \A n \in 1 .. Len(g) + 1 : (g \o e)[n] = IF n <= Len(g) THEN g[n] ELSE e[n - Len(g)]
    <2>1. Len(g) \in Nat
      OBVIOUS
    <2>2. /\ g \o e \in Seq(Datagram) /\ Len(g \o e) = Len(g) + Len(e)
          /\ \A n \in 1 .. Len(g) + Len(e) : (g \o e)[n] = IF n <= Len(g) THEN g[n] ELSE e[n - Len(g)]
      BY <1>2, Joined, Zenon
    <2> QED BY <1>2, <2>1, <2>2
  <1>4. (g \o e)[Len(g) + 1] = d
    BY <1>2, <1>3
  <1>5. \A n \in 1 .. Len(g) : (g \o e)[n] = g[n]
    BY <1>3
  <1> QED BY <1>3, <1>4, <1>5 DEF e

\* A new interface at one of its host's addresses is truthful, and nothing flows from it.
LEMMA NewTruthful ==
    ASSUME NEW ip \in IP, NEW mac \in Owned(ip)
    PROVE  LET x == NewNetworkInterface(mac, ip)
           IN  Truthful(x) /\ \A j \in IP : \A lo, hi \in Nat : lo <= hi => Flowing(x, j, lo, hi)
  <1> DEFINE x == NewNetworkInterface(mac, ip)
  <1>1. /\ x.ethernet_address = mac /\ x.ip_address = ip /\ x.frames_out = << >>
        /\ DOMAIN x.ARP_table = {} /\ \A j \in IP : x.ARP_pending_datagrams[j] = << >>
    BY DEF NewNetworkInterface
  <1> HIDE DEF x
  <1>2. Truthful(x)
    BY <1>1, NoFrame, Zenon DEF Truthful
  <1>3. ASSUME NEW j \in IP, NEW lo \in Nat, NEW hi \in Nat, lo <= hi
        PROVE  Flowing(x, j, lo, hi)
    <2>1. Carries(x.frames_out, j, lo, lo) /\ Waits(x.ARP_pending_datagrams[j], lo, hi)
      BY <1>1 DEF Carries, Waits
    <2>2. lo \in lo .. hi
      BY <1>3
    <2> QED BY <2>1, <2>2 DEF Flowing
  <1> QED BY <1>2, <1>3 DEF x

-----------------------------------------------------------------------------
\* Nothing has been sent when the hosts start.
LEMMA InitOrdered == Init => Ordered
  <1> SUFFICES ASSUME Init PROVE Ordered
    OBVIOUS
  <1>1. \A i \in IP : FirstMAC[i] \in MAC /\ FirstMAC[i] \in Owned(i) /\ ni[i] = NewNetworkInterface(FirstMAC[i], i)
    BY EthernetAssumption, Zenon DEF Init, Owned
  <1>2. ASSUME NEW i \in IP
        PROVE  Truthful(ni[i]) /\ \A j \in IP : Flowing(ni[i], j, 0, 0)
    BY <1>1, NewTruthful
  <1>3. \A i, j \in IP : Asked(i, j) = 0 /\ Got(i, j, 0)
    BY DEF Init, Asked, Got
  <1>4. got \in [IP -> Seq(Datagram)]
    BY DEF Init
  <1>5. \A i, j \in IP : \E lo \in 0 .. Asked(i, j) : Got(i, j, lo) /\ Flowing(ni[i], j, lo, Asked(i, j))
    BY <1>2, <1>3
  <1>6. InOrder
    BY DEF Init, InOrder
  <1> QED BY <1>2, <1>4, <1>5, <1>6 DEF Ordered

\* A datagram that is sent becomes the last of its flow.
LEMMA SendOrdered ==
    ASSUME IInv, Ordered, NEW i \in IP, NEW j \in IP, <<i, j>> \in Flows, Send(i, j)
    PROVE  Ordered'
  <1> DEFINE d == [ src |-> i, dst |-> j, seq |-> asked[<<i, j>>] + 1 ]
             y == send_datagram(ni[i], d, j)
  <1>1. /\ Interface(ni[i]) /\ ni[i].ip_address = i /\ Truthful(ni[i]) /\ Settled(ni[i], j)
        /\ asked \in [Flows -> Nat] /\ ni = [ k \in IP |-> ni[k] ]
    BY Zenon DEF IInv, Ordered
  <1>2. d \in Between(i, j) /\ d.seq = asked[<<i, j>>] + 1
    BY <1>1 DEF Between
  <1>3. ni' = [ ni EXCEPT ![i] = y ] /\ asked' = [ asked EXCEPT ![<<i, j>>] = @ + 1 ] /\ got' = got
    BY DEF Send, Clocked
  <1>4. SendShaped(ni[i], y, d, j)
    BY <1>1, SendShape
  <1> HIDE DEF d, y
  <1>5. /\ Truthful(y)
        /\ \A k \in IP \ {j} : \A lo, hi \in Nat : Flowing(ni[i], k, lo, hi) => Flowing(y, k, lo, hi)
        /\ \A lo, hi \in Nat : Flowing(ni[i], j, lo, hi) /\ d.seq = hi + 1 => Flowing(y, j, lo, hi + 1)
    BY <1>1, <1>2, <1>4, SendKeeps
  <1>6. ni'[i] = y /\ \A k \in IP \ {i} : ni'[k] = ni[k]
    BY <1>1, <1>3
  <1>7. ASSUME NEW a \in IP, NEW b \in IP
        PROVE  \E lo \in 0 .. Asked(a, b)' : Got(a, b, lo)' /\ Flowing(ni'[a], b, lo, Asked(a, b)')
    <2> DEFINE hi == Asked(a, b)
    <2>1. PICK lo \in 0 .. hi : Got(a, b, lo) /\ Flowing(ni[a], b, lo, hi)
      BY DEF Ordered
    <2>2. hi \in Nat
      BY <1>1 DEF Asked
    <2>3. Got(a, b, lo)'
      BY <1>3, <2>1 DEF Got
    <2>4. CASE a = i /\ b = j
      <3>1. hi = asked[<<i, j>>] /\ Asked(a, b)' = hi + 1
        BY <1>1, <1>3, <2>4 DEF Asked
      <3> HIDE DEF hi
      <3>2. lo \in Nat /\ lo \in 0 .. hi + 1
        BY <2>2
      <3>3. Flowing(ni'[a], b, lo, hi + 1)
        BY <1>2, <1>5, <1>6, <2>1, <2>2, <2>4, <3>1, <3>2, Zenon
      <3> QED BY <2>3, <3>1, <3>2, <3>3
    <2>5. CASE a # i \/ b # j
      <3>1. Asked(a, b)' = hi
        <4>1. <<a, b>> # <<i, j>>
          BY <2>5
        <4> QED BY <1>1, <1>3, <4>1 DEF Asked
      <3> HIDE DEF hi
      <3>2. lo \in Nat
        BY <2>2
      <3>3. Flowing(ni'[a], b, lo, hi)
        <4>1. CASE a # i
          BY <1>6, <2>1, <4>1
        <4>2. CASE a = i /\ b # j
          BY <1>5, <1>6, <2>1, <2>2, <3>2, <4>2
        <4> QED BY <2>5, <4>1, <4>2
      <3> QED BY <2>3, <3>1, <3>3
    <2> QED BY <2>4, <2>5
  <1>8. \A k \in IP : Truthful(ni'[k])
    BY <1>5, <1>6, Zenon DEF Ordered
  <1>9. InOrder' /\ got' \in [IP -> Seq(Datagram)]
    BY <1>3, Zenon DEF Ordered, InOrder
  <1> QED BY <1>7, <1>8, <1>9, Zenon DEF Ordered

\* Interfaces that keep the flows, with nothing sent or passed up, leave all in order.
LEMMA KeptOrdered ==
    ASSUME IInv, Ordered, UNCHANGED <<asked, got>>, \A k \in IP : ni'[k] = ni[k] \/ Keeps(ni[k], ni'[k])
    PROVE  Ordered'
  <1>1. asked \in [Flows -> Nat]
    BY DEF IInv
  <1>2. ASSUME NEW a \in IP, NEW b \in IP
        PROVE  \E lo \in 0 .. Asked(a, b)' : Got(a, b, lo)' /\ Flowing(ni'[a], b, lo, Asked(a, b)')
    <2> DEFINE hi == Asked(a, b)
    <2>1. PICK lo \in 0 .. hi : Got(a, b, lo) /\ Flowing(ni[a], b, lo, hi)
      BY DEF Ordered
    <2>2. hi \in Nat /\ Asked(a, b)' = hi
      BY <1>1 DEF Asked
    <2>3. Got(a, b, lo)'
      BY <2>1 DEF Got
    <2> HIDE DEF hi
    <2>4. Flowing(ni'[a], b, lo, hi)
      BY <2>1, <2>2 DEF Keeps
    <2> QED BY <2>2, <2>3, <2>4
  <1>3. \A k \in IP : Truthful(ni'[k])
    BY DEF Ordered, Keeps
  <1>4. InOrder' /\ got' \in [IP -> Seq(Datagram)]
    BY Zenon DEF Ordered, InOrder
  <1> QED BY <1>2, <1>3, <1>4, Zenon DEF Ordered

\* The first frame of interface i leaves its queue, and interfaces pass up its datagram or nothing.
Carried(i, mac, q, h) ==
    /\ q \in Seq(FrameOf(mac, i)) /\ q # << >> /\ q = ni[i].frames_out /\ h = Head(q)
    /\ asked' = asked /\ got' = [ k \in IP |-> got'[k] ]
    /\ ni'[i].frames_out = Tail(q) /\ ni'[i].ARP_pending_datagrams = ni[i].ARP_pending_datagrams
    /\ Truthful(ni'[i])
    /\ \A k \in IP \ {i} : ni'[k] = ni[k] \/ Keeps(ni[k], ni'[k])
    /\ \A k \in IP : \/ got'[k] = got[k]
                     \/ /\ got'[k] = got[k] \o << h.payload >>
                        /\ h.payload \in Datagram /\ h.payload.src = i /\ To(h, k)

\* The datagrams on their way move up: the one passed up comes after those passed up before.
LEMMA CarriedOrdered ==
    ASSUME IInv, Ordered, NEW i \in IP, NEW mac, NEW q, NEW h, Carried(i, mac, q, h)
    PROVE  Ordered'
  <1> DEFINE d == h.payload
             s == h.payload.seq
  <1>1. asked \in [Flows -> Nat] /\ got \in [IP -> Seq(Datagram)]
    BY Zenon DEF IInv, Ordered
  <1>2. ASSUME NEW k \in IP
        PROVE  \/ got'[k] = got[k]
               \/ /\ got'[k] = got[k] \o << d >>
                  /\ d \in Datagram /\ d.src = i /\ To(h, k)
    BY DEF Carried
  <1>3. ASSUME NEW b \in IP
        PROVE  \E lo \in Nat : \E mid \in Nat :
                 /\ lo <= mid /\ mid <= Asked(i, b)
                 /\ Got(i, b, lo)
                 /\ Carries(q, b, lo, mid) /\ Waits(ni[i].ARP_pending_datagrams[b], mid, Asked(i, b))
    <2>1. PICK lo \in 0 .. Asked(i, b) : Got(i, b, lo) /\ Flowing(ni[i], b, lo, Asked(i, b))
      BY DEF Ordered
    <2>2. Asked(i, b) \in Nat
      BY <1>1 DEF Asked
    <2>3. lo \in Nat
      BY <2>2
    <2>4. PICK mid \in Nat : /\ lo <= mid /\ mid <= Asked(i, b)
                             /\ Carries(ni[i].frames_out, b, lo, mid)
                             /\ Waits(ni[i].ARP_pending_datagrams[b], mid, Asked(i, b))
      BY <2>1, <2>2, <2>3, FlowingParts, Zenon
    <2>5. q = ni[i].frames_out
      BY DEF Carried
    <2> QED BY <2>1, <2>3, <2>4, <2>5, Zenon
  <1>4. \A k \in IP : got[k] \in Seq(Datagram) /\ Len(got[k]) \in Nat
    BY <1>1
  <1>5. ASSUME NEW k \in IP, got'[k] = got[k] \o << d >>, d \in Datagram
        PROVE  /\ got'[k] \in Seq(Datagram) /\ Len(got'[k]) = Len(got[k]) + 1
               /\ got'[k][Len(got[k]) + 1] = d
               /\ \A n \in 1 .. Len(got[k]) : got'[k][n] = got[k][n]
    BY <1>4, <1>5, GotMore
  <1>6. ASSUME NEW k \in IP, NEW n \in 1 .. Len(got[k])
        PROVE  got[k][n] \in Datagram /\ got[k][n].seq \in Nat
    <2>1. got[k][n] \in Datagram
      <3> HIDE DEF Datagram
      <3> QED BY <1>4
    <2> QED BY <2>1 DEF Datagram
  <1>7. ASSUME NEW a \in IP \ {i}, NEW b \in IP
        PROVE  \E lo \in 0 .. Asked(a, b)' : Got(a, b, lo)' /\ Flowing(ni'[a], b, lo, Asked(a, b)')
    <2> DEFINE hi == Asked(a, b)
    <2>1. PICK lo \in 0 .. hi : Got(a, b, lo) /\ Flowing(ni[a], b, lo, hi)
      BY DEF Ordered
    <2>2. hi \in Nat /\ Asked(a, b)' = hi
      BY <1>1 DEF Asked, Carried
    <2> HIDE DEF hi
    <2>3. Flowing(ni'[a], b, lo, hi)
      BY <2>1, <2>2 DEF Keeps, Carried
    <2>4. Got(a, b, lo)'
      <3>1. CASE got'[b] = got[b]
        BY <2>1, <3>1, Zenon DEF Got
      <3>2. CASE got'[b] = got[b] \o << d >> /\ d \in Datagram /\ d.src = i
        <4>1. ASSUME NEW n \in 1 .. Len(got'[b]), got'[b][n].src = a
              PROVE  got'[b][n].seq <= lo
          <5>1. n \in 1 .. Len(got[b]) \/ n = Len(got[b]) + 1
            BY <1>4, <1>5, <3>2
          <5>2. n \in 1 .. Len(got[b])
            BY <1>5, <3>2, <4>1, <5>1
          <5> QED BY <1>5, <2>1, <3>2, <4>1, <5>2 DEF Got
        <4> QED BY <4>1 DEF Got
      <3> QED BY <1>2, <3>1, <3>2
    <2> QED BY <2>2, <2>3, <2>4
  <1>8. ASSUME NEW b \in IP
        PROVE  \E lo \in 0 .. Asked(i, b)' : Got(i, b, lo)' /\ Flowing(ni'[i], b, lo, Asked(i, b)')
    <2> DEFINE hi == Asked(i, b)
    <2>1. PICK lo \in Nat, mid \in Nat :
            /\ lo <= mid /\ mid <= hi
            /\ Got(i, b, lo)
            /\ Carries(q, b, lo, mid) /\ Waits(ni[i].ARP_pending_datagrams[b], mid, hi)
      BY <1>3
    <2>2. hi \in Nat /\ Asked(i, b)' = hi
      BY <1>1 DEF Asked, Carried
    <2> HIDE DEF hi
    <2>3. /\ ~To(h, b) => Carries(Tail(q), b, lo, mid)
          /\ To(h, b) => s \in Nat /\ lo < s /\ s <= mid /\ Carries(Tail(q), b, s, mid)
      BY <2>1, TailCarries DEF Carried
    <2>4. ASSUME NEW l \in Nat, l <= mid, Carries(Tail(q), b, l, mid)
          PROVE  Flowing(ni'[i], b, l, hi) /\ l \in 0 .. hi
      <3>1. mid \in l .. hi /\ l \in 0 .. hi
        BY <2>1, <2>2, <2>4
      <3>2. Carries(ni'[i].frames_out, b, l, mid) /\ Waits(ni'[i].ARP_pending_datagrams[b], mid, hi)
        BY <2>1, <2>4 DEF Carried
      <3> QED BY <3>1, <3>2 DEF Flowing
    <2>5. CASE ~To(h, b)
      <3>1. Flowing(ni'[i], b, lo, hi) /\ lo \in 0 .. hi
        BY <2>1, <2>3, <2>4, <2>5
      <3>2. Got(i, b, lo)'
        BY <1>2, <2>1, <2>5 DEF Got
      <3> QED BY <2>2, <3>1, <3>2
    <2>6. CASE To(h, b)
      <3>1. s \in Nat /\ lo < s
        BY <2>3, <2>6
      <3>2. Flowing(ni'[i], b, s, hi) /\ s \in 0 .. hi
        BY <2>3, <2>4, <2>6, Zenon
      <3>3. ASSUME NEW n \in 1 .. Len(got[b]), got[b][n].src = i
            PROVE  got[b][n].seq <= s
        <4>1. got[b][n].seq <= lo /\ got[b][n].seq \in Nat
          BY <1>6, <2>1, <3>3 DEF Got
        <4> QED BY <3>1, <4>1
      <3>4. Got(i, b, s)'
        <4>1. CASE got'[b] = got[b]
          BY <3>3, <4>1 DEF Got
        <4>2. CASE got'[b] = got[b] \o << d >> /\ d \in Datagram
          <5>1. ASSUME NEW n \in 1 .. Len(got'[b]), got'[b][n].src = i
                PROVE  got'[b][n].seq <= s
            <6>1. n \in 1 .. Len(got[b]) \/ n = Len(got[b]) + 1
              BY <1>4, <1>5, <4>2
            <6>2. CASE n \in 1 .. Len(got[b])
              <7>1. got'[b][n] = got[b][n]
                BY <1>5, <4>2, <6>2
              <7> QED BY <3>3, <5>1, <6>2, <7>1, Zenon
            <6>3. CASE n = Len(got[b]) + 1
              <7>1. got'[b][n] = d
                BY <1>5, <4>2, <6>3
              <7>2. s <= s
                BY <3>1
              <7> QED BY <7>1, <7>2
            <6> QED BY <6>1, <6>2, <6>3
          <5>2. Got(i, b, s)' <=> \A n \in 1 .. Len(got'[b]) : got'[b][n].src = i => got'[b][n].seq <= s'
            BY DEF Got
          <5> QED BY <5>1, <5>2
        <4> QED BY <1>2, <4>1, <4>2, Zenon
      <3> QED BY <2>2, <3>2, <3>4
    <2> QED BY <2>5, <2>6
  <1>9. ASSUME NEW b \in IP, NEW n \in DOMAIN got'[b], NEW m \in DOMAIN got'[b]
        PROVE  /\ got'[b][n].dst = b
               /\ n < m /\ got'[b][n].src = got'[b][m].src => got'[b][n].seq < got'[b][m].seq
    <2>1. /\ \A u \in DOMAIN got[b] : got[b][u].dst = b
          /\ \A u, v \in DOMAIN got[b] : u < v /\ got[b][u].src = got[b][v].src => got[b][u].seq < got[b][v].seq
      BY Zenon DEF Ordered, InOrder
    <2>2. CASE got'[b] = got[b]
      BY <2>1, <2>2
    <2>3. CASE got'[b] = got[b] \o << d >> /\ d \in Datagram /\ d.src = i /\ To(h, b)
      <3> DEFINE l == Len(got[b])
      <3>1. l \in Nat /\ DOMAIN got[b] = 1 .. l /\ DOMAIN got'[b] = 1 .. l + 1
        <4>1. got[b] \in Seq(Datagram) /\ got'[b] \in Seq(Datagram) /\ Len(got'[b]) = l + 1
          BY <1>4, <1>5, <2>3
        <4> HIDE DEF Datagram
        <4> QED BY <4>1
      <3>2. got'[b][l + 1] = d /\ \A u \in 1 .. l : got'[b][u] = got[b][u]
        BY <1>5, <2>3
      <3> HIDE DEF l
      <3>3. d.dst = b
        BY <2>3 DEF To
      <3>4. ASSUME NEW u \in 1 .. l, got[b][u].src = i
            PROVE  got[b][u].seq < d.seq
        <4>1. PICK lo \in Nat, mid \in Nat : Got(i, b, lo) /\ Carries(q, b, lo, mid)
          BY <1>3
        <4>2. lo < s /\ s \in Nat
          BY <2>3, <4>1, TailCarries, Zenon DEF Carried
        <4>3. got[b][u].seq <= lo /\ got[b][u].seq \in Nat
          BY <1>6, <3>4, <4>1 DEF Got, l
        <4> QED BY <4>2, <4>3
      <3>5. n \in 1 .. l \/ n = l + 1
        BY <3>1
      <3>6. m \in 1 .. l \/ m = l + 1
        BY <3>1
      <3>7. got'[b][n].dst = b
        BY <2>1, <3>1, <3>2, <3>3, <3>5
      <3>8. ASSUME n < m, got'[b][n].src = got'[b][m].src
            PROVE  got'[b][n].seq < got'[b][m].seq
        <4>1. n \in 1 .. l
          BY <3>1, <3>5, <3>6, <3>8
        <4>2. CASE m \in 1 .. l
          BY <2>1, <3>1, <3>2, <3>8, <4>1, <4>2
        <4>3. CASE m = l + 1
          BY <2>3, <3>2, <3>4, <3>8, <4>1, <4>3, Zenon
        <4> QED BY <3>6, <4>2, <4>3, Zenon
      <3> QED BY <3>7, <3>8
    <2> QED BY <1>2, <2>2, <2>3, Zenon
  <1>10. InOrder'
    BY <1>9 DEF InOrder
  <1>11. got' \in [IP -> Seq(Datagram)]
    <2>1. \A k \in IP : got'[k] \in Seq(Datagram)
      BY <1>2, <1>4, <1>5
    <2>2. got' = [ k \in IP |-> got'[k] ]
      BY DEF Carried
    <2> QED BY <2>1, <2>2
  <1>12. \A k \in IP : Truthful(ni'[k])
    BY Zenon DEF Carried, Keeps, Ordered
  <1>13. \A a, b \in IP : \E lo \in 0 .. Asked(a, b)' : Got(a, b, lo)' /\ Flowing(ni'[a], b, lo, Asked(a, b)')
    BY <1>7, <1>8
  <1> QED BY <1>10, <1>11, <1>12, <1>13, Zenon DEF Ordered

\* A frame that the link carries, to anyone or no one, whole or damaged, is passed up after all that was
\* passed up from its sender before.
LEMMA TransferOrdered ==
    ASSUME IInv, Ordered, NEW i \in IP, NEW R \in SUBSET (IP \ {i}), NEW frame, Transfer(i, R, frame),
           frame = Head(ni[i].frames_out) \/ ~frame.intact
    PROVE  Ordered'
  <1> DEFINE mac == ni[i].ethernet_address
             q == ni[i].frames_out
             h == Head(q)
             s == h.payload.seq
             x == [ ni[i] EXCEPT !.frames_out = Tail(@) ]
  <1>1. /\ Interface(ni[i]) /\ ni[i].ip_address = i /\ Truthful(ni[i]) /\ mac \in Owned(i)
        /\ asked \in [Flows -> Nat] /\ got \in [IP -> Seq(Datagram)]
    BY Zenon DEF IInv, Ordered, Truthful
  <1>2. q \in Seq(FrameOf(mac, i)) /\ q \in Seq(Honest(mac, i)) /\ q # << >>
    BY <1>1 DEF Interface, Truthful, Transfer
  <1>3. h \in Honest(mac, i) /\ h \in FrameOf(mac, i) /\ Tail(q) \in Seq(Honest(mac, i))
    <2> DEFINE T == Honest(mac, i)
    <2>1. q \in Seq(T) /\ q # << >>
      BY <1>2
    <2> HIDE DEF T, q
    <2>2. h \in T /\ Tail(q) \in Seq(T)
      BY <2>1
    <2> QED BY <2>2, Zenon DEF T, Honest
  <1>4. /\ x.ethernet_address = mac /\ x.ip_address = i /\ x.frames_out = Tail(q)
        /\ x.ARP_table = ni[i].ARP_table /\ x.ARP_pending_datagrams = ni[i].ARP_pending_datagrams
    BY <1>1 DEF Interface, Fields
  <1>5. /\ ni'[i] = x
        /\ \A k \in R : ni'[k] = recv_frame(ni[k], frame)
        /\ \A k \in IP \ (R \cup {i}) : ni'[k] = ni[k]
        /\ asked' = asked /\ got' = [ k \in IP |-> got'[k] ]
        /\ \A k \in R : got'[k] = got[k] \o received_datagrams(ni[k], frame)
        /\ \A k \in IP \ R : got'[k] = got[k]
    BY Zenon DEF Transfer
  <1>6. frame = h \/ ~frame.intact
    OBVIOUS
  <1> HIDE DEF x
  <1>7. Truthful(x)
    BY <1>1, <1>3, <1>4, Zenon DEF Truthful
  <1> HIDE DEF h, q, mac
  <1>8. ASSUME NEW k \in IP \ {i}
        PROVE  ni'[k] = ni[k] \/ Keeps(ni[k], ni'[k])
    <2>1. Interface(ni[k]) /\ Truthful(ni[k])
      BY Zenon DEF IInv, Ordered
    <2>2. CASE k \in R
      BY <1>1, <1>3, <1>5, <1>6, <2>1, <2>2, RecvKeeps
    <2>3. CASE k \notin R
      BY <1>5, <2>3
    <2> QED BY <2>2, <2>3
  <1>9. ASSUME NEW k \in IP
        PROVE  \/ got'[k] = got[k]
               \/ /\ got'[k] = got[k] \o << h.payload >>
                  /\ h.payload \in Datagram /\ h.payload.src = i /\ To(h, k)
    <2>1. Truthful(ni[k]) /\ ni[k].ip_address = k /\ got[k] \in Seq(Datagram)
      BY <1>1, Zenon DEF IInv, Ordered
    <2>2. CASE k \in R
      <3> DEFINE passed == received_datagrams(ni[k], frame)
      <3>1. \/ passed = << >>
            \/ /\ passed = << h.payload >>
               /\ h.payload \in Datagram /\ h.payload.src = i /\ To(h, k)
        <4>1. \/ passed = << >>
              \/ /\ passed = << h.payload >>
                 /\ h.payload \in Datagram /\ h.payload.src = i /\ To(h, ni[k].ip_address)
          BY <1>3, <1>6, <2>1, PassedUp, Zenon
        <4> HIDE DEF passed
        <4> QED BY <2>1, <4>1, Zenon
      <3>2. got'[k] = got[k] \o passed
        BY <1>5, <2>2, Zenon
      <3>3. got[k] \o << >> = got[k]
        BY <2>1, NothingAdded, Zenon
      <3> HIDE DEF passed
      <3> QED BY <3>1, <3>2, <3>3, Zenon
    <2>3. CASE k \notin R
      BY <1>5, <2>3
    <2> QED BY <2>2, <2>3, Zenon
  <1>10. Carried(i, mac, q, h)
    BY <1>2, <1>4, <1>5, <1>7, <1>8, <1>9 DEF Carried, q, h
  <1> QED BY <1>10, CarriedOrdered

\* Every step keeps the flows in order.
LEMMA NextOrdered == IInv /\ Ordered /\ [Next]_vars => Ordered'
  <1> SUFFICES ASSUME IInv, Ordered, [Next]_vars PROVE Ordered'
    OBVIOUS
  <1>1. \A i \in IP : Interface(ni[i]) /\ Truthful(ni[i]) /\ ni[i].ip_address = i
    BY DEF IInv, Ordered
  <1>2. ni = [ i \in IP |-> ni[i] ]
    BY DEF IInv
  <1>3. ASSUME NEW flow \in Flows, Send(flow[1], flow[2])
        PROVE  Ordered'
    <2>1. flow[1] \in IP /\ flow[2] \in IP /\ <<flow[1], flow[2]>> \in Flows
      BY EthernetAssumption
    <2> QED BY <1>3, <2>1, SendOrdered
  <1>4. ASSUME NEW i \in Clocks, NEW ms \in Ticks, Tick(i, ms)
        PROVE  Ordered'
    <2> DEFINE late == overdue(ni[i], ms)
    <2>1. i \in IP
      BY EthernetAssumption
    <2>2. PICK again \in [ 1 .. Cardinality(late) -> late ] : Clocked(i, tick(ni[i], ms, again), ms)
      BY <1>4, Zenon DEF Tick
    <2>3. late \subseteq IP
      BY <1>1, <2>1, Zenon DEF overdue, Interface, Partial
    <2>4. Cardinality(late) \in Nat
      <3> HIDE DEF late
      <3> QED BY <2>3, EthernetAssumption
    <2> DEFINE c == Cardinality(late)
               y == tick(ni[i], ms, again)
    <2>5. c \in Nat /\ again \in [1 .. c -> IP]
      BY <2>2, <2>3, <2>4
    <2> HIDE DEF c
    <2>6. Keeps(ni[i], y)
      BY <1>1, <2>1, <2>5, TickKeeps
    <2>7. ni' = [ ni EXCEPT ![i] = y ] /\ UNCHANGED <<asked, got>>
      BY <1>4, <2>2, Zenon DEF Tick, Clocked
    <2> HIDE DEF y
    <2>8. \A k \in IP : ni'[k] = ni[k] \/ Keeps(ni[k], ni'[k])
      BY <1>2, <2>1, <2>6, <2>7
    <2> QED BY <2>7, <2>8, KeptOrdered
  <1>5. ASSUME NEW i \in IP, Deliver(i) \/ Lose(i) \/ Damage(i)
        PROVE  Ordered'
    <2>1. PICK R \in SUBSET (IP \ {i}) :
            \E frame : Transfer(i, R, frame) /\ (frame = Head(ni[i].frames_out) \/ ~frame.intact)
      BY <1>1, <1>5, CarriedFrame, Zenon
    <2> QED BY <2>1, TransferOrdered
  <1>6. ASSUME NEW i \in Restarting, Restart(i)
        PROVE  Ordered'
    <2> DEFINE x == NewNetworkInterface(Spare[i], i)
    <2>1. i \in IP /\ Spare[i] \in Owned(i)
      BY EthernetAssumption DEF Owned
    <2>2. Truthful(x) /\ \A j \in IP : \A lo, hi \in Nat : lo <= hi => Flowing(x, j, lo, hi)
      BY <2>1, NewTruthful
    <2>3. ni' = [ ni EXCEPT ![i] = x ] /\ UNCHANGED <<asked, got>>
      BY <1>6 DEF Restart
    <2> HIDE DEF x
    <2>4. Keeps(ni[i], x)
      <3>1. ASSUME NEW j \in IP, NEW lo \in Nat, NEW hi \in Nat, Flowing(ni[i], j, lo, hi)
            PROVE  lo <= hi
        <4>1. PICK mid \in Nat : lo <= mid /\ mid <= hi
          BY <3>1, FlowingParts, Zenon
        <4> QED BY <4>1
      <3> QED BY <2>2, <3>1 DEF Keeps
    <2>5. \A k \in IP : ni'[k] = ni[k] \/ Keeps(ni[k], ni'[k])
      BY <1>2, <2>1, <2>3, <2>4
    <2> QED BY <2>3, <2>5, KeptOrdered
  <1>7. CASE UNCHANGED vars
    <2>1. UNCHANGED <<asked, got>> /\ \A k \in IP : ni'[k] = ni[k]
      BY <1>7 DEF vars
    <2> QED BY <2>1, KeptOrdered
  <1> QED BY <1>3, <1>4, <1>5, <1>6, <1>7 DEF Next

\* For any number of hosts, an interface passes up only datagrams for its own host, and those of one
\* sender in the order in which they were sent (network_interface.cc:37-55, :66-114).
THEOREM SpecInOrder == Spec => []InOrder
  <1>1. Ordered => InOrder
    BY DEF Ordered
  <1> QED BY <1>1, InitIInv, NextIInv, InitOrdered, NextOrdered, PTL DEF Spec
=============================================================================
