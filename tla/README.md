# Sponge in TLA+

A TLA+ model of sponge, a TCP/IP stack in user space (`src/libsponge`, with
programs around it in `src/apps`). The modules are translated from the source;
TLC checks them on small instances and TLAPS proves the properties of the stream
layers, of the two halves of TCP and of ARP for every value of their constants. `PROJECT.json` holds the details this
file leaves out: which lines each definition stands for, every run, every
hazard and every finding.

## The system

| part | state | operations | interacts with |
|---|---|---|---|
| `wrapping_integers` | none | `wrap`, `unwrap` between 64-bit and 32-bit sequence numbers | receiver, sender |
| `ByteStream` | buffer, two byte counters, input-ended and error flags | `write`, `peek_output`, `pop_output`, `read`, `end_input`, `set_error` | everything above it |
| `StreamReassembler` | a window of held bytes, their count, an eof flag, the output stream | `push_substring` | receiver |
| `TCPReceiver` | SYN/FIN seen, the peer's ISN, a reassembler | `segment_received`, `ackno`, `window_size` | connection |
| `TCPSender` | outgoing stream, next and acknowledged sequence numbers, window estimate, outstanding segments, a timer with backoff | `fill_window`, `ack_received`, `tick`, `send_empty_segment` | connection |
| `TCPConnection` | a receiver, a sender, the time since the last segment, linger, fin and error flags | `connect`, `write`, `end_input_stream`, `segment_received`, `tick`, the destructor | its owner, the network |
| `TCPState` | none | names the state of a connection | socket, tests |
| `TCPSpongeSocket`, `EventLoop` | a connection, a socket pair, four rules, an abort flag, a thread | the rules, `connect`, `listen_and_accept`, `wait_until_closed`, the destructor | connection, adapters, the application's thread |
| datagram adapters | the peer's address and ports, a listening flag | `read`, `write`, `tick` | socket, network interface |
| `NetworkInterface` | ARP table and pending requests with their times, datagrams that wait | `send_datagram`, `recv_frame`, `tick` | adapter, router |
| `Router` | routing table, interfaces | `add_route`, `route` | network interfaces |
| parsers, headers, checksum, buffers | a cursor and a sticky error | `parse`, `serialize` | adapters, network interface |
| `apps/` | the queues and threads of `lab7`, the streams of `bidirectional_stream_copy` | copying | sockets |

What makes it hard: two ends and a network that loses, repeats, reorders and
delays; clocks that race answers; applications that read and close whenever
they like, which decides whether a connection lingers; numbers that wrap at 16,
32 and 64 bits; buffers at their limit; two threads that share a pair of sockets, and event
loops whose callbacks change what the loop has just polled; ARP and its timers
under everything. What must hold: the reader of a stream
gets what the writer wrote, in order, and learns of its end only then; nothing
is acknowledged that was not assembled; nothing is sent that the window does
not allow; whatever is written is delivered in the end; a connection goes away,
and cleanly only with both streams delivered; a datagram that waits for ARP
is sent, in order, and none circulates; a program that copies its standard input
and output hands each end on behind all data, and ends.

## The modules

Each class has a module of operators, in which an object is a record and a
method is an operator from record to record with the method's name, and a
`Spec` module that puts the object between the parties that call it.

| module | models |
|---|---|
| `WrappingIntegers`, `SequenceSpace` | `wrap`, `unwrap`; two counters that run through the whole 64-bit range. `W` stands for 2^32 and `W * W` for 2^64 |
| `ByteStream`, `ByteStreamSpec` | the class; a writer and a reader in any order |
| `ReliableStream` | abstract: what every layer promises of a stream. The reader gets a prefix of the input and its end only after all of it |
| `StreamReassembler`, `StreamReassemblerSpec` | the class; substrings of a growing stream pushed in any order, any number of times, while the reader reads |
| `TCPSegment` | the header fields that the endpoints act on |
| `TCPReceiver`, `TCPReceiverSpec` | the class; segments of a stream that is longer than the sequence-number space |
| `TCPSender`, `TCPSenderSpec` | the class; an application, a clock and a peer that acknowledges |
| `TCPConnection` | the class, as operators |
| `TCPPeers` | two connections, their applications, one clock and a network |
| `TCPState` | the table of official states, and the summary of a connection that is compared with it |
| `EventLoop` | `wait_next_event` over any list of rules: the pass in front of `poll`, what `poll` reports, the callbacks one by one |
| `FileDescriptor` | `read`, `write`, `close`, `shutdown` and the kernel's pipes behind them |
| `TCPSpongeSocket` | the four rules of the socket, its loop's clock, `wait_until_closed` |
| `StreamCopy` | the four rules of `bidirectional_stream_copy` |
| `Program` | `tcp_udp` and its like: the owner's thread, the socket's thread, a peer |
| `NetworkInterface`, `Ethernet` | the class; several interfaces on a link that loses and damages frames |
| `Router`, `Lab7` | `Router` with its interfaces; two `lab7` programs and the Internet between them |
| `Parser`, `Formats` | bytes: `NetParser`, `NetUnparser`, `InternetChecksum`; the TCP, IPv4, Ethernet and ARP formats |
| `Adapters`, `Wire` | the adapters over UDP, TUN and TAP; hosts that send segments through them over a network that damages, cuts, repeats and drops |
| `StreamLemmas`, `WrappingIntegersProofs`, `ByteStreamProofs`, `StreamReassemblerProofs`, `TCPReceiverProofs`, `TCPSenderProofs`, `EthernetProofs` | the proofs |
| `MC...` | the sets that TLC's instances use |

How the state corresponds to the code:

- A member `_x` of a class is the field `x` of its record. The deques `_buffer`
  and `_state` of the reassembler are one function `pending` from stream index
  to byte, whose domain is the slots with `_state` set.
- A loop is a `CHOOSE` of where it stops (`drained`, `pop_acked`) or a sequence
  indexed by its counter (`new_segment`).
- Each method is one step, with all of its calls: `segment_received` runs the
  receiver, the sender, the linger decision and `_send()`. The owner takes
  `segments_out()` after each call, as rule 4 of `TCPSpongeSocket` does; in
  `Program` rule 4 itself does it, when its turn comes.
- `wait_next_event()` is cut where another thread can run: `awaken` is everything
  up to the return of `poll`, `handle` one callback, `step` whichever is next. Rules, interests, callbacks
  and cancellations are parameters of `EventLoop`, which `Program` instantiates
  twice. An exception is a member of `threw`, and ends the program.
- `connect()` and `listen_and_accept()` run the socket's loop in the owner's
  thread until the state is no longer one they wait for; then both threads run.
- `Ethernet` keeps the `std::list`s of a `NetworkInterface` as functions from
  address to what is kept for it. `lab7` ticks its router by 50 ms in every turn
  (`lab7.cc:399-400`), whatever time has passed; so does `RouterTurn`, by 1.
- In `Wire` bytes, 16-bit fields and checksums have their real width; a 32-bit
  number is a pair of halves.
- The window fields are modulo `U16`, absolute numbers modulo `U64`.
- Operators that stand before a definition and say what they get wrong (a timer
  that keeps running, a check that forgets what is unacknowledged) are plausible
  mistakes; each is put in place of its definition once, to see that the
  property meant to catch it does.

What is abstracted: above the formats bytes are model values and header fields
that only the adapters use are left out; `Program` and `Lab7` carry segments and
datagrams as records, since `Wire` shows that the formats lose nothing; the clock of `TCPConnection` counts up to the linger
time, the only value it is compared with; both ends tick together.

## The runs

Passing runs:

| run | shows |
|---|---|
| `byte_stream` | `Fifo`, `ImplementsReliableStream` |
| `stream_reassembler` | `Faithful`, `WithinCapacity`, `Eager`, `EndsComplete`, `ImplementsReliableStream`, and `Completes`: the whole stream and its end arrive |
| `tcp_receiver` | `AckExact`, `EdgeNeverRetreats`, and that the receiver drives its reassembler with the true indexes (`ImplementsReassembler`) over a stream of more than twice the sequence range |
| `tcp_sender` | acknowledgments and windows in any order: `SentGenuine`, `Tiling`, `TimerMatches`, `Backoff`, `Drains`; while they come in order, `FlowControl` |
| `tcp_peers_faulty` | a segment lost or repeated, any order: `NothingAckedUnseen`, `Survives`, two reliable streams, `Finishes` |
| `tcp_peers_give_up` | data both ways, segments delayed past the timeouts, connections that give up or are destroyed: `CleanFinish`, `InactiveForGood`, `ResetReachesPeer` |
| `wire` | every byte of a packet damaged, every place to cut it, repetitions, drops, three clients of one listener, over UDP, TUN and TAP: `Genuine`, `Delivers`, `HeaderVerdict`, `OnePeer`; for all offsets of a range with W = 6, through all 36 numbers, `Closest` |
| `ethernet` | three interfaces, lost and damaged frames, clocks, a restart under another Ethernet address: `Coherent`, `InOrder`, `RequestsSpaced`, `StaleBounded`, `Released` |
| `lab7` | two hosts and two routers, ARP on both sides, default routes that point at each other, a frame lost in between: `RightHost`, `NoneCirculates`, `Arrives` |
| `program` | standard input and output copied through a `TCPSpongeSocket`, connecting or listening, with a peer that ends or resets, an input that hangs up and an owner that destroys the socket: `EndsComplete`, `NothingThrown`, `Terminates` |

Runs that show the code to disagree with what a comment in it says:

| run | what happens |
|---|---|
| `tcp_peers_early_fin` | a FIN without data that overtakes the data before it ends the stream early: the reassembler decides the end by the flag and by nothing being held, not by the index of the end |
| `program_reset` | a reset arrives while the local socket has room for only a part of the inbound bytes: rule 3 shuts the socket down, stays interested in the bytes left and writes to it again, which fails in the socket's thread |

`PartialWriteHandled`, the property of `program_reset`, leaves out the other write
that can fail: the owner's own, to a socket whose thread has ended after a reset,
as with any Unix socket. `NothingThrown` allows both, and only behind a reset.

The constants `EarlyEof` and `EarlyFin` (an empty end may overtake data),
`Patient` (a host sends its FIN only when its data is acknowledged) and
`WriteAfterEnd` (a writer may call `write()` after `end_input()`, which the
code accepts) name the cases in which properties fail, so that the passing runs can
say what holds without them. `Patient` is set where the network reorders or loses;
in `tcp_peers_give_up`, which keeps the order, a FIN may follow its data at once.
`Closest` leaves out checkpoints in the last 2^32 of the 64-bit numbers, where
the higher candidate of `unwrap` wraps to a number near 0.

Met while modelling, and in the modules, without a run of their own:

- `tcp_sender.cc:103`: a window smaller than what is in flight makes the unsigned
  estimate wrap to a large number, where `:101` says that its lower bound is 0.
- `tcp_connection.cc:61`: the linger decision tests `eof()`, so that a connection
  in CLOSE_WAIT whose application has not read everything still lingers.
- `tcp_connection.cc:189`: the RST of the destructor is queued in the connection
  that is being destroyed (`Abort` in `TCPPeers`), and never sent.
- `ipv4_datagram.cc:13`, `tcp_segment.cc:20`, `ethernet_frame.cc:13` ignore what the
  header's `parse` returns. `Genuine` holds all the same: the length, the pseudo-header
  and the TCP checksum catch what `HeaderVerdict` says the header's checks would.
  A damaged header length moves the start of the segment, and is caught for all
  ports but a few whose sums coincide.
- `router.cc:53` compares a masked address with a prefix that is not masked: a route
  whose prefix has bits below its length never matches.
- With both directions of the pair shut down, `poll` reports a hangup at once and the
  socket's loop spins through TIME_WAIT without sleeping.

### Bounds

- `W` is 4 to 16 and the 64-bit range its square. Sequence numbers wrap in every
  run about segments (`ISN` is next to the top), in `tcp_receiver` twice.
- Capacities are 2 or 3 and streams are longer (4, 5, 18 bytes) wherever a full
  buffer matters. One byte per segment is enough to fill a window with two
  segments, to close it and to reopen it. Two peers exchange two bytes one way,
  or one each way in `tcp_peers_give_up`, where resets multiply the states.
- `MaxInFlight` holds applications and the clock back while two segments are on
  their way to one host; answers to arriving segments are never held back.
- `MaxRetx`, `MAX_RETX_ATTEMPTS` 1 or 2: one retransmission that is answered and
  one too many. `LINGER_FACTOR` 2 or 4 is longer than the retransmissions that
  lingering is for, as 10 is in the code.
- `wire`: one header per format, three segments, one pair of numbers, and two ways
  to change a byte; one packet is under way at a time. The counters and the packets
  do not move together, since they do not meet but in `wrap`.
- `ethernet`: TTL 3 and timeout 2 ticks, one long enough for a request to be repeated
  and one for a mapping to expire; two flows, a third address that overhears, one
  restart. With a frame in a queue (`MaxQueue`) hosts and clocks wait for the link.
- `lab7`: 4-bit addresses, prefixes of length 0 and 2, two datagrams with a TTL of 3,
  one of them for nowhere.
- `program`: pipes, copy buffers and the sending stream hold one byte, one byte goes
  out and two come in, so that every buffer is full at some time and a write is
  partial. The peer resets the connection only before it ends its own stream. Time
  passes while nothing is under way.
- `MaxFaults` 1 and at most `MAX_RETX_ATTEMPTS`: `Survives` is about a network
  that loses no more segments than the sender repeats.

### Fairness

- The network delivers what it has not lost, the clock ticks while a tick does
  something, and applications read: the event loop of `TCPSpongeSocket` polls its
  rules and calls `tick` every 10 ms. Nothing is assumed of when an application
  writes or closes.
- `tcp_sender`: what is in flight is acknowledged in the end, which the timer's
  retransmissions justify, with any window, also a closed one.
- `stream_reassembler`: the first missing byte is pushed again with all that
  follows it, as a sender that retransmits does.
- `ethernet`: `tick` is called for ever, and a link that is tried for ever does not
  lose every frame of a host (strong fairness of `Deliver`).
- `lab7`: both threads of each program go on; the Internet may lose a frame and is
  held to nothing about it.
- `program`: both threads are scheduled and the peer gets what is sent. Nothing makes
  standard input hang up, or the peer write, end or reset.
- Where an action is large, weak fairness is written out with the condition that
  enables it in place of `WF_`.

`CHECK_DEADLOCK FALSE` is set where the system does stop: counters at the end of
their range, connections and programs that are finished, datagrams that have all
arrived.

## The proofs

All are for every value of the constants, from the assumptions the modules name
(capacities are naturals, at least 1 for the reassembler, whose `_state.front()`
needs a slot; streams are shorter than 2^64).

- `WrappingIntegersProofs`: `SpecRoundTrip` and `SpecClosest`. The counters stay
  in range; `unwrap` returns one of two neighbours `low`, `high` of the
  checkpoint that are `W` apart, and every other number with the same residue is
  further away.
- `ByteStreamProofs`: `SpecFifo`, `SpecWithinCapacity`,
  `SpecImplementsReliableStream`. `TypeOK /\ Fifo /\ WithinCapacity` is
  inductive. For the refinement the reader's `saw_eof` also needs that an ended
  stream stays ended and empty, which is true of writers that do not write after
  `end_input()` (the theorem's assumption).
- `StreamReassemblerProofs`: `SpecFaithful`, `SpecWithinCapacity`,
  `SpecCountedOnce`, `SpecEager` hold together: a push is only faithful if the
  held bytes are right, they fit only if the next byte is never among them, and
  the count decides the end. The inductive invariant is their conjunction with
  `TypeOK` and with `bytes_read` being what the reader got. `PushEffect` and
  `ReadEffect` say what one push and one read do. `SpecEndsComplete` and
  `SpecImplementsReliableStream` assume that no empty eof substring overtakes
  data; `tcp_peers_early_fin` shows why they must.
- `TCPReceiverProofs`: `SpecImplementsReassembler`, and from it `SpecAckExact`,
  `SpecEdgeNeverRetreats` and `SpecReliableStream`, for every `W`, also for streams
  that are many times as long as `W`. The receiver's reassembler is an instance of
  `StreamReassemblerProofs`, so its inductive invariant comes along; `RInv` adds that
  nothing is assembled before the SYN and that the ISN is the far end's from then on.
  Then `unwrap` finds the true index (`UnwrapWrap`, from `WrappingIntegersProofs`),
  and each step is a step of `StreamReassemblerSpec`. The last three assume that no FIN
  overtakes data (`FInv`), and so does the run.
- `TCPSenderProofs`: `SpecSentGenuine`, `SpecTiling`, `SpecTimerMatches`, `SpecBackoff`,
  `SpecFlowControl`. They stand on one inductive invariant: `Numbered` (the byte stream,
  the flags and `next_seqno` agree, and what is in the buffer is the rest of what was
  written), `Tiled` (the outstanding segments are genuine, adjacent, and cover what is
  between the acknowledged and the next number), `Timed` (timeout, count and elapsed
  time) and `Sendable` (what each segment handed out may be). `Sound` is what
  holds between two methods; the timer matches the queue only at the end of a call, so it is
  a conjunct of `IInv`. Each method, and each turn of the loop of `fill_window`, has
  its lemma; that the loop ends with the first turn that makes no segment is
  `LoopStops`. The window needs that the estimate and what is in flight together stay
  within the edge last offered. Assumed is what the module assumes: the stream is shorter than
  half the sequence range, so that a segment's number tells its place; the
  code's own bound is on the flight, not on the stream.
- `EthernetProofs`: `SpecCoherent`, `SpecInOrder`, `SpecRequestsSpaced`,
  `SpecStaleBounded`, for any
  number of hosts, flows and restarts, any TTL and timeout, any steps of the clocks.
  None is inductive: that waiting datagrams and requests agree needs that a request's
  timer and a mapping are never kept for one address; that requests are spaced needs
  that the time left of a request and the time since it was sent make up the timeout
  (`Spaced`), and a mapping outlives its host's address for no longer than
  its remaining TTL (`Fresh`), which needs that every frame in a queue carries its
  sender's present address. `IInv` is these with the types of the interfaces. Each
  method has a lemma that says what it does to an interface (`Ages`), and `Send`,
  `Tick`, `Transfer` and `Restart` a step in `NextIInv`.
  `InOrder` needs `Ordered` on top of `IInv`: each flow is numbered upwards through what was passed
  up, what is in frames and what waits (`Flowing`), and every mapping and every frame is addressed
  to a host that owns the address (`Truthful`), so that no other host passes the
  datagram up. It assumes that no two hosts ever have the same Ethernet address.
- `StreamLemmas`: facts about cutting and joining sequences that these share, and
  induction over the naturals in the form the provers can use: a set of naturals that has 0 and
  is closed under successor has them all.

Only model-checked: everything about `TCPConnection` and `TCPPeers`, where two
of the proved halves meet over a network; the formats and adapters, routing and the threads of
`Program`, whose modules compute with folds over sequences and checksums, so that a proof needs
an induction for each of them; and all liveness, which needs fairness and
`ENABLED`.

## Not modelled

- `BufferList::remove_prefix`, `BufferViewList` and the sharing of storage between
  `Buffer`s: they hold the same bytes in other places, and only the bytes matter to
  what uses them.
- `Address` and name resolution, `bind`, `recv`, `sendto`, TUN and TAP devices,
  timestamps, random numbers, hexdumps, the printing of headers and states: input and
  output without a state of their own.
- `write(..., true)` of `FileDescriptor`, which loops until all is written; no event
  loop calls it.
- `POLLERR`, `POLLNVAL` and `EINTR` in `EventLoop`, which the descriptors of these
  programs do not report.
- The read and write counters of the owner's descriptor are touched by both threads
  without synchronisation: the socket's thread calls `shutdown()` on it when it ends
  (`tcp_sponge_socket.cc:260`). In the model they are the flag `serviced` of the
  running callback, which no other thread changes; a lost update of a counter, and
  the busy-wait exception it could raise in the owner's loop, are left out.
- Argument parsing and output of the programs in `apps/`, the handshake and forwarding
  of `bouncer`, the scripted expectations of `network_simulator`, the loop of
  `tcp_benchmark` that moves segments between two connections (which `TCPPeers` does
  in any order), `webget`, `tun`, `udp_tcpdump` and `tcp_native`, which use the
  kernel's sockets.
- The exceptions for using a socket twice, and the variants of `TCPSpongeSocket` that
  differ in the adapter they are made with.
