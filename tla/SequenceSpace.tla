---------------------------- MODULE SequenceSpace ----------------------------
(***************************************************************************)
(* The two counters of a connection that wrap and unwrap relate: the       *)
(* absolute number `sent` that one side puts on the wire and the           *)
(* `checkpoint` that the other side unwraps it against.  Both start at the *)
(* ISN and each counts up on its own, through the whole 64-bit range.      *)
(***************************************************************************)
EXTENDS WrappingIntegers

VARIABLES isn, sent, checkpoint

vars == <<isn, sent, checkpoint>>

Init ==
    /\ isn \in WrappingInt32
    /\ sent = 0
    /\ checkpoint = 0

AdvanceSent ==
    /\ sent + 1 < U64
    /\ sent' = sent + 1
    /\ UNCHANGED <<isn, checkpoint>>

AdvanceCheckpoint ==
    /\ checkpoint + 1 < U64
    /\ checkpoint' = checkpoint + 1
    /\ UNCHANGED <<isn, sent>>

Next == AdvanceSent \/ AdvanceCheckpoint

Spec == Init /\ [][Next]_vars

TypeOK ==
    /\ isn \in WrappingInt32
    /\ sent \in UInt64
    /\ checkpoint \in UInt64

-----------------------------------------------------------------------------
\* unwrap recovers the absolute number the peer wrapped as long as that number and the checkpoint
\* are less than half the sequence space apart (tcp_receiver.cc:38, tcp_sender.cc:90 and :113).
RoundTrip ==
    2 * Distance(sent, checkpoint) < W => unwrap(wrap(sent, isn), isn, checkpoint) = sent

\* unwrap returns the absolute number closest to the checkpoint among all that wrap to the same
\* 32 bits (the \returns of wrapping_integers.cc:22), for every checkpoint below the last W numbers.
Closest ==
    checkpoint < U64 - W =>
        IsClosest(unwrap(wrap(sent, isn), isn, checkpoint), wrap(sent, isn), isn, checkpoint)
=============================================================================
