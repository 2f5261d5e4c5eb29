------------------------------ MODULE EventLoop ------------------------------
(***************************************************************************)
(* The EventLoop class of libsponge/util/eventloop: rules that wait for a  *)
(* file descriptor, polled in the order in which they were added.  A rule  *)
(* is a number; its callbacks act on the state of the program, the world.  *)
(* wait_next_event() is two steps here, since poll() happens before the    *)
(* callbacks and other threads run in between: awaken and handle.          *)
(***************************************************************************)
EXTENDS Integers, FiniteSetsExt, SequencesExt

CONSTANTS Rules,           \* the rules are 1 .. Rules
          In(_),           \* whether a rule reads its descriptor
          Eof(_, _),       \* the flags of the descriptor of a rule
          Closed(_, _),
          Interest(_, _),
          Callback(_, _),
          Cancel(_, _),
          Revents(_, _)    \* what poll() reports of the descriptor of a rule

\* the rules left, and the part of poll()'s answer that has not been handled
NewEventLoop == [ rules |-> 1 .. Rules, ready |-> {}, hung |-> {} ]

\* the pass over the rules in front of poll(), at rule r
prepared(a, r) ==
    LET over == (In(r) /\ Eof(r, a.world)) \/ Closed(r, a.world)
    IN  [ a EXCEPT !.rules = IF over THEN @ \ {r} ELSE @,
                   !.polled = IF ~over /\ Interest(r, a.world) THEN @ \cup {r} ELSE @,
                   !.world = IF over THEN Cancel(r, @) ELSE @ ]

set_up(loop, w) ==
    FoldLeft(prepared, [ world |-> w, rules |-> loop.rules, polled |-> {} ],
             SetToSortSeq(loop.rules, <))

event(r) == IF In(r) THEN "IN" ELSE "OUT"

\* the rules poll() reports on; an uninterested rule is told of a hangup too
reported(s) ==
    { r \in s.rules : Revents(r, s.world) \cap ({"HUP"} \cup { event(q) : q \in s.polled \cap {r} }) # {} }

unhandled(loop) == loop.ready \cup loop.hung

\* wait_next_event() after a step: it is "Pending" while there is something to handle
outcome(result, w, loop) ==
    [ result |-> IF unhandled(loop) # {} THEN "Pending" ELSE result, world |-> w, loop |-> loop ]

\* poll() and what it answers; no descriptor here reports POLLERR or POLLNVAL
polled(s) ==
    LET ready == { r \in s.polled : event(r) \in Revents(r, s.world) }
        hung == { r \in s.polled \ ready : "HUP" \in Revents(r, s.world) }
    IN  outcome(IF s.polled = {} THEN "Exit" ELSE IF reported(s) = {} THEN "Timeout" ELSE "Success",
                s.world, [ rules |-> s.rules, ready |-> ready, hung |-> hung ])

\* wait_next_event() up to the return of poll()
awaken(loop, w) == polled(set_up(loop, w))

\* a callback that neither serves its descriptor nor loses its interest would be called for ever
checked(r, w) ==
    [ w EXCEPT !.threw = @ \cup IF ~w.serviced /\ Interest(r, w) THEN {"busy wait"} ELSE {},
               !.serviced = FALSE ]

\* wait_next_event() at the next rule with something to handle
handle(loop, w) ==
    LET r == Min(unhandled(loop))
        rest == [ loop EXCEPT !.ready = @ \ {r}, !.hung = @ \ {r} ]
    IN  IF r \in loop.hung
        THEN outcome("Success", Cancel(r, w), [ rest EXCEPT !.rules = @ \ {r} ])
        ELSE outcome("Success", checked(r, Callback(r, w)), rest)

step(loop, w) == IF unhandled(loop) = {} THEN awaken(loop, w) ELSE handle(loop, w)
=============================================================================
