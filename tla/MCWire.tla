------------------------------- MODULE MCWire -------------------------------
EXTENDS Wire

\* 10.144.0.1:1080, two clients at one address, a third elsewhere with a port of the first
server == [ ip |-> <<2704, 1>>, port |-> 1080 ]
clients == { [ ip |-> <<2704, 2>>, port |-> 40000 ], [ ip |-> <<2704, 2>>, port |-> 40001 ],
             [ ip |-> <<49320, 65535>>, port |-> 40000 ] }
macs == [ h \in clients \cup {server} |-> <<2, 0, 0, h.ip[2] % 256, h.port \div 256, h.port % 256>> ]

segment(syn, ack, fin, rst, payload) ==
    [ header |-> [ NewTCPHeader EXCEPT !.syn = syn, !.ack = ack, !.fin = fin, !.rst = rst, !.win = 64000,
                                       !.ackno = <<65535, 65280>> ],
      payload |-> payload ]

segments == { segment(TRUE, FALSE, FALSE, FALSE, << >>),
              segment(FALSE, TRUE, TRUE, FALSE, <<255, 0, 7>>),
              segment(TRUE, FALSE, FALSE, TRUE, <<1>>) }

samples == { <<5, 3>> }
=============================================================================
