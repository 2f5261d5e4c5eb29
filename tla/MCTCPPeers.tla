----------------------------- MODULE MCTCPPeers -----------------------------
EXTENDS TCPPeers

ClientWrites == [ client |-> { <<"a", "b">> }, server |-> {} ]
BothWrite == [ client |-> { <<"a">> }, server |-> { <<"c">> } ]
=============================================================================
