---------------------------- MODULE MCTCPSender ----------------------------
EXTENDS TCPSenderSpec

Texts == { <<"a">>, <<"b", "c">> }
=============================================================================
