---------------------------- MODULE MCEthernet ----------------------------
EXTENDS Ethernet

CONSTANTS router, dm42, dm43, m1, m2, m3, m4

TwoFlows == {<<dm42, dm43>>, <<dm43, dm42>>}
Asks == [ flow \in Flows |-> IF flow[2] = dm43 THEN 2 ELSE 1 ]
Macs == [ ip \in IP |-> CASE ip = router -> m1 [] ip = dm42 -> m2 [] ip = dm43 -> m3 ]
SpareMac == [ ip \in Restarting |-> m4 ]
=============================================================================
