------------------------------- MODULE MCLab7 -------------------------------
EXTENDS Lab7

\* four bits: 0-3 is the Internet (10.0.0.0/8), 4-7 the server's network (172.16.0.0/12), 8-11 the
\* client's (192.168.0.0/16), and 12-15 nobody's
Addresses == {1, 2, 5, 6, 9, 10, 15}
BothSend == {<<"client", 6>>, <<"server", 15>>}
SmallPlan ==
    [ side \in Sides |->
        IF side = "client"
        THEN [ host |-> 10, host_side |-> 9, internet_side |-> 1, prefix |-> 8, length |-> 2 ]
        ELSE [ host |-> 6, host_side |-> 5, internet_side |-> 2, prefix |-> 4, length |-> 2 ] ]
SmallInternet == [ prefix |-> 0, length |-> 2 ]
=============================================================================
