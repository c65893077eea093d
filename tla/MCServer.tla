------------------------------ MODULE MCServer ------------------------------
(* Small instances of the server: hosts "c" (client) and "s" (server).      *)
EXTENDS ServerRefinement

MCAddr == {"c", "s", "x", "all"}

Udp == [id |-> 0, type |-> "ipv4", eth |-> <<"c", "s">>, ip |-> <<"c", "s">>,
        port |-> <<"c", "s">>]

ArpRequest == [Udp EXCEPT !.type = "request", !.eth = <<"c", "all">>]

StrayFrame == [Udp EXCEPT !.eth = <<"c", "x">>]

WrongIp == [Udp EXCEPT !.ip = <<"c", "x">>]

\* a client, one that asks for the MAC address, and somebody else's traffic
MCTraffic == {Udp, ArpRequest, StrayFrame, WrongIp}
MCUdpOnly == {Udp}
MCUdpAndArp == {Udp, ArpRequest}
=============================================================================
