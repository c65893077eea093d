-------------------------------- MODULE MCArp --------------------------------
(* Small instances of Arp: the servers "s1" and "s2".                       *)
EXTENDS Arp

OneServer == <<"s1">>
TwoServers == <<"s1", "s2">>
MCMac == [d \in {"s1", "s2"} |-> IF d = "s1" THEN "m1" ELSE "m2"]

\* an answer of the second server to somebody else and a broadcast request
MCNoise == {[op |-> "reply", to |-> "me", sip |-> "s2", sha |-> "m2",
             tha |-> "me", tip |-> "another"],
            [op |-> "request", to |-> "all", sip |-> "s2", sha |-> "m2",
             tha |-> "all", tip |-> "me"]}
MCNoNoise == {}
MCQueueZero == {0}
==============================================================================
