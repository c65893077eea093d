--------------------------- MODULE MCLatencyClient ---------------------------
(* Small instances of LatencyClient: which other frames are on the network. *)
EXTENDS LatencyClient

SomeNoise == {"arp", "noip"}
==============================================================================
