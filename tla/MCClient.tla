------------------------------ MODULE MCClient -------------------------------
(* Small instances of Client: which other frames are on the network.        *)
EXTENDS Client

AllNoise == {"arp", "other"}
==============================================================================
