------------------------------- MODULE MCParts -------------------------------
(***************************************************************************)
(* The parts of a client that its threads call: the resolution of the      *)
(* destinations, the choice of source addresses, the packets and the       *)
(* latency histogram.  No part reads what another one keeps, so a          *)
(* behaviour is that of the part chosen at the start, while the others are *)
(* at rest.                                                                *)
(***************************************************************************)
EXTENDS MCArp, MCZipf, Percentile, Packet

VARIABLE part

MCFractions == {<<1, 100>>, <<1, 2>>, <<9, 10>>, <<99, 100>>}

partVars == <<part, vars, zipfVars, histVars, packetVars>>

PartInit ==
  /\ part \in {"arp", "zipf", "hist", "packet"}
  /\ Init /\ ZipfInit /\ HistInit /\ PacketInit

InArp == part = "arp" /\ UNCHANGED <<part, zipfVars, histVars, packetVars>>
InZipf == part = "zipf" /\ UNCHANGED <<part, vars, histVars, packetVars>>
InHist == part = "hist" /\ UNCHANGED <<part, vars, zipfVars, packetVars>>
InPacket == part = "packet" /\ UNCHANGED <<part, vars, zipfVars, histVars>>

PartNext ==
  \/ Next /\ InArp
  \/ ZipfNext /\ InZipf
  \/ HistNext /\ InHist
  \/ PacketNext /\ InPacket

PartSpec == PartInit /\ [][PartNext]_partVars

\* The fairness of Arp, and a core for each thread that draws an address.
PartFairSpec ==
  /\ PartSpec
  /\ \A w \in Workers : /\ WF_partVars(Resolve(w) /\ InArp)
                        /\ WF_partVars(Receive(w) /\ InArp)
  /\ WF_partVars(Transmit /\ InArp)
  /\ \A d \in Servers : /\ SF_partVars(Answer(d) /\ InArp)
                        /\ SF_partVars(Deliver(d) /\ InArp)
  /\ \A t \in Threads : WF_partVars(Thread(t) /\ InZipf)

\* SomeWorkerResolves of the behaviours in which get_dst_mac runs: one of the
\* workers gets all addresses, whatever the network loses.
ArpEnds == part = "arp" => SomeWorkerResolves
==============================================================================
