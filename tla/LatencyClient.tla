---------------------------- MODULE LatencyClient ----------------------------
(***************************************************************************)
(* The latency client: do_latency_client and handle_int                    *)
(* (latency_client.c), the signal handler main installs before it calls    *)
(* it, and the rings, pools and network it uses (external).  It sends a    *)
(* batch, waits for the echoes, at most a second for each burst of them,   *)
(* and sends the next batch.                                               *)
(*                                                                         *)
(* A packet is told apart by its kind: "cur" and "old" are requests and    *)
(* echoes of the last batch sent and of earlier ones; "arp" is an ARP      *)
(* request for this host and an answer to one; "alien" is any other frame  *)
(* check_eth_hdr rejects; "noip" and "bcast" are frames it accepts although*)
(* they are no echoes, the one without an IPv4 header, the other with one. *)
(***************************************************************************)
EXTENDS Integers, Sequences, FiniteSets

CONSTANTS
  Burst,                     \* cntx->batch
  BURST_SIZE,                \* length of bufs
  RX_RING, TX_RING, NUM_MBUFS,
  Hz,                        \* clock ticks in a second
  U32,                       \* 2^32: the width of nb_tx
  Noise,                     \* the kinds of frames others send
  MaxNet                     \* bound: packets in flight in the network

Kinds  == {"cur", "old", "arp", "alien", "noip", "bcast"}
Echoes == {"cur", "old"}

ASSUME LatencyAssumption ==
  /\ {Burst, BURST_SIZE, RX_RING, TX_RING, NUM_MBUFS, Hz, U32, MaxNet}
       \subseteq Nat \ {0}
  /\ Burst <= BURST_SIZE
  /\ Burst < U32
  /\ Noise \subseteq Kinds \ Echoes

VARIABLES
  pc,
  running, in_the_loop,      \* the static flags of latency_client.c
  nb_tx,
  bufs,                      \* received packets not looked at yet
  waited,                    \* now - start_since_sent
  measured,                  \* kind of the packet measured last
  txq, rxq,                  \* rings of the NIC
  net,                       \* packets in flight, in no order
  tx_free, rx_free,          \* mbufs left in the pools
  tx_lost, rx_lost,          \* mbufs no pointer refers to any more
  disturbed                  \* a timeout expired, or a foreign frame was counted

vars == <<pc, running, in_the_loop, nb_tx, bufs, waited, measured,
          txq, rxq, net, tx_free, rx_free, tx_lost, rx_lost, disturbed>>
poolVars == <<tx_free, rx_free, tx_lost, rx_lost>>
flagVars == <<running, in_the_loop>>
nicVars  == <<txq, rxq, net>>

Lesser(a, b) == IF a < b THEN a ELSE b
Times(n, x) == [i \in 1..n |-> x]

\* A new batch makes the packets of the last one old ones.
Outdate(s) == [i \in DOMAIN s |-> IF s[i] = "cur" THEN "old" ELSE s[i]]
OutdateNet == [k \in Echoes |-> IF k = "old" THEN net["old"] + net["cur"] ELSE 0]

InFlight(k) ==
  net[k] > 0 \/ \E s \in {txq, rxq, bufs} : \E i \in DOMAIN s : s[i] = k

Init ==
  /\ pc = "main"             \* main has installed its handler
  /\ running = TRUE
  /\ in_the_loop = FALSE
  /\ nb_tx = 0
  /\ bufs = <<>>
  /\ waited = 0
  /\ measured = "none"
  /\ txq = <<>>
  /\ rxq = <<>>
  /\ net = [k \in Echoes |-> 0]
  /\ tx_free = NUM_MBUFS
  /\ rx_free = NUM_MBUFS
  /\ tx_lost = 0
  /\ rx_lost = 0
  /\ disturbed = FALSE

-----------------------------------------------------------------------------
(* do_latency_client                                                        *)

\* signal(SIGINT, handle_int)
Start ==
  /\ pc = "main"
  /\ pc' = "arp"
  /\ UNCHANGED <<flagVars, nb_tx, bufs, waited, measured, nicVars, poolVars,
                 disturbed>>

\* get_dst_mac has returned (module Arp)
EnterLoop ==
  /\ pc = "arp"
  /\ pc' = "loop"
  /\ in_the_loop' = TRUE
  /\ UNCHANGED <<running, nb_tx, bufs, waited, measured, nicVars,
                 poolVars, disturbed>>

Report ==
  /\ pc = "loop"
  /\ ~running
  /\ pc' = "done"
  /\ UNCHANGED <<flagVars, nb_tx, bufs, waited, measured, nicVars, poolVars,
                 disturbed>>

\* rte_pktmbuf_alloc_bulk: all or nothing.  When it fails the loop starts over.
Alloc ==
  /\ pc = "loop"
  /\ running
  /\ tx_free >= Burst
  /\ tx_free' = tx_free - Burst
  /\ pc' = "send"
  /\ UNCHANGED <<flagVars, nb_tx, bufs, waited, measured, nicVars, rx_free,
                 tx_lost, rx_lost, disturbed>>

\* The mbufs beyond nb_tx are neither sent nor freed.
FreeTwice(n) == tx_free' = tx_free + 2 * n /\ UNCHANGED tx_lost
Forget(n) == tx_lost' = tx_lost + n /\ UNCHANGED tx_free

Send ==
  LET n == Lesser(Burst, TX_RING - Len(txq))
  IN /\ pc = "send"
     /\ nb_tx' = n
     /\ txq' = Outdate(txq) \o Times(n, "cur")
     /\ rxq' = Outdate(rxq)
     /\ net' = OutdateNet
     /\ Forget(Burst - n)
     /\ waited' = 0
     /\ pc' = "recv"
     /\ UNCHANGED <<flagVars, bufs, measured, rx_free, rx_lost, disturbed>>

\* rte_eth_rx_burst of the wait loop
NbRx == Lesser(BURST_SIZE, Len(rxq))
RxBurst == rxq' = SubSeq(rxq, NbRx + 1, Len(rxq))

Timeout ==
  /\ pc = "recv"
  /\ running
  /\ waited > Hz
  /\ RxBurst
  /\ rx_lost' = rx_lost + NbRx
  /\ disturbed' = TRUE
  /\ pc' = "loop"
  /\ UNCHANGED <<flagVars, nb_tx, bufs, waited, measured, txq, net, tx_free,
                 rx_free, tx_lost>>

Receive ==
  /\ pc = "recv"
  /\ running
  /\ waited <= Hz
  /\ NbRx > 0
  /\ RxBurst
  /\ bufs' = SubSeq(rxq, 1, NbRx)
  /\ pc' = "process"
  /\ UNCHANGED <<flagVars, nb_tx, waited, measured, txq, net, poolVars,
                 disturbed>>

\* while (running) ends with nb_rx = 0
Interrupted ==
  /\ pc = "recv"
  /\ ~running
  /\ pc' = "process"
  /\ UNCHANGED <<flagVars, nb_tx, bufs, waited, measured, nicVars, poolVars,
                 disturbed>>

-----------------------------------------------------------------------------
(* The packets of a burst, one per step; every one of them is freed.        *)

TakePacket(kinds) ==
  /\ pc = "process"
  /\ bufs # <<>>
  /\ Head(bufs) \in kinds
  /\ bufs' = Tail(bufs)
  /\ rx_free' = rx_free + 1
  /\ disturbed' = (disturbed \/ Head(bufs) \in {"noip", "bcast"})
  /\ UNCHANGED <<pc, flagVars, waited, rxq, net, tx_lost, rx_lost>>

\* check_eth_hdr returned 0; an ARP request is answered if an mbuf and a
\* descriptor are free
Reject ==
  /\ TakePacket({"arp", "alien"})
  /\ IF Head(bufs) = "arp" /\ tx_free > 0 /\ Len(txq) < TX_RING
     THEN txq' = Append(txq, "arp") /\ tx_free' = tx_free - 1
     ELSE UNCHANGED <<txq, tx_free>>
  /\ UNCHANGED <<nb_tx, measured>>

\* nb_tx -= 1, in 32 bits
CountDownSigned == nb_tx' = nb_tx - 1
CountBurstDown == nb_tx' = 0
CountDown == nb_tx' = (nb_tx - 1) % U32

NotIp ==
  /\ TakePacket({"noip"})
  /\ CountDown
  /\ UNCHANGED <<measured, txq, tx_free>>

Measure ==
  /\ TakePacket(Echoes \cup {"bcast"})
  /\ CountDown
  /\ measured' = Head(bufs)
  /\ UNCHANGED <<txq, tx_free>>

EndBurstIgnoresRunning ==
  /\ pc = "process"
  /\ bufs = <<>>
  /\ IF nb_tx > 0
     THEN pc' = "recv" /\ waited' = 0
     ELSE pc' = "loop" /\ UNCHANGED waited
  /\ UNCHANGED <<flagVars, nb_tx, bufs, measured, nicVars, poolVars, disturbed>>

\* if (nb_tx > 0 && running) goto recv
EndBurst ==
  /\ pc = "process"
  /\ bufs = <<>>
  /\ IF nb_tx > 0 /\ running
     THEN pc' = "recv" /\ waited' = 0
     ELSE pc' = "loop" /\ UNCHANGED waited
  /\ UNCHANGED <<flagVars, nb_tx, bufs, measured, nicVars, poolVars, disturbed>>

Client ==
  \/ Start \/ EnterLoop \/ Report \/ Alloc \/ Send
  \/ Timeout \/ Receive \/ Interrupted
  \/ Reject \/ NotIp \/ Measure \/ EndBurst

-----------------------------------------------------------------------------
(* SIGINT.  SIGHUP, and SIGINT before do_latency_client has started, go to  *)
(* handle_main_int (module Main), which clears cntx->running: nothing in the *)
(* latency client reads that flag.                                          *)

Active == pc \notin {"done", "killed"}

HandleInt ==
  /\ Active
  /\ pc # "main"
  /\ running' = FALSE
  /\ pc' = IF in_the_loop THEN pc ELSE "killed"       \* rte_exit
  /\ UNCHANGED <<in_the_loop, nb_tx, bufs, waited, measured, nicVars,
                 poolVars, disturbed>>

-----------------------------------------------------------------------------
(* The NIC, the network with the echo server, and the clock (external).     *)

Transmit ==
  /\ Active
  /\ txq # <<>>
  /\ txq' = Tail(txq)
  /\ tx_free' = tx_free + 1
  /\ IF Head(txq) \in Echoes /\ net["cur"] + net["old"] < MaxNet
     THEN net' = [net EXCEPT ![Head(txq)] = @ + 1]
     ELSE UNCHANGED net
  /\ UNCHANGED <<pc, flagVars, nb_tx, bufs, waited, measured, rxq, rx_free,
                 tx_lost, rx_lost, disturbed>>

Lose(k) ==
  /\ Active
  /\ net[k] > 0
  /\ net' = [net EXCEPT ![k] = @ - 1]
  /\ UNCHANGED <<pc, flagVars, nb_tx, bufs, waited, measured, txq, rxq,
                 poolVars, disturbed>>

Arrive(k) ==
  /\ Active
  /\ Len(rxq) < RX_RING
  /\ rx_free > 0
  /\ rxq' = Append(rxq, k)
  /\ rx_free' = rx_free - 1
  /\ UNCHANGED <<pc, flagVars, nb_tx, bufs, waited, measured, txq, tx_free,
                 tx_lost, rx_lost, disturbed>>

EchoArrives(k) ==
  /\ Arrive(k)
  /\ net[k] > 0
  /\ net' = [net EXCEPT ![k] = @ - 1]

NoiseArrives(k) == Arrive(k) /\ UNCHANGED net

Tick ==
  /\ Active
  /\ waited' = Lesser(waited + 1, Hz + 1)
  /\ UNCHANGED <<pc, flagVars, nb_tx, bufs, measured, nicVars, poolVars,
                 disturbed>>

Environment ==
  \/ HandleInt
  \/ Transmit
  \/ \E k \in Echoes : Lose(k) \/ EchoArrives(k)
  \/ \E k \in Noise : NoiseArrives(k)
  \/ Tick

Next == Client \/ Environment

Spec == Init /\ [][Next]_vars

\* The core runs, the clock advances, and the NIC sends.
FairSpec == Spec /\ WF_vars(Client) /\ WF_vars(Tick) /\ WF_vars(Transmit)

-----------------------------------------------------------------------------
(* Properties                                                               *)

\* The values the variables may take.
TypeOK ==
  /\ pc \in {"main", "arp", "loop", "send", "recv", "process", "done", "killed"}
  /\ running \in BOOLEAN
  /\ in_the_loop \in BOOLEAN
  /\ nb_tx \in 0..(U32 - 1)
  /\ bufs \in Seq(Kinds)
  /\ waited \in 0..(Hz + 1)
  /\ measured \in Kinds \cup {"none"}
  /\ txq \in Seq(Kinds)
  /\ rxq \in Seq(Kinds)
  /\ net \in [Echoes -> Nat]
  /\ {tx_free, rx_free, tx_lost, rx_lost} \subseteq Nat
  /\ disturbed \in BOOLEAN

InHand == IF pc = "send" THEN Burst ELSE 0

\* The two places above that forget mbufs, Send (unsent packets, against
\* SentOrFreed below) and Timeout, are the only ones: every other mbuf is free,
\* in a ring or in the client's hands.  A packet of a burst is freed once,
\* whatever branch it takes.
Accounted ==
  /\ tx_free + InHand + Len(txq) + tx_lost = NUM_MBUFS
  /\ rx_free + Len(rxq) + Len(bufs) + rx_lost = NUM_MBUFS

\* What the comment on the allocation says: the packets of a batch are either
\* sent or freed, so that an mbuf of the tx pool is free, in the ring or in the
\* batch being prepared.
SentOrFreed == tx_free + InHand + Len(txq) = NUM_MBUFS

\* As long as no wait has timed out and nobody else's frame has passed
\* check_eth_hdr, a batch is sent only when every packet of the ones before has
\* come back: nb_tx counts the packets of the batch exactly, also when a part
\* of the batch was not sent.
BatchCompleteUnlessTimeout ==
  [][pc = "send" /\ pc' = "recv" /\ ~disturbed
       => ~InFlight("cur") /\ ~InFlight("old")]_vars

\* Under the same condition every latency is that of a packet of the last
\* batch (do_latency_client does not look where a time stamp comes from).
OnlyBatchMeasured == ~disturbed => measured \in {"none", "cur"}


\* An interrupt that handle_int receives ends the client, from every place of
\* its loop.
SigintStops == [](~running => <>(pc \in {"done", "killed"}))
==============================================================================
