------------------------------- MODULE Client --------------------------------
(***************************************************************************)
(* The load generator: one context of do_client (client.c), that is its    *)
(* sending thread and its receiver thread _run_receiver_thread, from the   *)
(* moment the MAC addresses are known (module Arp) to the report, with the *)
(* signal handler of main.                                                 *)
(*                                                                         *)
(* The tx rings are external and appear as what the code sees of them:     *)
(* rte_eth_tx_burst takes any part of a burst, and an mbuf it has taken    *)
(* returns to the pool some time later.  Packets are told apart by their   *)
(* kind: "echo" for an IPv4 packet from a destination, "arp" for an ARP    *)
(* request for this host, "other" for everything the receiver discards.    *)
(* The receiver counts every "echo", whoever sent the packet it answers:   *)
(* the NIC is set up without RSS, so the queues of the first context also  *)
(* get the echoes of what the other contexts sent (others_sent).           *)
(* Time is kept as ages, as in module Server.  failed_to_push, which is    *)
(* only printed, is left out.                                              *)
(***************************************************************************)
EXTENDS Integers, Sequences, FiniteSets, Functions, Filters

CONSTANTS
  CountDsts,                 \* the values of count_dst_ip
  CountFlow,                 \* count_flow
  CountQueues,               \* count_queues; default_qid is 0
  Burst,                     \* cntx->batch
  MAX_BURST_SIZE, RX_RING, NUM_MBUFS,
  Hz,                        \* clock ticks in a second
  Duration,                  \* cntx->duration in ticks, 0 for no end
  RateLimit, Rate,           \* rate_limit and packets per second of a flow
  Bidi,
  Noise,                     \* kinds of the frames others send
  MaxSent,                   \* bound: packets sent in a run
  MaxOthers                  \* bound: packets the other contexts send

ASSUME ClientAssumption ==
  /\ CountDsts \subseteq Nat \ {0}
  /\ {CountFlow, CountQueues, Burst, MAX_BURST_SIZE, RX_RING,
      NUM_MBUFS, Hz} \subseteq Nat \ {0}
  /\ {Duration, Rate, MaxSent, MaxOthers} \subseteq Nat
  /\ Burst <= MAX_BURST_SIZE
  /\ {RateLimit, Bidi} \subseteq BOOLEAN
  /\ Noise \subseteq {"arp", "other"}

VARIABLES
  count_dst_ip,              \* chosen in Init, never changed
  running,                   \* cntx->running
  \* sender
  pc, can_send, duration,
  elapsed,                   \* now - start_time
  window,                    \* now - tp_start_ts
  selected_dst, dst_port,    \* dst_port counts from base_port_number
  flow, cur_flow, selected_q,
  nb_tx, throughput, total_sent_pkts,
  \* receiver
  recv_running,              \* recv_arg.running
  recv, recv_bufs, total_received_pkts,
  \* NIC, pools and network
  rxq, tx_busy, tx_free, rx_free,
  net,                       \* packets and echoes under way
  lost, others_sent          \* history: packets lost, sent by others

pathVars == <<selected_dst, dst_port, flow, cur_flow, selected_q>>
sendVars == <<nb_tx, throughput, total_sent_pkts>>
recvVars == <<recv, recv_bufs, total_received_pkts>>
timeVars == <<elapsed, window>>
netVars == <<net, lost, others_sent>>
vars == <<count_dst_ip, running, pc, can_send, duration, timeVars, pathVars,
          sendVars, recv_running, recvVars, rxq, netVars, tx_busy, tx_free,
          rx_free>>

Queues == 0..(CountQueues - 1)
Flows  == 0..(count_dst_ip * CountFlow - 1)
Drain  == 2 * Hz             \* how long the client waits for the last echoes
MaxElapsed == Duration + Drain + 1

Lesser(a, b) == IF a < b THEN a ELSE b

Init ==
  /\ count_dst_ip \in CountDsts
  /\ running = TRUE
  /\ pc = "loop"
  /\ can_send = TRUE
  /\ duration = Duration
  /\ elapsed = 0
  /\ window = 0
  /\ selected_dst = 0
  /\ dst_port = 0
  /\ flow = 0
  /\ cur_flow = 0
  /\ selected_q = 0
  /\ nb_tx = 0
  /\ throughput = [f \in Flows |-> 0]
  /\ total_sent_pkts = 0
  /\ recv_running = TRUE
  /\ recv = IF Bidi THEN "loop" ELSE "none"
  /\ recv_bufs = <<>>
  /\ total_received_pkts = 0
  /\ rxq = [q \in Queues |-> <<>>]
  /\ net = 0
  /\ lost = 0
  /\ others_sent = 0
  /\ tx_busy = 0
  /\ tx_free = NUM_MBUFS
  /\ rx_free = NUM_MBUFS

-----------------------------------------------------------------------------
(* The sending thread.                                                      *)

TimeOver == duration > 0 /\ elapsed > duration

\* cntx->running was cleared: no waiting for echoes
Interrupted ==
  /\ pc = "loop"
  /\ ~running
  /\ pc' = "stop"
  /\ UNCHANGED <<running, can_send, duration, timeVars, pathVars, sendVars,
                 recv_running, recvVars, rxq, netVars, tx_busy, tx_free,
                 rx_free>>

\* The time to send is over: wait for the packets under way.
StartDrain ==
  /\ pc = "loop"
  /\ running
  /\ TimeOver
  /\ can_send
  /\ can_send' = FALSE
  /\ duration' = Drain
  /\ elapsed' = 0
  /\ UNCHANGED <<running, pc, window, pathVars, sendVars, recv_running,
                 recvVars, rxq, netVars, tx_busy, tx_free, rx_free>>

EndDrain ==
  /\ pc = "loop"
  /\ running
  /\ TimeOver
  /\ ~can_send
  /\ pc' = "stop"
  /\ UNCHANGED <<running, can_send, duration, timeVars, pathVars, sendVars,
                 recv_running, recvVars, rxq, netVars, tx_busy, tx_free,
                 rx_free>>

CanSend == pc = "loop" /\ running /\ ~TimeOver /\ can_send

\* assert(selected_dst == 0)
Abort ==
  /\ CanSend
  /\ selected_dst # 0
  /\ pc' = "abort"
  /\ UNCHANGED <<running, can_send, duration, timeVars, pathVars, sendVars,
                 recv_running, recvVars, rxq, netVars, tx_busy, tx_free,
                 rx_free>>

\* the next port of the range, round robin
NextPortPast == IF dst_port + 1 > CountFlow THEN 0 ELSE dst_port + 1
NextPort == IF dst_port + 1 >= CountFlow THEN 0 ELSE dst_port + 1

\* and the next destination
NextDstPast == (selected_dst + 1) % (count_dst_ip + 1)
NextDst == (selected_dst + 1) % count_dst_ip

\* Destination, port, queue and flow of this burst and of the next one.
Select ==
  /\ CanSend
  /\ selected_dst = 0
  /\ selected_q' = flow % CountQueues                 \* flow_q[flow]
  /\ dst_port' = NextPort
  /\ selected_dst' = NextDst
  /\ cur_flow' = flow
  /\ flow' = selected_dst' * CountFlow + dst_port'

\* The counters start over once a second; the limit is computed with the time
\* stamp from before.
NewWindow == window > Hz
Throughput == IF NewWindow THEN [f \in Flows |-> 0] ELSE throughput
LimitedNever == FALSE
Limited == RateLimit /\ Throughput[flow] * Hz > Rate * window

ResetWindow ==
  /\ throughput' = Throughput
  /\ window' = IF NewWindow THEN 0 ELSE window

\* Over the limit, or not enough mbufs: the loop starts over.
Skip ==
  /\ Select
  /\ ResetWindow
  /\ Limited \/ tx_free < Burst
  /\ UNCHANGED <<running, pc, can_send, duration, elapsed, nb_tx,
                 total_sent_pkts, recv_running, recvVars, rxq, netVars, tx_busy,
                 tx_free, rx_free>>

\* Allocate and fill a burst.
Alloc ==
  /\ Select
  /\ ResetWindow
  /\ ~Limited
  /\ tx_free >= Burst
  /\ total_sent_pkts + Burst <= MaxSent
  /\ tx_free' = tx_free - Burst
  /\ pc' = "send"
  /\ UNCHANGED <<running, can_send, duration, elapsed, nb_tx, total_sent_pkts,
                 recv_running, recvVars, rxq, netVars, tx_busy, rx_free>>

\* rte_eth_tx_burst takes n of the packets
TxBurst(n) ==
  /\ pc = "send"
  /\ nb_tx' = n
  /\ net' = net + n
  /\ tx_busy' = tx_busy + n
  /\ pc' = "sent"
  /\ UNCHANGED <<running, can_send, duration, timeVars, pathVars, throughput,
                 total_sent_pkts, recv_running, recvVars, rxq, lost,
                 others_sent, tx_free, rx_free>>

\* the packets the NIC did not take
FreeNothing == UNCHANGED tx_free
FreeUnsent == tx_free' = tx_free + (Burst - nb_tx)

\* total_sent_pkts and failed_to_push; the clock has moved since start_time
CountSent == total_sent_pkts' = total_sent_pkts + nb_tx

\* Count the burst and free what was not sent.
Count ==
  /\ pc = "sent"
  /\ CountSent
  /\ FreeUnsent
  /\ throughput' = [throughput EXCEPT ![cur_flow] = @ + nb_tx]
  /\ pc' = "loop"
  /\ UNCHANGED <<running, can_send, duration, timeVars, pathVars, nb_tx,
                 recv_running, recvVars, rxq, netVars, tx_busy, rx_free>>

StopNobody ==
  /\ pc = "stop"
  /\ pc' = "join"
  /\ UNCHANGED <<running, can_send, duration, timeVars, pathVars, sendVars,
                 recv_running, recvVars, rxq, netVars, tx_busy, tx_free,
                 rx_free>>

\* recv_arg.running = 0
StopReceiver ==
  /\ pc = "stop"
  /\ recv_running' = FALSE
  /\ pc' = "join"
  /\ UNCHANGED <<running, can_send, duration, timeVars, pathVars, sendVars,
                 recvVars, rxq, netVars, tx_busy, tx_free, rx_free>>

JoinNobody == TRUE
Joined == ~Bidi \/ recv = "done"

\* pthread_join; then the counters are printed and the histograms freed
Report ==
  /\ pc = "join"
  /\ Joined
  /\ running' = FALSE
  /\ pc' = "done"
  /\ UNCHANGED <<can_send, duration, timeVars, pathVars, sendVars,
                 recv_running, recvVars, rxq, netVars, tx_busy, tx_free,
                 rx_free>>

Sender ==
  /\ \/ Interrupted \/ StartDrain \/ EndDrain \/ Abort \/ Skip \/ Alloc
     \/ \E n \in 0..Burst : TxBurst(n)
     \/ Count \/ StopReceiver \/ Report
  /\ UNCHANGED count_dst_ip

-----------------------------------------------------------------------------
(* The receiver thread.                                                     *)

RecvUnchanged ==
  UNCHANGED <<count_dst_ip, running, pc, can_send, duration, timeVars, pathVars,
              sendVars, recv_running>>

\* while (arg->running) ends
RecvEnd ==
  /\ recv = "loop"
  /\ ~recv_running
  /\ recv' = "done"
  /\ RecvUnchanged
  /\ UNCHANGED <<recv_bufs, total_received_pkts, rxq, netVars, tx_busy, tx_free,
                 rx_free>>

\* A burst from the first queue that has packets.
RecvBurst ==
  /\ recv = "loop"
  /\ recv_running
  /\ \E q \in Queues :
       LET n == Lesser(MAX_BURST_SIZE, Len(rxq[q]))
       IN /\ rxq[q] # <<>>
          /\ \A p \in Queues : p < q => rxq[p] = <<>>
          /\ recv_bufs' = SubSeq(rxq[q], 1, n)
          /\ rxq' = [rxq EXCEPT ![q] = SubSeq(@, n + 1, Len(@))]
  /\ recv' = "pkt"
  /\ RecvUnchanged
  /\ UNCHANGED <<total_received_pkts, netVars, tx_busy, tx_free, rx_free>>

\* The next packet of the burst, which is freed whatever it is.
RecvPacket(kind) ==
  /\ recv = "pkt"
  /\ recv_bufs # <<>>
  /\ Head(recv_bufs) = kind
  /\ recv_bufs' = Tail(recv_bufs)
  /\ rx_free' = rx_free + 1
  /\ RecvUnchanged
  /\ UNCHANGED <<recv, rxq, netVars>>

RecvEcho ==
  /\ RecvPacket("echo")
  /\ total_received_pkts' = total_received_pkts + 1
  /\ UNCHANGED <<tx_busy, tx_free>>

RecvOther ==
  /\ RecvPacket("other")
  /\ UNCHANGED <<total_received_pkts, tx_busy, tx_free>>

\* check_eth_hdr answers an ARP request, on tx queue 0, if it gets an mbuf and
\* the NIC takes it
RecvArp ==
  /\ RecvPacket("arp")
  /\ \/ /\ tx_free > 0
        /\ tx_free' = tx_free - 1
        /\ tx_busy' = tx_busy + 1
     \/ UNCHANGED <<tx_free, tx_busy>>
  /\ UNCHANGED total_received_pkts

RecvNext ==
  /\ recv = "pkt"
  /\ recv_bufs = <<>>
  /\ recv' = "loop"
  /\ RecvUnchanged
  /\ UNCHANGED <<recv_bufs, total_received_pkts, rxq, netVars, tx_busy, tx_free,
                 rx_free>>

Receiver ==
  RecvEnd \/ RecvBurst \/ RecvEcho \/ RecvOther \/ RecvArp \/ RecvNext

-----------------------------------------------------------------------------
(* The signal handler of main; the NIC, the network and the clock           *)
(* (external).                                                              *)

Active == pc \notin {"done", "abort"}

HandleMainInt ==
  /\ Active
  /\ running' = FALSE
  /\ UNCHANGED <<count_dst_ip, pc, can_send, duration, timeVars, pathVars,
                 sendVars, recv_running, recvVars, rxq, netVars, tx_busy,
                 tx_free, rx_free>>

EnvUnchanged ==
  UNCHANGED <<count_dst_ip, running, pc, can_send, duration, pathVars, sendVars,
              recv_running, recvVars>>

TxDone ==
  /\ Active
  /\ tx_busy > 0
  /\ tx_busy' = tx_busy - 1
  /\ tx_free' = tx_free + 1
  /\ EnvUnchanged
  /\ UNCHANGED <<timeVars, rxq, netVars, rx_free>>

Lose ==
  /\ Active
  /\ net > 0
  /\ net' = net - 1
  /\ lost' = lost + 1
  /\ EnvUnchanged
  /\ UNCHANGED <<timeVars, rxq, others_sent, tx_busy, tx_free, rx_free>>

\* Another context sends a packet whose echo may come to this one's queues.
OthersSend ==
  /\ Active
  /\ others_sent < MaxOthers
  /\ others_sent' = others_sent + 1
  /\ net' = net + 1
  /\ EnvUnchanged
  /\ UNCHANGED <<timeVars, rxq, lost, tx_busy, tx_free, rx_free>>

Arrive(q, kind) ==
  /\ Active
  /\ Len(rxq[q]) < RX_RING
  /\ rx_free > 0
  /\ rxq' = [rxq EXCEPT ![q] = Append(@, kind)]
  /\ rx_free' = rx_free - 1
  /\ EnvUnchanged
  /\ UNCHANGED <<timeVars, tx_busy, tx_free>>

\* the echo of a packet of any context
EchoArrives(q) ==
  /\ Arrive(q, "echo")
  /\ net > 0
  /\ net' = net - 1
  /\ UNCHANGED <<lost, others_sent>>

NoiseArrives(q) == (\E k \in Noise : Arrive(q, k)) /\ UNCHANGED netVars

\* The ages stop where no comparison tells them apart any more.
Tick ==
  /\ Active
  /\ elapsed' = Lesser(elapsed + 1, duration + 1)
  /\ window' = Lesser(window + 1, Hz + 1)
  /\ EnvUnchanged
  /\ UNCHANGED <<rxq, netVars, tx_busy, tx_free, rx_free>>

Next ==
  \/ Sender \/ HandleMainInt
  \/ pc # "abort" /\ Receiver         \* abort() ends both threads
  \/ TxDone \/ Lose \/ OthersSend \/ Tick
  \/ \E q \in Queues : EchoArrives(q) \/ NoiseArrives(q)

Spec == Init /\ [][Next]_vars

\* Both threads run and the clock advances.
FairSpec == Spec /\ WF_vars(Sender) /\ WF_vars(Receiver) /\ WF_vars(Tick)

-----------------------------------------------------------------------------
(* Properties                                                               *)

\* The values the variables may take; in particular every index that
\* do_client computes stays inside its array.
TypeOK ==
  /\ running \in BOOLEAN /\ can_send \in BOOLEAN /\ recv_running \in BOOLEAN
  /\ pc \in {"loop", "send", "sent", "stop", "join", "done", "abort"}
  /\ duration \in {Duration, Drain}
  /\ elapsed \in 0..MaxElapsed
  /\ window \in 0..(Hz + 1)
  /\ count_dst_ip \in CountDsts
  /\ selected_dst \in 0..(count_dst_ip - 1)
  /\ dst_port \in 0..(CountFlow - 1)
  /\ flow \in Flows
  /\ cur_flow \in Flows
  /\ selected_q \in Queues
  /\ nb_tx \in 0..Burst
  /\ throughput \in [Flows -> Nat]
  /\ total_sent_pkts \in Nat /\ total_received_pkts \in Nat
  /\ recv \in {"none", "loop", "pkt", "done"}
  /\ recv_bufs \in Seq({"echo", "arp", "other"})
  /\ rxq \in [Queues -> Seq({"echo", "arp", "other"})]
  /\ net \in Nat /\ lost \in Nat /\ others_sent \in Nat
  /\ tx_busy \in Nat /\ tx_free \in Nat /\ rx_free \in Nat

InHand == IF pc = "send" THEN Burst
          ELSE IF pc = "sent" THEN Burst - nb_tx ELSE 0

\* Every mbuf of the tx pool is free, with the NIC or in the burst being
\* prepared: what rte_eth_tx_burst does not take is freed, and the receiver
\* thread's ARP answers use the same pool meanwhile.
TxConservation == tx_free + tx_busy + InHand = NUM_MBUFS

\* In no second does a flow exceed the rate by more than a burst, whatever the
\* scheduling; the window of delta_time may be stale when it starts over.
RateRespected ==
  RateLimit => \A f \in Flows :
                 throughput[f] * Hz <= Rate * window + Burst * Hz

Echoes(s) == NumberOf(s, {"echo"})
EchoesOf(rings) == [q \in Queues |-> Echoes(rings[q])]
InRings == SumFunction(EchoesOf(rxq))

\* The two counters of the report differ by exactly the packets that are lost,
\* still under way or left in the rings, less those of the other contexts,
\* although the receiver may count an echo before the sender has counted the
\* packet, and although it is stopped at any point of its loop: it is joined,
\* so no echo it has taken from a ring is missing.  A client of one context
\* never reports more received than sent; a first context of several may.
ReportExact ==
  pc = "done" => total_received_pkts + InRings + net + lost
                   = total_sent_pkts + others_sent

\* The assertion on selected_dst does not end a client with one destination.
OneDestination == count_dst_ip = 1 => pc # "abort"

\* What assert(selected_dst == 0) says of every client; it fails in the second
\* round of one with several destinations.
SelectedDstZero == CanSend => selected_dst = 0

\* A client with a duration and one destination ends, with its last echoes
\* waited for; and an interrupt, or whatever else clears running, ends every
\* client.
ClientEnds ==
  /\ Duration > 0 /\ count_dst_ip = 1 => <>(pc = "done")
  /\ ~running ~> (pc = "done")
==============================================================================
