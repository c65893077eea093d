--------------------------------- MODULE Arp ---------------------------------
(***************************************************************************)
(* How the workers of a client learn the MAC addresses of the servers:     *)
(* get_dst_mac and send_arp (utils/arp.c), called by do_client for each    *)
(* destination in turn and by do_latency_client for its only one.  All     *)
(* workers have the same IP and MAC address, and all of them poll the rx   *)
(* queues 0 .. count_queue - 1: the queue argument is not used.  A worker  *)
(* that has all addresses starts its receiver thread, which takes frames   *)
(* from the worker's own queues.                                           *)
(*                                                                         *)
(* The network (external) may lose a frame or deliver it at any later      *)
(* time; the one second of sleep between a request and the poll is         *)
(* therefore no bound on when an answer comes in.                          *)
(***************************************************************************)
EXTENDS Integers, Sequences, FiniteSets

CONSTANTS
  NumWorkers, CountQueue,   \* workers, count_queues of each of them
  Dsts,                     \* dst_ips: the servers, in the order of the arguments
  Mac,                      \* Mac[d]: the MAC address of server d
  MyIp, MyMac, BroadcastMac,
  Noise,                    \* frames that are not for get_dst_mac
  RxQueues,                 \* the queues to which the NIC steers frames
  Bidi,                     \* cntx->bidi: is there a receiver thread
  BURST, RX_RING, TX_RING,
  NUM_MBUFS,                \* mbufs of the tx pool
  NoMac                     \* server_eth[i] before it is assigned

Workers == 0..(NumWorkers - 1)
Queues  == 0..(NumWorkers * CountQueue - 1)
Servers == {Dsts[i] : i \in DOMAIN Dsts}

\* An ARP request carries its target, a reply its sender and its target; to is
\* the Ethernet destination.
Request(d) == [op |-> "request", tip |-> d]
Reply(d)   == [op |-> "reply", to |-> MyMac, sip |-> d, sha |-> Mac[d],
               tha |-> MyMac, tip |-> MyIp]

\* A request check_eth_hdr answers, and its answer.
Asks(m) ==
  /\ m.to \in {MyMac, BroadcastMac}
  /\ m.op = "request"
  /\ m.tip = MyIp
OwnReply(m) == [op |-> "reply", to |-> m.sha, sip |-> MyIp, sha |-> MyMac,
                tha |-> m.sha, tip |-> m.sip]

\* The answer get_dst_mac waits for.  arp_sip is not compared with dst_ip.
IsReplyToAnyone(m) == m.to = MyMac /\ m.op = "reply"
IsReply(m) ==
  /\ m.to = MyMac
  /\ m.op = "reply"
  /\ m.tha = MyMac
  /\ m.tip = MyIp

ASSUME ArpAssumption ==
  /\ {NumWorkers, CountQueue, BURST, RX_RING, TX_RING, NUM_MBUFS}
       \subseteq Nat \ {0}
  /\ Len(Dsts) > 0
  /\ Dsts \in Seq(Servers)
  /\ NoMac \notin {Mac[d] : d \in Servers}
  /\ \A m \in Noise : \/ m.to # MyMac \/ m.op # "reply"
                       \/ m.tha # MyMac \/ m.tip # MyIp
  /\ RxQueues \subseteq Queues
  /\ Bidi \in BOOLEAN

VARIABLES
  pc,          \* pc[w]: "send", "poll", "run" (all addresses are known)
  dst,         \* dst[w]: index of the destination being resolved
  rx_q,        \* rx_q[w]: the next queue to poll
  server_eth,  \* server_eth[w][i]: the MAC address of Dsts[i]
  rxq,         \* rx rings
  txq,         \* tx ring 0, the only one send_arp uses
  tx_free,     \* mbufs left in the tx pool
  net,         \* frames in flight
  asked        \* history: the servers for which a worker has called send_arp

vars == <<pc, dst, rx_q, server_eth, rxq, txq, tx_free, net, asked>>

Lesser(a, b) == IF a < b THEN a ELSE b
Taken(q) == SubSeq(rxq[q], 1, Lesser(BURST, Len(rxq[q])))
Answers(s) == {i \in DOMAIN s : IsReply(s[i])}
Rest(q)  == SubSeq(rxq[q], Lesser(BURST, Len(rxq[q])) + 1, Len(rxq[q]))

-----------------------------------------------------------------------------
Init ==
  /\ pc = [w \in Workers |-> "send"]
  /\ dst = [w \in Workers |-> 1]
  /\ rx_q = [w \in Workers |-> 0]
  /\ server_eth = [w \in Workers |-> [i \in DOMAIN Dsts |-> NoMac]]
  /\ rxq = [q \in Queues |-> <<>>]
  /\ txq = <<>>
  /\ tx_free = NUM_MBUFS
  /\ net = {}
  /\ asked = {}

\* send_arp: without an mbuf, or when the ring is full (the mbuf is freed
\* again), nothing is sent and nobody is told.
SendArpLeak(m) ==
  IF Len(txq) < TX_RING
  THEN txq' = Append(txq, m) /\ tx_free' = tx_free - 1
  ELSE tx_free' = tx_free - 1 /\ UNCHANGED txq
SendArp(m) ==
  IF Len(txq) < TX_RING
  THEN txq' = Append(txq, m) /\ tx_free' = tx_free - 1
  ELSE UNCHANGED <<txq, tx_free>>

\* The head of while (!found_res): a request, and a second of sleep.
Send(w) ==
  /\ pc[w] = "send"
  /\ IF tx_free > 0 THEN SendArp(Request(Dsts[dst[w]]))
                    ELSE UNCHANGED <<txq, tx_free>>
  /\ pc' = [pc EXCEPT ![w] = "poll"]
  /\ rx_q' = [rx_q EXCEPT ![w] = 0]
  /\ asked' = asked \cup {Dsts[dst[w]]}
  /\ UNCHANGED <<dst, server_eth, rxq, net>>

\* rx_q < count_queue
MoreQueuesPast(w) == rx_q[w] <= CountQueue
MoreQueues(w) == rx_q[w] < CountQueue

Poll(w) ==
  /\ pc[w] = "poll"
  /\ MoreQueues(w)
  /\ rxq' = [rxq EXCEPT ![rx_q[w]] = Rest(rx_q[w])]
  /\ UNCHANGED <<txq, tx_free, net, asked>>

\* No answer among the frames of this queue; they are freed.
NotFound(w) ==
  /\ Poll(w)
  /\ Answers(Taken(rx_q[w])) = {}
  /\ rx_q' = [rx_q EXCEPT ![w] = @ + 1]
  /\ UNCHANGED <<pc, dst, server_eth>>

\* The first answer of the burst gives the address; all frames of the burst
\* are freed, and the caller turns to its next destination.
Found(w) ==
  /\ Poll(w)
  /\ \E i \in Answers(Taken(rx_q[w])) :
       /\ \A j \in Answers(Taken(rx_q[w])) : i <= j
       /\ server_eth' =
            [server_eth EXCEPT ![w][dst[w]] = Taken(rx_q[w])[i].sha]
  /\ IF dst[w] < Len(Dsts)
     THEN /\ dst' = [dst EXCEPT ![w] = @ + 1]
          /\ pc' = [pc EXCEPT ![w] = "send"]
     ELSE /\ pc' = [pc EXCEPT ![w] = "run"]
          /\ UNCHANGED dst
  /\ UNCHANGED rx_q

RetryOnlyPolls(w) ==
  /\ pc[w] = "poll"
  /\ rx_q[w] = CountQueue
  /\ rx_q' = [rx_q EXCEPT ![w] = 0]
  /\ UNCHANGED <<pc, dst, server_eth, rxq, txq, tx_free, net,
                 asked>>
RetryGivesUp(w) ==
  /\ pc[w] = "poll"
  /\ rx_q[w] = CountQueue
  /\ pc' = [pc EXCEPT ![w] = "run"]
  /\ UNCHANGED <<dst, rx_q, server_eth, rxq, txq, tx_free, net,
                 asked>>

\* All queues were polled in vain: the loop starts over.
Retry(w) ==
  /\ pc[w] = "poll"
  /\ rx_q[w] = CountQueue
  /\ pc' = [pc EXCEPT ![w] = "send"]
  /\ UNCHANGED <<dst, rx_q, server_eth, rxq, txq, tx_free, net,
                 asked>>

\* The receiver thread of a worker frees every frame it finds in the worker's
\* own queues; a request for this host it answers first (check_eth_hdr).
Receive(w) ==
  /\ Bidi
  /\ pc[w] = "run"
  /\ \E q \in Queues :
       /\ q \div CountQueue = w
       /\ rxq[q] # <<>>
       /\ rxq' = [rxq EXCEPT ![q] = Tail(@)]
       /\ IF Asks(Head(rxq[q])) /\ tx_free > 0
          THEN SendArp(OwnReply(Head(rxq[q])))
          ELSE UNCHANGED <<txq, tx_free>>
  /\ UNCHANGED <<pc, dst, rx_q, server_eth, net, asked>>

-----------------------------------------------------------------------------
(* The NIC, the network and the servers (external).                         *)

Requests == {Request(d) : d \in Servers}
Replies  == {Reply(d) : d \in Servers}

\* A request is on its way to the servers; an answer leaves the system.
Transmit ==
  /\ txq # <<>>
  /\ net' = net \cup ({Head(txq)} \cap Requests)
  /\ txq' = Tail(txq)
  /\ tx_free' = tx_free + 1
  /\ UNCHANGED <<pc, dst, rx_q, server_eth, rxq, asked>>

\* The server answers as AnswerArp of module Server does.
Answer(d) ==
  /\ Request(d) \in net
  /\ net' = (net \ {Request(d)}) \cup {Reply(d)}
  /\ UNCHANGED <<pc, dst, rx_q, server_eth, rxq, txq, tx_free, asked>>

Lose(m) ==
  /\ net' = net \ {m}
  /\ UNCHANGED <<pc, dst, rx_q, server_eth, rxq, txq, tx_free, asked>>

\* A frame reaches the client; for one that finds the ring full, see Lose.
Arrive(m, q) ==
  /\ Len(rxq[q]) < RX_RING
  /\ rxq' = [rxq EXCEPT ![q] = Append(@, m)]
  /\ UNCHANGED <<pc, dst, rx_q, server_eth, txq, tx_free, asked>>

Deliver(d) ==
  /\ Reply(d) \in net
  /\ net' = net \ {Reply(d)}
  /\ \E q \in RxQueues : Arrive(Reply(d), q)

OtherTraffic ==
  /\ \E m \in Noise, q \in RxQueues : Arrive(m, q)
  /\ UNCHANGED net

-----------------------------------------------------------------------------
Resolve(w) == Send(w) \/ NotFound(w) \/ Found(w) \/ Retry(w)

Next ==
  \/ \E w \in Workers : Resolve(w) \/ Receive(w)
  \/ Transmit
  \/ \E d \in Servers : Answer(d) \/ Deliver(d)
  \/ \E m \in net : Lose(m)
  \/ OtherTraffic

Spec == Init /\ [][Next]_vars

\* A thread is scheduled, the NIC sends what is in its ring, and a network that
\* carries a frame again and again does not lose it every time.
Fairness ==
  /\ \A w \in Workers : WF_vars(Resolve(w)) /\ WF_vars(Receive(w))
  /\ WF_vars(Transmit)
  /\ \A d \in Servers : SF_vars(Answer(d)) /\ SF_vars(Deliver(d))

FairSpec == Spec /\ Fairness

-----------------------------------------------------------------------------
(* Properties                                                               *)

\* The values the variables may take.
TypeOK ==
  /\ pc \in [Workers -> {"send", "poll", "run"}]
  /\ dst \in [Workers -> DOMAIN Dsts]
  /\ rx_q \in [Workers -> 0..CountQueue]
  /\ server_eth \in
       [Workers -> [DOMAIN Dsts -> {Mac[d] : d \in Servers} \cup {NoMac}]]
  /\ rxq \in [Queues -> Seq(Noise \cup Replies)]
  /\ txq \in Seq(Requests \cup {OwnReply(m) : m \in Noise})
  /\ tx_free \in Nat
  /\ net \subseteq Requests \cup Replies
  /\ asked \subseteq Servers

\* An address that get_dst_mac returns belongs to a destination that a worker
\* of this process has asked for by then, never to another host and never to a
\* destination whose turn is yet to come, although requests and answers are
\* lost, delayed and repeated and all workers wait on the same rings.  It need
\* not be the destination of this call: arp_sip is not compared.
OnlyAsked ==
  \A w \in Workers : \A i \in DOMAIN Dsts :
    server_eth[w][i] \in {Mac[d] : d \in asked} \cup {NoMac}

\* do_client asks for its destinations in turn and starts to send only when an
\* address is known for every one of them, with several destinations too.
AddressesKnown ==
  \A w \in Workers : \A i \in DOMAIN Dsts :
    server_eth[w][i] # NoMac <=> pc[w] = "run" \/ i < dst[w]

\* send_arp neither leaks nor invents an mbuf of the tx pool, whatever fails.
TxConservation == tx_free + Len(txq) = NUM_MBUFS

\* One of the workers gets all addresses, however many frames are lost on the
\* way and although all of them wait on the same rings (the retry of
\* get_dst_mac), unless frames of others never cease to fill those rings.
SomeWorkerResolves ==
  <>(\E w \in Workers : pc[w] = "run") \/ []<><<OtherTraffic>>_vars

\* Every worker gets all addresses, however many frames are lost on the way
\* (the retry of get_dst_mac).
ArpResolves == \A w \in Workers : <>(pc[w] = "run")
==============================================================================
