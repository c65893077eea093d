------------------------------- MODULE Server -------------------------------
(***************************************************************************)
(* The UDP echo server: do_server (server.c) on every core, the server     *)
(* branch of main (main.c), the frame check and ARP answer it shares with  *)
(* the clients (check_eth_hdr, send_arp), and the parts of the NIC and the *)
(* mbuf pools they use (DPDK, external).                                   *)
(*                                                                         *)
(* Time is kept as ages: idle[w], lag[w] and queue_status[q] are the       *)
(* differences between the clock and a stored time stamp that the code     *)
(* compares with a threshold; Tick moves all of them and they saturate     *)
(* where no comparison can tell them apart any more, so time itself is not *)
(* bounded.  Counters that are only printed are left out.                  *)
(***************************************************************************)
EXTENDS Integers, Sequences, FiniteSets

CONSTANTS
  NumCores, QueuePerCore,           \* count_core, queue_per_core
  BURST_SIZE, TX_BUF_LEN,           \* packets per poll, length of tx_buf
  RX_RING, TX_RING, NUM_MBUFS,      \* descriptors per ring, mbufs per pool
  WaitUntilExpBegins, TerminationThreshold,
  DelayCycles, U32,                 \* delay_cycles; 2^32, where the product wraps
  Bidi,                             \* the values cntx->bidi may have
  DoArp,                            \* cntx->do_arp
  Addr,                             \* MAC and IP addresses and ports
  MyMac, MyIp, BroadcastMac,
  Traffic,                          \* the frames that may arrive
  MaxPkts                           \* bound: frames that arrive in a run

(* Frames: eth, ip and port are the pairs <<source, destination>>; type is  *)
(* the ether type or, for ARP, the opcode.  The ip pair of an ARP frame is  *)
(* <<arp_sip, arp_tip>> and its eth pair stands for arp_sha and arp_tha too.*)
Frame == [id : Nat, type : {"ipv4", "other", "request", "reply"},
          eth : Addr \X Addr, ip : Addr \X Addr, port : Addr \X Addr]

ASSUME ServerAssumption ==
  /\ {NumCores, QueuePerCore, BURST_SIZE, TX_BUF_LEN, RX_RING, TX_RING,
      NUM_MBUFS, U32} \subseteq Nat \ {0}
  /\ {WaitUntilExpBegins, TerminationThreshold, DelayCycles, MaxPkts}
       \subseteq Nat
  /\ TerminationThreshold <= WaitUntilExpBegins
  /\ Bidi \subseteq BOOLEAN
  /\ DoArp \in BOOLEAN
  /\ {MyMac, MyIp, BroadcastMac} \subseteq Addr
  /\ Traffic \subseteq Frame

VARIABLES
  bidi,              \* cntx->bidi, the same in all contexts
  main,              \* main thread: "serve", "joining", "exit"
  running,           \* running[w]: cntxs[w].running
  pc,                \* pc[w]: where worker w is in its loop
  q_index, qid,      \* next managed queue, queue of this iteration
  first_pkt,         \* a valid packet was seen
  idle,              \* now - (first_pkt ? last_pkt_time : exp_begin)
  lag,               \* now - current_time
  quiet,             \* current_time - last_pkt_time > termination_threshold
  rx_bufs, tx_buf,   \* packets of the burst to look at, echoes to send
  nb_pkts_process,
  queue_status,      \* queue_status[q]: time left until q may be serviced
  rxq, txq,          \* NIC rings
  wire,              \* wire[q]: frames the NIC has put on the wire
  rx_free, tx_free,  \* mbufs left in the rx and the tx pool
  arrived            \* frames that have arrived

loopVars == <<running, q_index, qid, quiet, lag>>
pktVars  == <<first_pkt, idle, nb_pkts_process>>
bufVars  == <<rx_bufs, tx_buf>>
nicVars  == <<rxq, txq, wire, rx_free, tx_free, arrived>>
vars == <<bidi, main, pc, queue_status, loopVars, pktVars, bufVars, nicVars>>

Workers == 0..(NumCores - 1)
Queues  == 0..(NumCores * QueuePerCore - 1)
MaxAge  == WaitUntilExpBegins + 1

Lesser(a, b) == IF a < b THEN a ELSE b
Age(a) == Lesser(a + 1, MaxAge)

-----------------------------------------------------------------------------
(* What the worker makes of a frame.                                        *)

IsArp(p) == p.type \in {"request", "reply"}

ForThisHost(p) == p.eth[2] \in {MyMac, BroadcastMac}

\* check_eth_hdr: TRUE for a frame to look at further
CheckEthHdr(p) == ForThisHost(p) /\ ~IsArp(p)

AnswersArp(p) ==
  /\ DoArp
  /\ ForThisHost(p)
  /\ p.type = "request"
  /\ p.ip[2] = MyIp

Valid(p) ==
  /\ DoArp => CheckEthHdr(p)
  /\ p.type = "ipv4"
  /\ p.ip[2] = MyIp

Flip(pair) == <<pair[2], pair[1]>>

Echo(p) == [p EXCEPT !.eth = Flip(@), !.ip = Flip(@), !.port = Flip(@)]

ArpReply(p) == [p EXCEPT !.type = "reply", !.eth = <<MyMac, p.eth[1]>>,
                         !.ip = <<MyIp, p.ip[1]>>]

-----------------------------------------------------------------------------
(* One iteration of the worker loop.                                        *)

\* managed_queues[j] of worker w, as main fills it
ManagedQueueShared(w, j) == j
ManagedQueue(w, j) == w * QueuePerCore + j

NextIndexNoWrap(i) == i + 1
NextIndex(i) == (i + 1) % QueuePerCore

Goto(w, l) == pc' = [pc EXCEPT ![w] = l]

Stop(w) == /\ Goto(w, "done")
           /\ running' = [running EXCEPT ![w] = FALSE]

\* run && cntx->running is false: the loop ends
LeaveLoop(w) ==
  /\ pc[w] = "loop"
  /\ ~running[w]
  /\ Stop(w)
  /\ UNCHANGED <<bidi, main, queue_status, q_index, qid, quiet, lag, pktVars,
                 bufVars, nicVars>>

\* The head of the loop: the next managed queue, and the clock is read.
NextQueue(w) ==
  /\ pc[w] = "loop"
  /\ running[w]
  /\ qid' = [qid EXCEPT ![w] = ManagedQueue(w, q_index[w])]
  /\ q_index' = [q_index EXCEPT ![w] = NextIndex(@)]
  /\ quiet' = [quiet EXCEPT ![w] = idle[w] > TerminationThreshold]
  /\ lag' = [lag EXCEPT ![w] = 0]
  /\ UNCHANGED <<bidi, main, queue_status, pktVars, bufVars, nicVars>>

NeverStartedIgnored(w) == FALSE
NeverStarted(w) == ~first_pkt[w] /\ idle[w] > WaitUntilExpBegins

\* No packet since the server was started: it gives up.
GiveUp(w) == NextQueue(w) /\ NeverStarted(w) /\ Stop(w)

\* The outcomes of queue_status[q] > current_time.  The array has
\* count_queues elements and is indexed by the queue's global number: beyond
\* its end the outcome is whatever the stack holds.
QueueBlockedIgnored(w, q) == {FALSE}
QueueBlocked(w, q) ==
  IF q < QueuePerCore THEN {queue_status[q] > 0} ELSE BOOLEAN

SkipQueue(w) ==
  /\ NextQueue(w)
  /\ ~NeverStarted(w)
  /\ TRUE \in QueueBlocked(w, ManagedQueue(w, q_index[w]))
  /\ UNCHANGED <<pc, running>>

SelectQueue(w) ==
  /\ NextQueue(w)
  /\ ~NeverStarted(w)
  /\ FALSE \in QueueBlocked(w, ManagedQueue(w, q_index[w]))
  /\ Goto(w, "rx")
  /\ UNCHANGED running

\* rte_eth_rx_burst returned packets
Poll(w) ==
  LET q == qid[w]
      n == Lesser(BURST_SIZE, Len(rxq[q]))
  IN /\ pc[w] = "rx"
     /\ n > 0
     /\ rx_bufs' = [rx_bufs EXCEPT ![w] = SubSeq(rxq[q], 1, n)]
     /\ rxq' = [rxq EXCEPT ![q] = SubSeq(@, n + 1, Len(@))]
     /\ nb_pkts_process' = [nb_pkts_process EXCEPT ![w] = 0]
     /\ Goto(w, "pkt")
     /\ UNCHANGED <<bidi, main, queue_status, loopVars, first_pkt, idle,
                    tx_buf, txq, wire, rx_free, tx_free, arrived>>

EmptyPoll(w) ==
  /\ pc[w] = "rx"
  /\ rxq[qid[w]] = <<>>
  /\ UNCHANGED <<bidi, main, queue_status, q_index, qid, quiet, lag, pktVars,
                 bufVars, nicVars>>

\* nothing received and the client has been silent for long: done
IdleStop(w) == EmptyPoll(w) /\ first_pkt[w] /\ quiet[w] /\ Stop(w)

KeepPolling(w) ==
  /\ EmptyPoll(w)
  /\ ~(first_pkt[w] /\ quiet[w])
  /\ Goto(w, "loop")
  /\ UNCHANGED running

-----------------------------------------------------------------------------
(* The for loop over the packets of a burst, one packet per step.           *)

HasPacket(w) == pc[w] = "pkt" /\ rx_bufs[w] # <<>>
Packet(w)    == Head(rx_bufs[w])
NextPacket(w) == rx_bufs' = [rx_bufs EXCEPT ![w] = Tail(@)]

FreeRx == rx_free' = rx_free + 1
KeepRx == UNCHANGED rx_free

\* rte_pktmbuf_free in the branches that discard a frame
FreeDiscarded == FreeRx

\* send_arp got an mbuf and the NIC took it; otherwise the mbuf, if there
\* was one, is freed again and the request stays unanswered
CanSendArp == tx_free > 0 /\ Len(txq[0]) < TX_RING

Discard(w) ==
  /\ HasPacket(w)
  /\ ~Valid(Packet(w))
  /\ ~(AnswersArp(Packet(w)) /\ CanSendArp)
  /\ NextPacket(w)
  /\ FreeDiscarded
  /\ UNCHANGED <<bidi, main, pc, queue_status, loopVars, pktVars, tx_buf, rxq,
                 txq, wire, tx_free, arrived>>

AnswerArp(w) ==
  /\ HasPacket(w)
  /\ AnswersArp(Packet(w))
  /\ CanSendArp
  /\ txq' = [txq EXCEPT ![0] = Append(@, ArpReply(Packet(w)))]
  /\ tx_free' = tx_free - 1
  /\ NextPacket(w)
  /\ FreeDiscarded
  /\ UNCHANGED <<bidi, main, pc, queue_status, loopVars, pktVars, tx_buf, rxq,
                 wire, arrived>>

\* last_pkt_time = current_time; first_pkt = 1; nb_pkts_process++
CountPacket(w) ==
  /\ first_pkt' = [first_pkt EXCEPT ![w] = TRUE]
  /\ idle' = [idle EXCEPT ![w] = lag[w]]
  /\ nb_pkts_process' = [nb_pkts_process EXCEPT ![w] = @ + 1]

ValidPacket(w) ==
  /\ HasPacket(w)
  /\ Valid(Packet(w))
  /\ CountPacket(w)

\* unidirectional mode: the packet is dropped once it is counted
Absorb(w) ==
  /\ ValidPacket(w)
  /\ ~bidi
  /\ NextPacket(w)
  /\ FreeRx
  /\ UNCHANGED <<bidi, main, pc, queue_status, loopVars, tx_buf, rxq, txq,
                 wire, tx_free, arrived>>

AddEcho(w) ==
  /\ ValidPacket(w)
  /\ bidi
  /\ Len(tx_buf[w]) < TX_BUF_LEN
  /\ tx_buf' = [tx_buf EXCEPT ![w] = Append(@, Echo(Packet(w)))]
  /\ NextPacket(w)
  /\ UNCHANGED <<bidi, main, pc, queue_status, loopVars, nicVars>>

\* The store tx_buf[k] goes past the end of the array: from here on the
\* behaviour of the worker is undefined, and the model ends it.
SmashEcho(w) ==
  /\ ValidPacket(w)
  /\ bidi
  /\ Len(tx_buf[w]) >= TX_BUF_LEN
  /\ Goto(w, "smashed")
  /\ UNCHANGED <<bidi, main, queue_status, loopVars, bufVars, nicVars>>

\* The product is computed in 32 bits.
ServiceTime(n) == (n * DelayCycles) % U32

EndBurst(w) ==
  /\ pc[w] = "pkt"
  /\ rx_bufs[w] = <<>>
  /\ \/ /\ ~bidi
        /\ Goto(w, "loop")
        /\ UNCHANGED queue_status
     \/ /\ bidi
        /\ Goto(w, "tx")
        /\ queue_status' =
             [queue_status EXCEPT ![qid[w]] = ServiceTime(nb_pkts_process[w])]
  /\ UNCHANGED <<bidi, main, loopVars, pktVars, bufVars, nicVars>>

\* rte_eth_tx_burst takes what fits in the ring
Taken(w) == Lesser(Len(tx_buf[w]), TX_RING - Len(txq[qid[w]]))

\* the packets that were not sent move to the front of tx_buf
UnsentNotMoved(buf, n) == SubSeq(buf, 1, Len(buf) - n)
Unsent(buf, n) == SubSeq(buf, n + 1, Len(buf))

TxBurst(w) ==
  /\ pc[w] = "tx"
  /\ Taken(w) > 0
  /\ txq' = [txq EXCEPT ![qid[w]] = @ \o SubSeq(tx_buf[w], 1, Taken(w))]
  /\ tx_buf' = [tx_buf EXCEPT ![w] = Unsent(@, Taken(w))]
  /\ UNCHANGED <<bidi, main, pc, queue_status, loopVars, pktVars, rx_bufs,
                 rxq, wire, rx_free, tx_free, arrived>>

FirstTryOnly(w) == TRUE
AllSent(w) == tx_buf[w] = <<>>

FinishTx(w) ==
  /\ pc[w] = "tx"
  /\ AllSent(w)
  /\ Goto(w, "loop")
  /\ UNCHANGED <<bidi, main, queue_status, loopVars, pktVars, bufVars,
                 nicVars>>

Worker(w) ==
  \/ LeaveLoop(w) \/ GiveUp(w) \/ SkipQueue(w) \/ SelectQueue(w)
  \/ Poll(w) \/ IdleStop(w) \/ KeepPolling(w)
  \/ Discard(w) \/ AnswerArp(w) \/ Absorb(w) \/ AddEcho(w) \/ SmashEcho(w)
  \/ EndBurst(w) \/ TxBurst(w) \/ FinishTx(w)

-----------------------------------------------------------------------------
(* main: when worker 0, which runs on the main core, returns, the others    *)
(* are asked to stop and waited for.                                        *)

MainStop ==
  /\ main = "serve"
  /\ pc[0] = "done"
  /\ main' = "joining"
  /\ running' = [w \in Workers |-> FALSE]
  /\ UNCHANGED <<bidi, pc, queue_status, q_index, qid, quiet, lag, pktVars,
                 bufVars, nicVars>>

MainExit ==
  /\ main = "joining"
  /\ \A w \in Workers : pc[w] = "done"
  /\ main' = "exit"
  /\ UNCHANGED <<bidi, pc, queue_status, loopVars, pktVars, bufVars, nicVars>>

-----------------------------------------------------------------------------
(* The NIC and the clock (external).                                        *)

Arrive(q, t) ==
  /\ main # "exit"
  /\ arrived < MaxPkts
  /\ arrived' = arrived + 1
  /\ IF Len(rxq[q]) < RX_RING /\ rx_free > 0
     THEN /\ rxq' = [rxq EXCEPT ![q] = Append(@, [t EXCEPT !.id = arrived + 1])]
          /\ rx_free' = rx_free - 1
     ELSE UNCHANGED <<rxq, rx_free>>      \* the NIC drops the frame
  /\ UNCHANGED <<bidi, main, pc, queue_status, loopVars, pktVars, bufVars,
                 txq, wire, tx_free>>

Transmit(q) ==
  /\ txq[q] # <<>>
  /\ txq' = [txq EXCEPT ![q] = Tail(@)]
  /\ wire' = [wire EXCEPT ![q] = Append(@, Head(txq[q]))]
  /\ IF IsArp(Head(txq[q]))
     THEN tx_free' = tx_free + 1 /\ UNCHANGED rx_free
     ELSE rx_free' = rx_free + 1 /\ UNCHANGED tx_free
  /\ UNCHANGED <<bidi, main, pc, queue_status, loopVars, pktVars, bufVars,
                 rxq, arrived>>

Tick ==
  /\ main # "exit"
  /\ idle' = [w \in Workers |-> Age(idle[w])]
  /\ lag' = [w \in Workers |-> Age(lag[w])]
  /\ queue_status' = [q \in Queues |->
                        IF queue_status[q] > 0 THEN queue_status[q] - 1 ELSE 0]
  /\ UNCHANGED <<bidi, main, pc, running, q_index, qid, quiet, first_pkt,
                 nb_pkts_process, bufVars, nicVars>>

-----------------------------------------------------------------------------
Init ==
  /\ bidi \in Bidi
  /\ main = "serve"
  /\ running = [w \in Workers |-> TRUE]
  /\ pc = [w \in Workers |-> "loop"]
  /\ q_index = [w \in Workers |-> 0]
  /\ qid = [w \in Workers |-> w * QueuePerCore]
  /\ first_pkt = [w \in Workers |-> FALSE]
  /\ idle = [w \in Workers |-> 0]
  /\ lag = [w \in Workers |-> 0]
  /\ quiet = [w \in Workers |-> FALSE]
  /\ rx_bufs = [w \in Workers |-> <<>>]
  /\ tx_buf = [w \in Workers |-> <<>>]
  /\ nb_pkts_process = [w \in Workers |-> 0]
  /\ queue_status = [q \in Queues |-> 0]
  /\ rxq = [q \in Queues |-> <<>>]
  /\ txq = [q \in Queues |-> <<>>]
  /\ wire = [q \in Queues |-> <<>>]
  /\ rx_free = NUM_MBUFS
  /\ tx_free = NUM_MBUFS
  /\ arrived = 0

Next ==
  \/ \E w \in Workers : Worker(w)
  \/ MainStop \/ MainExit
  \/ \E q \in Queues : Transmit(q) \/ \E t \in Traffic : Arrive(q, t)
  \/ Tick

Fairness ==
  /\ \A w \in Workers : WF_vars(Worker(w))
  /\ \A q \in Queues : WF_vars(Transmit(q))
  /\ WF_vars(MainStop) /\ WF_vars(MainExit)
  /\ WF_vars(Tick)

Spec == Init /\ [][Next]_vars

FairSpec == Spec /\ Fairness

-----------------------------------------------------------------------------
(* Properties                                                               *)

PCs == {"loop", "rx", "pkt", "tx", "done", "smashed"}

\* The values the state of the server, the rings and the pools may take.
TypeOK ==
  /\ bidi \in Bidi
  /\ main \in {"serve", "joining", "exit"}
  /\ running \in [Workers -> BOOLEAN]
  /\ pc \in [Workers -> PCs]
  /\ q_index \in [Workers -> 0..(QueuePerCore - 1)]
  /\ qid \in [Workers -> Queues]
  /\ first_pkt \in [Workers -> BOOLEAN]
  /\ idle \in [Workers -> 0..MaxAge]
  /\ lag \in [Workers -> 0..MaxAge]
  /\ quiet \in [Workers -> BOOLEAN]
  /\ rx_bufs \in [Workers -> Seq(Frame)]
  /\ tx_buf \in [Workers -> Seq(Frame)]
  /\ nb_pkts_process \in [Workers -> Nat]
  /\ queue_status \in [Queues -> Nat]
  /\ rxq \in [Queues -> Seq(Frame)]
  /\ txq \in [Queues -> Seq(Frame)]
  /\ wire \in [Queues -> Seq(Frame)]
  /\ rx_free \in Nat
  /\ tx_free \in Nat
  /\ arrived \in 0..MaxPkts

\* The queues of two workers never overlap (managed_queues, main.c): no ring
\* of the NIC is polled by two threads.
QueuesOwned ==
  \A v, w \in Workers : v # w => qid[v] # qid[w]

\* No store of do_server goes past the end of tx_buf (tx_buf[k] = buf).
EchoListFits == \A w \in Workers : pc[w] # "smashed"

\* A worker that is between two bursts, or has returned, holds no packet: what
\* a burst brought in has been freed or handed to the NIC (the while (k > 0)
\* loop of do_server).
HoldsNothing ==
  \A w \in Workers : pc[w] \in {"loop", "rx", "done"} =>
                       rx_bufs[w] = <<>> /\ tx_buf[w] = <<>>

\* A queue is polled only after the deadline its last burst set
\* (queue_status[qid] in do_server).
ServiceDeadline ==
  \A w \in Workers : pc[w] = "rx" => queue_status[qid[w]] = 0

\* The same for the queues whose number is inside the worker's array.
ServiceDeadlineInRange ==
  \A w \in Workers : pc[w] = "rx" /\ qid[w] < QueuePerCore
                         => queue_status[qid[w]] = 0

Row(w) == {w * QueuePerCore + j : j \in 0..(QueuePerCore - 1)}

OneReplyMore(ring, new) ==
  \E p \in {new[i] : i \in DOMAIN new} : p.type = "reply" /\ new = Append(ring, p)

\* A worker never touches the tx ring of a queue that another worker manages,
\* except that send_arp appends its answer to the ring of queue 0 (arp.c).
ForeignQueueOnlyArp ==
  [][\A w \in Workers, q \in Queues :
       Worker(w) /\ q \notin Row(w) =>
         txq'[q] = txq[q] \/ (q = 0 /\ OneReplyMore(txq[q], txq'[q]))]_vars

\* main returns only when every worker has returned (rte_eal_mp_wait_lcore),
\* so nobody uses the contexts and queues it frees.
ExitAfterWorkers ==
  main = "exit" => \A w \in Workers : pc[w] = "done" /\ ~running[w]
=============================================================================
