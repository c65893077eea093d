---------------------------- MODULE ServerProofs -----------------------------
(***************************************************************************)
(* Proofs about module Server, for every number of cores and of queues per *)
(* core, every burst, ring, list and pool size, and all traffic.           *)
(***************************************************************************)
EXTENDS Server, CommonLemmas, TLAPS

\* The assumption on the constants, one by one.
LEMMA ConstantTypes ==
  /\ NumCores \in Nat /\ NumCores > 0
  /\ QueuePerCore \in Nat /\ QueuePerCore > 0
  /\ BURST_SIZE \in Nat /\ BURST_SIZE > 0
  /\ TX_BUF_LEN \in Nat /\ RX_RING \in Nat /\ RX_RING > 0
  /\ TX_RING \in Nat /\ NUM_MBUFS \in Nat /\ U32 \in Nat /\ U32 > 0
  /\ WaitUntilExpBegins \in Nat /\ TerminationThreshold \in Nat
  /\ DelayCycles \in Nat /\ MaxPkts \in Nat
  BY ServerAssumption

-----------------------------------------------------------------------------
(* The queues of a worker.                                                  *)

\* The queues that main gives to worker w are queues of the NIC.
LEMMA ManagedQueueType ==
  ASSUME NEW w \in Workers, NEW j \in 0..(QueuePerCore - 1)
  PROVE  ManagedQueue(w, j) \in Queues
  BY ConstantTypes, IndexInRange DEF Workers, Queues, ManagedQueue

Owns(w, q) == \E j \in 0..(QueuePerCore - 1) : q = ManagedQueue(w, j)

\* No queue belongs to two workers.
LEMMA OwnersDiffer ==
  ASSUME NEW v \in Workers, NEW w \in Workers, v # w, NEW p, NEW q,
         Owns(v, p), Owns(w, q)
  PROVE  p # q
<1> USE ConstantTypes
<1>1. PICK i \in 0..(QueuePerCore - 1) : p = v * QueuePerCore + i
  BY DEF Owns, ManagedQueue
<1>2. PICK j \in 0..(QueuePerCore - 1) : q = w * QueuePerCore + j
  BY DEF Owns, ManagedQueue
<1>3. v \in Nat /\ w \in Nat
  BY DEF Workers
<1>4. v * QueuePerCore \in Nat /\ w * QueuePerCore \in Nat
  BY <1>3
<1>5. CASE v < w
  <2>1. p < q
    BY <1>1, <1>2, <1>3, <1>5, RowsDisjoint
  <2> QED
    BY <1>1, <1>2, <1>4, <2>1
<1>6. CASE w < v
  <2>1. q < p
    BY <1>1, <1>2, <1>3, <1>6, RowsDisjoint
  <2> QED
    BY <1>1, <1>2, <1>4, <2>1
<1> QED
  BY <1>3, <1>5, <1>6

-----------------------------------------------------------------------------
(* Type correctness.                                                        *)

\* What the server makes of a frame is a frame.
LEMMA FrameTypes ==
  ASSUME NEW p \in Frame
  PROVE  /\ Echo(p) \in Frame
         /\ ArpReply(p) \in Frame
         /\ \A i \in Nat : [p EXCEPT !.id = i] \in Frame
<1>1. /\ p.eth[1] \in Addr /\ p.eth[2] \in Addr
      /\ p.ip[1] \in Addr /\ p.ip[2] \in Addr
      /\ p.port[1] \in Addr /\ p.port[2] \in Addr
  BY DEF Frame
<1>2. Echo(p) \in Frame
  BY <1>1 DEF Frame, Echo, Flip
<1>3. ArpReply(p) \in Frame
  BY <1>1, ServerAssumption DEF Frame, ArpReply
<1>4. \A i \in Nat : [p EXCEPT !.id = i] \in Frame
  BY DEF Frame
<1> QED
  BY <1>2, <1>3, <1>4

\* What do_server and main set up has the right types.
LEMMA InitTypes == Init => TypeOK
<1> SUFFICES ASSUME Init PROVE TypeOK
  OBVIOUS
<1> USE ConstantTypes
<1>1. qid \in [Workers -> Queues]
  <2>1. \A w \in Workers : w * QueuePerCore \in Queues
    <3> TAKE w \in Workers
    <3>1. w * QueuePerCore + 0 \in Queues
      BY ManagedQueueType DEF ManagedQueue
    <3>2. w * QueuePerCore \in Nat
      BY DEF Workers
    <3> QED
      BY <3>1, <3>2
  <2> QED
    BY <2>1 DEF Init
<1>2. 0 \in 0..MaxAge
  BY DEF MaxAge
<1> QED
  BY <1>1, <1>2 DEF Init, TypeOK, PCs

\* A step of a worker up to its poll keeps the types.
LEMMA LoopTypes ==
  ASSUME TypeOK, NEW w \in Workers,
         \/ LeaveLoop(w) \/ GiveUp(w) \/ SkipQueue(w) \/ SelectQueue(w)
         \/ Poll(w) \/ IdleStop(w) \/ KeepPolling(w)
  PROVE  TypeOK'
<1> USE ConstantTypes DEF loopVars, pktVars, bufVars, nicVars, PCs
<1>1. CASE LeaveLoop(w)
  BY <1>1 DEF TypeOK, LeaveLoop, Stop, Goto
<1>2. ASSUME NextQueue(w), pc' \in [Workers -> PCs],
             running' \in [Workers -> BOOLEAN]
      PROVE  TypeOK'
  <2>1. NextIndex(q_index[w]) \in 0..(QueuePerCore - 1)
    BY DEF TypeOK, NextIndex
  <2>2. ManagedQueue(w, q_index[w]) \in Queues
    BY ManagedQueueType DEF TypeOK
  <2>3. /\ q_index' \in [Workers -> 0..(QueuePerCore - 1)]
        /\ qid' \in [Workers -> Queues]
    BY <1>2, <2>1, <2>2 DEF TypeOK, NextQueue
  <2>4. quiet' \in [Workers -> BOOLEAN]
    BY <1>2 DEF TypeOK, NextQueue
  <2>5. lag' \in [Workers -> 0..MaxAge]
    BY <1>2 DEF TypeOK, NextQueue, MaxAge
  <2> QED
    BY <1>2, <2>3, <2>4, <2>5 DEF TypeOK, NextQueue
<1>3. CASE GiveUp(w)
  BY <1>2, <1>3 DEF TypeOK, GiveUp, Stop, Goto
<1>4. CASE SkipQueue(w)
  BY <1>2, <1>4 DEF TypeOK, SkipQueue
<1>5. CASE SelectQueue(w)
  BY <1>2, <1>5 DEF TypeOK, SelectQueue, Goto
<1>6. CASE Poll(w)
  <2> DEFINE q == qid[w]
             n == Lesser(BURST_SIZE, Len(rxq[q]))
  <2>1. q \in Queues /\ rxq[q] \in Seq(Frame)
    BY DEF TypeOK
  <2>2. n \in Nat /\ n <= Len(rxq[q])
    BY <2>1 DEF Lesser
  <2>3. /\ SubSeq(rxq[q], 1, n) \in Seq(Frame)
        /\ SubSeq(rxq[q], n + 1, Len(rxq[q])) \in Seq(Frame)
    BY <2>1, <2>2, SubSeqType
  <2>4. rx_bufs' = [rx_bufs EXCEPT ![w] = SubSeq(rxq[q], 1, n)]
        /\ rxq' = [rxq EXCEPT ![q] = SubSeq(rxq[q], n + 1, Len(rxq[q]))]
    BY <1>6, <2>1 DEF Poll, TypeOK
  <2> HIDE DEF q, n
  <2>5. rx_bufs' \in [Workers -> Seq(Frame)] /\ rxq' \in [Queues -> Seq(Frame)]
    BY <2>1, <2>3, <2>4 DEF TypeOK
  <2> QED
    BY <1>6, <2>5 DEF TypeOK, Poll, Goto
<1>7. CASE IdleStop(w)
  BY <1>7 DEF TypeOK, IdleStop, EmptyPoll, Stop, Goto
<1>8. CASE KeepPolling(w)
  BY <1>8 DEF TypeOK, KeepPolling, EmptyPoll, Goto
<1> QED
  BY <1>1, <1>3, <1>4, <1>5, <1>6, <1>7, <1>8

\* So does a step over a packet of the burst.
LEMMA PacketTypes ==
  ASSUME TypeOK, NEW w \in Workers,
         \/ Discard(w) \/ AnswerArp(w) \/ Absorb(w) \/ AddEcho(w)
         \/ SmashEcho(w)
  PROVE  TypeOK'
<1> USE ConstantTypes DEF loopVars, pktVars, bufVars, nicVars, PCs
<1>1. Packet(w) \in Frame
  BY DEF TypeOK, HasPacket, Packet, Discard, AnswerArp, Absorb, AddEcho,
         SmashEcho, ValidPacket
<1>2. ASSUME NextPacket(w), rx_bufs[w] # <<>>
      PROVE  rx_bufs' \in [Workers -> Seq(Frame)]
  BY <1>2 DEF TypeOK, NextPacket
<1>3. ASSUME CountPacket(w)
      PROVE  /\ first_pkt' \in [Workers -> BOOLEAN]
             /\ idle' \in [Workers -> 0..MaxAge]
             /\ nb_pkts_process' \in [Workers -> Nat]
  BY <1>3 DEF TypeOK, CountPacket
<1>4. CASE Discard(w)
  <2>1. rx_bufs' \in [Workers -> Seq(Frame)]
    BY <1>2, <1>4 DEF Discard, HasPacket
  <2>2. rx_free' \in Nat
    BY <1>4 DEF TypeOK, Discard, FreeDiscarded, FreeRx
  <2>3. UNCHANGED <<bidi, main, pc, queue_status, running, q_index, qid, quiet,
                    lag, first_pkt, idle, nb_pkts_process, tx_buf, rxq, txq,
                    wire, tx_free, arrived>>
    BY <1>4 DEF Discard
  <2> QED
    BY <2>1, <2>2, <2>3 DEF TypeOK
<1>5. CASE AnswerArp(w)
  <2>1. 0 \in Queues
    <3>1. 0 \in Workers /\ 0 \in 0..(QueuePerCore - 1)
      BY DEF Workers
    <3>2. ManagedQueue(0, 0) = 0
      BY DEF ManagedQueue
    <3>3. ManagedQueue(0, 0) \in Queues
      BY <3>1, ManagedQueueType
    <3> QED
      BY <3>2, <3>3
  <2>2. txq' \in [Queues -> Seq(Frame)]
    <3>1. ArpReply(Packet(w)) \in Frame /\ txq[0] \in Seq(Frame)
      BY <1>1, <2>1, FrameTypes DEF TypeOK
    <3>2. Append(txq[0], ArpReply(Packet(w))) \in Seq(Frame)
      BY <3>1
    <3> QED
      BY <1>5, <2>1, <3>2 DEF TypeOK, AnswerArp
  <2>3. tx_free' \in Nat /\ rx_free' \in Nat
    BY <1>5 DEF TypeOK, AnswerArp, CanSendArp, FreeDiscarded, FreeRx
  <2> QED
    BY <1>2, <1>5, <2>2, <2>3 DEF TypeOK, AnswerArp, HasPacket
<1>6. CASE Absorb(w)
  <2>1. rx_free' \in Nat
    BY <1>6 DEF TypeOK, Absorb, FreeRx
  <2>2. rx_bufs' \in [Workers -> Seq(Frame)]
    BY <1>2, <1>6 DEF Absorb, ValidPacket, HasPacket
  <2>3. CountPacket(w)
    BY <1>6 DEF Absorb, ValidPacket
  <2> QED
    BY <1>3, <1>6, <2>1, <2>2, <2>3 DEF TypeOK, Absorb
<1>7. CASE AddEcho(w)
  <2>1. tx_buf' \in [Workers -> Seq(Frame)]
    <3>1. Echo(Packet(w)) \in Frame /\ tx_buf[w] \in Seq(Frame)
      BY <1>1, FrameTypes DEF TypeOK
    <3>2. Append(tx_buf[w], Echo(Packet(w))) \in Seq(Frame)
      BY <3>1
    <3> QED
      BY <1>7, <3>2 DEF TypeOK, AddEcho
  <2> QED
    BY <1>2, <1>3, <1>7, <2>1 DEF TypeOK, AddEcho, ValidPacket, HasPacket
<1>8. CASE SmashEcho(w)
  BY <1>3, <1>8 DEF TypeOK, SmashEcho, ValidPacket, Goto
<1> QED
  BY <1>4, <1>5, <1>6, <1>7, <1>8

\* So does a step after the packets of the burst.
LEMMA SendTypes ==
  ASSUME TypeOK, NEW w \in Workers, EndBurst(w) \/ TxBurst(w) \/ FinishTx(w)
  PROVE  TypeOK'
<1> USE ConstantTypes DEF loopVars, pktVars, bufVars, nicVars, PCs
<1>1. CASE EndBurst(w)
  <2>1. ServiceTime(nb_pkts_process[w]) \in Nat
    <3>1. nb_pkts_process[w] * DelayCycles \in Nat
      BY DEF TypeOK
    <3> QED
      BY <3>1 DEF ServiceTime
  <2>2. pc' \in [Workers -> PCs]
    BY <1>1, ZenonT(60) DEF TypeOK, EndBurst, Goto
  <2>3. \/ queue_status' = queue_status
        \/ queue_status' = [queue_status EXCEPT
                              ![qid[w]] = ServiceTime(nb_pkts_process[w])]
    BY <1>1 DEF EndBurst
  <2>4. queue_status' \in [Queues -> Nat]
    BY <2>1, <2>3 DEF TypeOK
  <2> QED
    BY <1>1, <2>2, <2>4 DEF TypeOK, EndBurst
<1>2. CASE TxBurst(w)
  <2>1. qid[w] \in Queues /\ txq[qid[w]] \in Seq(Frame) /\ tx_buf[w] \in Seq(Frame)
    BY DEF TypeOK
  <2>2. Taken(w) \in Nat /\ Taken(w) <= Len(tx_buf[w])
    BY <1>2, <2>1 DEF Taken, Lesser, TxBurst
  <2>3. /\ SubSeq(tx_buf[w], 1, Taken(w)) \in Seq(Frame)
        /\ Unsent(tx_buf[w], Taken(w)) \in Seq(Frame)
    BY <2>1, <2>2, SubSeqType DEF Unsent
  <2>4. txq[qid[w]] \o SubSeq(tx_buf[w], 1, Taken(w)) \in Seq(Frame)
    BY <2>1, <2>3
  <2>5. txq' \in [Queues -> Seq(Frame)] /\ tx_buf' \in [Workers -> Seq(Frame)]
    BY <1>2, <2>1, <2>3, <2>4 DEF TypeOK, TxBurst
  <2> QED
    BY <1>2, <2>5 DEF TypeOK, TxBurst
<1>3. CASE FinishTx(w)
  BY <1>3 DEF TypeOK, FinishTx, Goto
<1> QED
  BY <1>1, <1>2, <1>3

\* So do main, the NIC and the clock.
LEMMA EnvironmentTypes ==
  ASSUME TypeOK,
         \/ MainStop \/ MainExit \/ Tick
         \/ \E q \in Queues : Transmit(q) \/ \E t \in Traffic : Arrive(q, t)
  PROVE  TypeOK'
<1> USE ConstantTypes DEF loopVars, pktVars, bufVars, nicVars, PCs
<1>1. CASE MainStop
  BY <1>1 DEF TypeOK, MainStop
<1>2. CASE MainExit
  BY <1>2 DEF TypeOK, MainExit
<1>3. CASE Tick
  <2>1. \A a \in 0..MaxAge : Age(a) \in 0..MaxAge
    BY DEF MaxAge, Age, Lesser
  <2>2. idle' \in [Workers -> 0..MaxAge] /\ lag' \in [Workers -> 0..MaxAge]
    BY <1>3, <2>1 DEF TypeOK, Tick
  <2>3. queue_status' \in [Queues -> Nat]
    BY <1>3 DEF TypeOK, Tick
  <2> QED
    BY <1>3, <2>2, <2>3 DEF TypeOK, Tick
<1>4. ASSUME NEW q \in Queues, Transmit(q)
      PROVE  TypeOK'
  <2>1. Head(txq[q]) \in Frame /\ Tail(txq[q]) \in Seq(Frame)
    BY <1>4 DEF TypeOK, Transmit
  <2>2. txq' \in [Queues -> Seq(Frame)] /\ wire' \in [Queues -> Seq(Frame)]
    BY <1>4, <2>1 DEF TypeOK, Transmit
  <2>3. rx_free' \in Nat /\ tx_free' \in Nat
    BY <1>4 DEF TypeOK, Transmit
  <2> QED
    BY <1>4, <2>2, <2>3 DEF TypeOK, Transmit
<1>5. ASSUME NEW q \in Queues, NEW t \in Traffic, Arrive(q, t)
      PROVE  TypeOK'
  <2>1. [t EXCEPT !.id = arrived + 1] \in Frame
    <3>1. t \in Frame
      BY ServerAssumption
    <3>2. arrived + 1 \in Nat
      BY DEF TypeOK
    <3> QED
      BY <3>1, <3>2, FrameTypes
  <2>2. rxq' \in [Queues -> Seq(Frame)] /\ rx_free' \in Nat
    <3> DEFINE f == [t EXCEPT !.id = arrived + 1]
    <3>1. Append(rxq[q], f) \in Seq(Frame)
      <4>1. f \in Frame /\ rxq[q] \in Seq(Frame)
        BY <2>1 DEF TypeOK
      <4> HIDE DEF f
      <4> QED
        BY <4>1
    <3>2. \/ rxq' = [rxq EXCEPT ![q] = Append(rxq[q], f)]
             /\ rx_free > 0 /\ rx_free' = rx_free - 1
          \/ rxq' = rxq /\ rx_free' = rx_free
      BY <1>5 DEF Arrive
    <3> HIDE DEF f
    <3>3. rxq' \in [Queues -> Seq(Frame)]
      BY <3>1, <3>2 DEF TypeOK
    <3>4. rx_free' \in Nat
      BY <3>2 DEF TypeOK
    <3> QED
      BY <3>3, <3>4
  <2>3. arrived' \in 0..MaxPkts
    BY <1>5 DEF TypeOK, Arrive
  <2> QED
    BY <1>5, <2>2, <2>3 DEF TypeOK, Arrive
<1> QED
  BY <1>1, <1>2, <1>3, <1>4, <1>5

\* TypeOK is inductive.
LEMMA NextTypes == TypeOK /\ [Next]_vars => TypeOK'
<1> SUFFICES ASSUME TypeOK, [Next]_vars PROVE TypeOK'
  OBVIOUS
<1>1. CASE UNCHANGED vars
  BY <1>1 DEF TypeOK, vars, loopVars, pktVars, bufVars, nicVars
<1> QED
  BY <1>1, LoopTypes, PacketTypes, SendTypes, EnvironmentTypes
     DEF Next, Worker

\* Every index of do_server stays in range, its rings and lists hold frames,
\* and no pool is overdrawn, in every reachable state.
THEOREM TypeCorrect == Spec => []TypeOK
  BY InitTypes, NextTypes, PTL DEF Spec

-----------------------------------------------------------------------------
(* Who polls which queue, and when.                                         *)

OwnInv == \A w \in Workers : Owns(w, qid[w])

\* A worker is always at one of its own queues.
LEMMA OwnStep == TypeOK /\ OwnInv /\ [Next]_vars => OwnInv'
<1> SUFFICES ASSUME TypeOK, OwnInv, [Next]_vars PROVE OwnInv'
  OBVIOUS
<1> USE DEF loopVars, pktVars, bufVars, nicVars
<1>1. CASE UNCHANGED qid
  BY <1>1 DEF OwnInv
<1>2. ASSUME NEW w \in Workers, NextQueue(w)
      PROVE  OwnInv'
  <2>1. qid' = [qid EXCEPT ![w] = ManagedQueue(w, q_index[w])]
    BY <1>2 DEF NextQueue
  <2>2. Owns(w, ManagedQueue(w, q_index[w]))
    BY DEF Owns, TypeOK
  <2>3. \A v \in Workers : qid'[v] = IF v = w THEN ManagedQueue(w, q_index[w])
                                              ELSE qid[v]
    BY <2>1 DEF TypeOK
  <2> QED
    BY <2>2, <2>3 DEF OwnInv
<1>3. ASSUME NEW w \in Workers, Worker(w)
      PROVE  UNCHANGED qid \/ NextQueue(w)
  BY <1>3 DEF Worker, LeaveLoop, GiveUp, SkipQueue, SelectQueue, Poll,
              IdleStop, KeepPolling, EmptyPoll, Discard, AnswerArp, Absorb,
              AddEcho, SmashEcho, EndBurst, TxBurst, FinishTx
<1>4. CASE \/ MainStop \/ MainExit \/ Tick
           \/ \E q \in Queues : Transmit(q) \/ \E t \in Traffic : Arrive(q, t)
  BY <1>1, <1>4 DEF MainStop, MainExit, Tick, Transmit, Arrive
<1>5. CASE UNCHANGED vars
  BY <1>1, <1>5 DEF vars
<1> QED
  BY <1>1, <1>2, <1>3, <1>4, <1>5 DEF Next

\* Every worker starts at its first queue.
LEMMA OwnInit == Init => OwnInv
<1> SUFFICES ASSUME Init, NEW w \in Workers PROVE Owns(w, qid[w])
  BY DEF OwnInv
<1>1. w * QueuePerCore + 0 = w * QueuePerCore /\ 0 \in 0..(QueuePerCore - 1)
  BY ConstantTypes DEF Workers
<1>2. qid[w] = ManagedQueue(w, 0)
  BY <1>1 DEF Init, ManagedQueue
<1> QED
  BY <1>1, <1>2 DEF Owns

\* Two workers at queues of their own are at different queues.
LEMMA OwnDisjoint == OwnInv => QueuesOwned
  BY OwnersDiffer DEF OwnInv, QueuesOwned

\* For every number of cores and queues, no rx or tx ring that a worker selects
\* in its loop is ever selected by two workers at once.
THEOREM QueuesOwnedHolds == Spec => []QueuesOwned
  BY OwnInit, OwnStep, OwnDisjoint, InitTypes, NextTypes, PTL DEF Spec

\* A worker's echoes go to the queue it is at, and its ARP answers to queue 0.
LEMMA TxStep ==
  ASSUME TypeOK, OwnInv, NEW w \in Workers, NEW q \in Queues, Worker(w),
         q \notin Row(w)
  PROVE  txq'[q] = txq[q] \/ (q = 0 /\ OneReplyMore(txq[q], txq'[q]))
<1> USE DEF nicVars
<1>1. CASE AnswerArp(w)
  <2> DEFINE p == ArpReply(Packet(w))
  <2>1. txq \in [Queues -> Seq(Frame)] /\ p \in Frame /\ p.type = "reply"
    <3>1. Packet(w) \in Frame
      BY <1>1 DEF AnswerArp, HasPacket, Packet, TypeOK
    <3> QED
      BY <3>1, FrameTypes, ZenonT(60) DEF TypeOK, ArpReply, Frame
  <2>2. txq' = [txq EXCEPT ![0] = Append(txq[0], p)]
    BY <1>1 DEF AnswerArp
  <2>3. CASE q # 0
    BY <2>1, <2>2, <2>3
  <2>4. CASE q = 0
    <3>1. txq'[0] = Append(txq[0], p) /\ txq[0] \in Seq(Frame)
      BY <2>1, <2>2, <2>4
    <3>2. /\ Len(txq[0]) + 1 \in DOMAIN Append(txq[0], p)
          /\ Append(txq[0], p)[Len(txq[0]) + 1] = p
      BY <2>1, <3>1
    <3>3. OneReplyMore(txq[0], txq'[0])
      BY <2>1, <3>1, <3>2 DEF OneReplyMore
    <3> QED
      BY <2>4, <3>3
  <2> QED
    BY <2>3, <2>4
<1>2. CASE TxBurst(w)
  <2>1. q # qid[w]
    BY DEF OwnInv, Owns, Row, ManagedQueue
  <2>2. \E x : txq' = [txq EXCEPT ![qid[w]] = x]
    BY <1>2 DEF TxBurst
  <2> QED
    BY <2>1, <2>2 DEF TypeOK
<1>3. CASE \/ LeaveLoop(w) \/ GiveUp(w) \/ SkipQueue(w) \/ SelectQueue(w)
           \/ Poll(w) \/ IdleStop(w) \/ KeepPolling(w) \/ Discard(w) \/ Absorb(w)
           \/ AddEcho(w) \/ SmashEcho(w) \/ EndBurst(w) \/ FinishTx(w)
  BY <1>3 DEF LeaveLoop, GiveUp, SkipQueue, SelectQueue, NextQueue, Poll,
              IdleStop, KeepPolling, EmptyPoll, Discard, Absorb, AddEcho,
              SmashEcho, EndBurst, FinishTx
<1> QED
  BY <1>1, <1>2, <1>3 DEF Worker

\* For every number of cores and queues, the only thing a worker ever puts into
\* the tx ring of another worker is an ARP answer, and that into queue 0.
THEOREM ForeignQueueHolds == Spec => ForeignQueueOnlyArp
<1>1. TypeOK /\ OwnInv =>
        [\A w \in Workers, q \in Queues : Worker(w) /\ q \notin Row(w) =>
           txq'[q] = txq[q] \/ (q = 0 /\ OneReplyMore(txq[q], txq'[q]))]_vars
  BY TxStep
<1> QED
  BY <1>1, OwnInit, OwnStep, InitTypes, NextTypes, PTL
  DEF Spec, ForeignQueueOnlyArp

\* Only the end of a burst and the clock touch queue_status, and the one worker
\* at a queue that has been selected has not ended its burst yet.
LEMMA DeadlineStep ==
  TypeOK /\ OwnInv /\ ServiceDeadlineInRange /\ [Next]_vars
    => ServiceDeadlineInRange'
<1> SUFFICES ASSUME TypeOK, OwnInv, ServiceDeadlineInRange, [Next]_vars,
                    NEW w \in Workers, pc'[w] = "rx", qid'[w] < QueuePerCore
             PROVE  queue_status'[qid'[w]] = 0
  BY DEF ServiceDeadlineInRange
<1> USE ConstantTypes DEF loopVars, pktVars, bufVars, nicVars
<1>1. ASSUME pc'[w] = pc[w], qid'[w] = qid[w],
             queue_status'[qid[w]] = queue_status[qid[w]]
      PROVE  queue_status'[qid'[w]] = 0
  BY <1>1 DEF ServiceDeadlineInRange
<1>2. CASE SelectQueue(w)
  <2>1. /\ qid'[w] = ManagedQueue(w, q_index[w])
        /\ queue_status' = queue_status
        /\ FALSE \in QueueBlocked(w, ManagedQueue(w, q_index[w]))
    BY <1>2 DEF SelectQueue, NextQueue, TypeOK
  <2>2. ManagedQueue(w, q_index[w]) \in Queues
    BY ManagedQueueType DEF TypeOK
  <2>3. ~(queue_status[qid'[w]] > 0)
    BY <2>1 DEF QueueBlocked
  <2>4. queue_status[qid'[w]] \in Nat
    BY <2>1, <2>2 DEF TypeOK
  <2> QED
    BY <2>1, <2>3, <2>4
<1>3. CASE \/ LeaveLoop(w) \/ GiveUp(w) \/ SkipQueue(w) \/ Poll(w)
           \/ IdleStop(w) \/ KeepPolling(w) \/ Discard(w) \/ AnswerArp(w)
           \/ Absorb(w) \/ AddEcho(w) \/ SmashEcho(w) \/ EndBurst(w)
           \/ TxBurst(w) \/ FinishTx(w)
  BY <1>3 DEF LeaveLoop, GiveUp, SkipQueue, NextQueue, Poll, IdleStop,
              KeepPolling, EmptyPoll, Discard, AnswerArp, Absorb, AddEcho,
              SmashEcho, ValidPacket, HasPacket, EndBurst, TxBurst, FinishTx,
              Stop, Goto, TypeOK
<1>4. ASSUME NEW v \in Workers, v # w, Worker(v)
      PROVE  queue_status'[qid'[w]] = 0
  <2>1. pc'[w] = pc[w] /\ qid'[w] = qid[w]
    BY <1>4 DEF Worker, LeaveLoop, GiveUp, SkipQueue, SelectQueue, NextQueue,
                Poll, IdleStop, KeepPolling, EmptyPoll, Discard, AnswerArp,
                Absorb, AddEcho, SmashEcho, EndBurst, TxBurst, FinishTx, Stop,
                Goto, TypeOK
  <2>2. \/ queue_status' = queue_status
        \/ \E n : queue_status' = [queue_status EXCEPT ![qid[v]] = n]
    BY <1>4 DEF Worker, LeaveLoop, GiveUp, SkipQueue, SelectQueue, NextQueue,
                Poll, IdleStop, KeepPolling, EmptyPoll, Discard, AnswerArp,
                Absorb, AddEcho, SmashEcho, EndBurst, TxBurst, FinishTx
  <2>3. qid[v] # qid[w]
    BY <1>4, OwnDisjoint DEF QueuesOwned
  <2>4. queue_status'[qid[w]] = queue_status[qid[w]]
    BY <2>2, <2>3 DEF TypeOK
  <2> QED
    BY <1>1, <2>1, <2>4
<1>5. CASE Tick
  <2>1. pc'[w] = pc[w] /\ qid'[w] = qid[w]
    BY <1>5 DEF Tick
  <2>2. queue_status[qid[w]] = 0
    BY <2>1 DEF ServiceDeadlineInRange
  <2>3. queue_status'[qid[w]] = 0
    BY <1>5, <2>2 DEF Tick, TypeOK
  <2> QED
    BY <2>1, <2>3
<1>6. CASE \/ MainStop \/ MainExit
           \/ \E q \in Queues : Transmit(q) \/ \E t \in Traffic : Arrive(q, t)
  BY <1>1, <1>6 DEF MainStop, MainExit, Transmit, Arrive
<1>7. CASE UNCHANGED vars
  BY <1>1, <1>7 DEF vars
<1> QED
  BY <1>2, <1>3, <1>4, <1>5, <1>6, <1>7 DEF Next, Worker

\* A queue inside the worker's array is never polled before its deadline, for
\* every service time, also one that has wrapped in 32 bits.
THEOREM DeadlineHolds == Spec => []ServiceDeadlineInRange
<1>1. Init => ServiceDeadlineInRange
  BY DEF Init, ServiceDeadlineInRange
<1> QED
  BY <1>1, DeadlineStep, OwnInit, OwnStep, InitTypes, NextTypes, PTL DEF Spec

-----------------------------------------------------------------------------
(* What a worker holds between its bursts.                                  *)

HoldInv ==
  \A w \in Workers :
    /\ pc[w] \in {"loop", "rx", "done"} => rx_bufs[w] = <<>> /\ tx_buf[w] = <<>>
    /\ pc[w] = "tx" => rx_bufs[w] = <<>>
    /\ ~bidi => tx_buf[w] = <<>>

\* A burst is worked off completely before the worker looks at the next queue
\* or at cntx->running.
LEMMA HoldStep == TypeOK /\ HoldInv /\ [Next]_vars => HoldInv'
<1> SUFFICES ASSUME TypeOK, HoldInv, [Next]_vars PROVE HoldInv'
  OBVIOUS
<1> USE DEF loopVars, pktVars, bufVars, nicVars
<1>1. CASE UNCHANGED <<bidi, pc, rx_bufs, tx_buf>>
  BY <1>1 DEF HoldInv
<1>2. ASSUME NEW w \in Workers, Worker(w)
      PROVE  HoldInv'
  <2>1. CASE LeaveLoop(w) \/ GiveUp(w) \/ SkipQueue(w) \/ SelectQueue(w)
             \/ IdleStop(w) \/ KeepPolling(w) \/ FinishTx(w)
    <3>1. UNCHANGED <<bidi, rx_bufs, tx_buf>>
      BY <2>1 DEF LeaveLoop, GiveUp, SkipQueue, SelectQueue, NextQueue,
                  IdleStop, KeepPolling, EmptyPoll, FinishTx
    <3>2. \/ pc' = pc
          \/ \E l \in {"loop", "rx", "done"} : pc' = [pc EXCEPT ![w] = l]
      BY <2>1 DEF LeaveLoop, GiveUp, SkipQueue, SelectQueue, IdleStop,
                  KeepPolling, FinishTx, Stop, Goto
    <3>3. rx_bufs[w] = <<>> /\ tx_buf[w] = <<>>
      BY <2>1 DEF HoldInv, LeaveLoop, GiveUp, SkipQueue, SelectQueue,
                  NextQueue, IdleStop, KeepPolling, EmptyPoll, FinishTx, AllSent
    <3>4. \A v \in Workers : v # w => pc'[v] = pc[v]
      BY <3>2 DEF TypeOK
    <3> QED
      BY <3>1, <3>3, <3>4 DEF HoldInv
  <2>2. CASE Poll(w)
    BY <2>2 DEF HoldInv, Poll, Goto, TypeOK
  <2>3. CASE Discard(w) \/ AnswerArp(w) \/ Absorb(w) \/ SmashEcho(w)
    <3>1. UNCHANGED <<bidi, tx_buf>>
      BY <2>3 DEF Discard, AnswerArp, Absorb, SmashEcho
    <3>2. /\ pc[w] = "pkt"
          /\ pc' = pc \/ pc' = [pc EXCEPT ![w] = "smashed"]
      BY <2>3 DEF Discard, AnswerArp, Absorb, SmashEcho, ValidPacket, HasPacket,
                  Goto
    <3>3. rx_bufs' = rx_bufs \/ rx_bufs' = [rx_bufs EXCEPT ![w] = Tail(@)]
      BY <2>3 DEF Discard, AnswerArp, Absorb, SmashEcho, NextPacket
    <3>4. \A v \in Workers : v # w => pc'[v] = pc[v] /\ rx_bufs'[v] = rx_bufs[v]
      BY <3>2, <3>3 DEF TypeOK
    <3>5. pc'[w] \in {"pkt", "smashed"}
      BY <3>2 DEF TypeOK
    <3> QED
      BY <3>1, <3>4, <3>5 DEF HoldInv
  <2>4. CASE AddEcho(w)
    BY <2>4 DEF HoldInv, AddEcho, ValidPacket, HasPacket, NextPacket, TypeOK
  <2>5. CASE EndBurst(w)
    BY <2>5 DEF HoldInv, EndBurst, Goto, TypeOK
  <2>6. CASE TxBurst(w)
    <3>1. bidi
      BY <2>6 DEF HoldInv, TxBurst, Taken, Lesser, TypeOK
    <3> QED
      BY <2>6, <3>1 DEF HoldInv, TxBurst, TypeOK
  <2> QED
    BY <1>2, <2>1, <2>2, <2>3, <2>4, <2>5, <2>6 DEF Worker
<1>3. CASE \/ MainStop \/ MainExit \/ Tick
           \/ \E q \in Queues : Transmit(q) \/ \E t \in Traffic : Arrive(q, t)
  BY <1>1, <1>3 DEF MainStop, MainExit, Tick, Transmit, Arrive
<1>4. CASE UNCHANGED vars
  BY <1>1, <1>4 DEF vars
<1> QED
  BY <1>2, <1>3, <1>4 DEF Next

\* No received packet is held back, or overwritten, by a worker that goes to
\* its next queue or returns, whatever the NIC accepts of each transmission.
THEOREM HoldsNothingHolds == Spec => []HoldsNothing
<1>1. Init => HoldInv
  BY DEF Init, HoldInv
<1>2. HoldInv => HoldsNothing
  BY DEF HoldInv, HoldsNothing
<1> QED
  BY <1>1, <1>2, HoldStep, InitTypes, NextTypes, PTL DEF Spec

-----------------------------------------------------------------------------
(* main and its workers.                                                    *)

ExitInv ==
  /\ \A w \in Workers : pc[w] = "done" => ~running[w]
  /\ main = "exit" => \A w \in Workers : pc[w] = "done"

\* A worker that has returned does not start again, and its flag stays cleared.
LEMMA ExitStep == TypeOK /\ ExitInv /\ [Next]_vars => ExitInv'
<1> SUFFICES ASSUME TypeOK, ExitInv, [Next]_vars PROVE ExitInv'
  OBVIOUS
<1> USE DEF ExitInv, loopVars, pktVars, bufVars, nicVars
<1>1. CASE UNCHANGED <<main, pc, running>>
  BY <1>1
<1>2. ASSUME NEW w \in Workers, Worker(w)
      PROVE  ExitInv'
  <2>1. pc[w] # "done" /\ main' = main
    BY <1>2 DEF Worker, LeaveLoop, GiveUp, SkipQueue, SelectQueue, NextQueue,
                Poll, IdleStop, KeepPolling, EmptyPoll, Discard, AnswerArp,
                Absorb, AddEcho, SmashEcho, ValidPacket, HasPacket, EndBurst,
                TxBurst, FinishTx
  <2>2. \/ Stop(w)
        \/ /\ running' = running
           /\ \/ pc' = pc
              \/ \E l : l # "done" /\ Goto(w, l)
    BY <1>2 DEF Worker, LeaveLoop, GiveUp, SkipQueue, SelectQueue, NextQueue,
                Poll, IdleStop, KeepPolling, EmptyPoll, Discard, AnswerArp,
                Absorb, AddEcho, SmashEcho, EndBurst, TxBurst, FinishTx
  <2> QED
    BY <2>1, <2>2 DEF Stop, Goto, TypeOK
<1>3. CASE MainStop
  BY <1>3 DEF MainStop
<1>4. CASE MainExit
  BY <1>4 DEF MainExit
<1>5. CASE \/ Tick
           \/ \E q \in Queues : Transmit(q) \/ \E t \in Traffic : Arrive(q, t)
  BY <1>1, <1>5 DEF Tick, Transmit, Arrive
<1>6. CASE UNCHANGED vars
  BY <1>1, <1>6 DEF vars
<1> QED
  BY <1>2, <1>3, <1>4, <1>5, <1>6 DEF Next

\* main frees managed_queues and the output buffers only when no worker, on
\* however many cores, can use them any more.
THEOREM ExitHolds == Spec => []ExitAfterWorkers
<1>1. Init => ExitInv
  BY DEF Init, ExitInv
<1>2. ExitInv => ExitAfterWorkers
  BY DEF ExitInv, ExitAfterWorkers
<1> QED
  BY <1>1, <1>2, ExitStep, InitTypes, NextTypes, PTL DEF Spec
==============================================================================
