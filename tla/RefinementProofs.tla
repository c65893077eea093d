-------------------------- MODULE RefinementProofs ---------------------------
(***************************************************************************)
(* Proofs about module ServerRefinement: no mbuf is lost or freed twice,   *)
(* and do_server implements the echo service, for every number of cores,   *)
(* queues, buffers and mbufs, and all traffic.                             *)
(***************************************************************************)
EXTENDS ServerRefinement, ServerProofs

\* A frame is an echo, or an ARP frame.
LEMMA EchoedOrArp ==
  ASSUME NEW p \in Frame
  PROVE  /\ p \in Echoed <=> ~IsArp(p)
         /\ Valid(p) => ~IsArp(p) /\ ~IsArp(Echo(p))
         /\ ArpReply(p) \notin Echoed
         /\ AnswersArp(p) => ~Valid(p)
<1>1. Echo(p).type = p.type /\ ArpReply(p).type = "reply"
  BY DEF Frame, Echo, ArpReply
<1> QED
  BY <1>1 DEF Echoed, IsArp, Valid, AnswersArp

\* What the worker has in tx_buf are echoes.
EchoInv == \A w \in Workers : tx_buf[w] \in Seq(Echoed)

\* The step of a worker that the packet in its hands decides.
LEMMA PacketFrame ==
  ASSUME TypeOK, NEW w \in Workers, HasPacket(w)
  PROVE  /\ rx_bufs[w] \in Seq(Frame) /\ rx_bufs[w] # <<>>
         /\ Packet(w) = Head(rx_bufs[w]) /\ Packet(w) \in Frame
  BY DEF TypeOK, HasPacket, Packet

\* Only AddEcho and TxBurst change a list of echoes.
LEMMA EchoStep == TypeOK /\ EchoInv /\ [Next]_vars => EchoInv'
<1> SUFFICES ASSUME TypeOK, EchoInv, [Next]_vars PROVE EchoInv'
  OBVIOUS
<1> USE DEF loopVars, pktVars, bufVars, nicVars
<1>1. CASE UNCHANGED tx_buf
  BY <1>1 DEF EchoInv
<1>2. ASSUME NEW w \in Workers, NEW s \in Seq(Echoed),
             tx_buf' = [tx_buf EXCEPT ![w] = s]
      PROVE  EchoInv'
  BY <1>2 DEF EchoInv, TypeOK
<1>3. ASSUME NEW w \in Workers, AddEcho(w)
      PROVE  EchoInv'
  <2>1. Packet(w) \in Frame /\ Valid(Packet(w))
    BY <1>3, PacketFrame DEF AddEcho, ValidPacket
  <2>2. Echo(Packet(w)) \in Echoed
    BY <2>1, FrameTypes, EchoedOrArp
  <2>3. Append(tx_buf[w], Echo(Packet(w))) \in Seq(Echoed)
    BY <2>2 DEF EchoInv
  <2> QED
    BY <1>2, <1>3, <2>3 DEF AddEcho
<1>4. ASSUME NEW w \in Workers, TxBurst(w)
      PROVE  EchoInv'
  <2>1. tx_buf[w] \in Seq(Echoed) /\ Len(tx_buf[w]) \in Nat
    BY DEF EchoInv
  <2>2. Taken(w) \in Int /\ Taken(w) > 0 /\ Taken(w) <= Len(tx_buf[w])
    BY <1>4, <2>1, ConstantTypes DEF TxBurst, Taken, Lesser, TypeOK
  <2>3. Unsent(tx_buf[w], Taken(w)) \in Seq(Echoed)
    BY <2>1, <2>2, Cut DEF Unsent
  <2> QED
    BY <1>2, <1>4, <2>3 DEF TxBurst
<1>5. ASSUME NEW w \in Workers, Worker(w), ~AddEcho(w), ~TxBurst(w)
      PROVE  UNCHANGED tx_buf
  BY <1>5 DEF Worker, LeaveLoop, GiveUp, SkipQueue, SelectQueue, NextQueue,
              Poll, IdleStop, KeepPolling, EmptyPoll, Discard, AnswerArp,
              Absorb, SmashEcho, EndBurst, FinishTx
<1>6. CASE \/ MainStop \/ MainExit \/ Tick
           \/ \E q \in Queues : Transmit(q) \/ \E t \in Traffic : Arrive(q, t)
  BY <1>1, <1>6 DEF MainStop, MainExit, Tick, Transmit, Arrive
<1>7. CASE UNCHANGED vars
  BY <1>1, <1>7 DEF vars
<1> QED
  BY <1>1, <1>3, <1>4, <1>5, <1>6, <1>7 DEF Next

\* No worker has anything to send in the beginning.
LEMMA EchoInit == Init => EchoInv
  BY DEF Init, EchoInv

-----------------------------------------------------------------------------
(* The mbufs.                                                               *)

RxRings == SumFunction([q \in Queues |-> RxInRings(q)])
RxHands == SumFunction([w \in Workers |-> RxInHands(w)])
TxRings == SumFunction([q \in Queues |-> TxInRings(q)])

\* The sums of Conservation have numbers to add up.
LEMMA SumTypes ==
  ASSUME TypeOK
  PROVE  /\ [q \in Queues |-> RxInRings(q)] \in [Queues -> Int]
         /\ [q \in Queues |-> TxInRings(q)] \in [Queues -> Int]
         /\ [w \in Workers |-> RxInHands(w)] \in [Workers -> Int]
         /\ RxRings \in Int /\ TxRings \in Int /\ RxHands \in Int
         /\ rx_free \in Nat /\ tx_free \in Nat
         /\ IsFiniteSet(Queues) /\ IsFiniteSet(Workers)
<1>1. IsFiniteSet(Queues) /\ IsFiniteSet(Workers)
  <2>1. NumCores * QueuePerCore \in Nat
    BY ConstantTypes
  <2> QED
    BY <2>1, ConstantTypes, FS_Interval DEF Queues, Workers
<1>2. \A q \in Queues : RxInRings(q) \in Int /\ TxInRings(q) \in Int
  <2> TAKE q \in Queues
  <2>1. txq[q] \in Seq(Frame) /\ rxq[q] \in Seq(Frame)
    BY DEF TypeOK
  <2>2. NumberOf(txq[q], Echoed) \in Nat /\ Len(txq[q]) \in Nat /\ Len(rxq[q]) \in Nat
    BY <2>1, NumberOfFacts, LenProperties
  <2> QED
    BY <2>2 DEF RxInRings, TxInRings
<1>3. \A w \in Workers : RxInHands(w) \in Int
  BY LenProperties DEF TypeOK, RxInHands
<1>4. /\ [q \in Queues |-> RxInRings(q)] \in [Queues -> Int]
      /\ [q \in Queues |-> TxInRings(q)] \in [Queues -> Int]
      /\ [w \in Workers |-> RxInHands(w)] \in [Workers -> Int]
  BY <1>2, <1>3
<1>5. RxRings \in Int /\ TxRings \in Int /\ RxHands \in Int
  BY <1>1, <1>4, SumOfInts DEF RxRings, TxRings, RxHands
<1> QED
  BY <1>1, <1>4, <1>5 DEF TypeOK

\* A change of one queue's rings, and of nobody's hands.
LEMMA RingsChange ==
  ASSUME TypeOK, TypeOK', NEW v \in Queues,
         \A q \in Queues : q # v => rxq'[q] = rxq[q] /\ txq'[q] = txq[q]
  PROVE  /\ RxRings' = RxRings + (RxInRings(v)' - RxInRings(v))
         /\ TxRings' = TxRings + (TxInRings(v)' - TxInRings(v))
<1> DEFINE f == [q \in Queues |-> RxInRings(q)]
           g == [q \in Queues |-> TxInRings(q)]
           e == [q \in Queues |-> RxInRings(q)']
           h == [q \in Queues |-> TxInRings(q)']
<1>1. f \in [Queues -> Int] /\ g \in [Queues -> Int] /\ IsFiniteSet(Queues)
  BY SumTypes
<1>2. e \in [Queues -> Int] /\ h \in [Queues -> Int]
  <2>1. \A q \in Queues : RxInRings(q)' \in Int /\ TxInRings(q)' \in Int
    <3> TAKE q \in Queues
    <3>1. txq'[q] \in Seq(Frame) /\ rxq'[q] \in Seq(Frame)
      BY DEF TypeOK
    <3>2. NumberOf(txq'[q], Echoed) \in Nat /\ Len(txq'[q]) \in Nat /\ Len(rxq'[q]) \in Nat
      BY <3>1, NumberOfFacts, LenProperties
    <3> QED
      BY <3>2 DEF RxInRings, TxInRings
  <2> QED
    BY <2>1
<1>3. \A q \in Queues \ {v} : e[q] = f[q] /\ h[q] = g[q]
  BY DEF RxInRings, TxInRings
<1>4. RxRings = SumFunction(f) /\ RxRings' = SumFunction(e)
  BY DEF RxRings
<1>5. TxRings = SumFunction(g) /\ TxRings' = SumFunction(h)
  BY DEF TxRings
<1>6. /\ f[v] = RxInRings(v) /\ g[v] = TxInRings(v)
      /\ e[v] = RxInRings(v)' /\ h[v] = TxInRings(v)'
  OBVIOUS
<1> HIDE DEF f, g, e, h
<1>7. SumFunction(e) = SumFunction(f) + (e[v] - f[v])
  BY <1>1, <1>2, <1>3, SumUpdate
<1>8. SumFunction(h) = SumFunction(g) + (h[v] - g[v])
  BY <1>1, <1>2, <1>3, SumUpdate
<1> QED
  BY <1>4, <1>5, <1>6, <1>7, <1>8

\* A change of what one worker has in its hands.
LEMMA HandsChange ==
  ASSUME TypeOK, TypeOK', NEW w \in Workers,
         \A v \in Workers : v # w => rx_bufs'[v] = rx_bufs[v] /\ tx_buf'[v] = tx_buf[v]
  PROVE  RxHands' = RxHands + (RxInHands(w)' - RxInHands(w))
<1> DEFINE f == [v \in Workers |-> RxInHands(v)]
           e == [v \in Workers |-> RxInHands(v)']
<1>1. f \in [Workers -> Int] /\ IsFiniteSet(Workers)
  BY SumTypes
<1>2. e \in [Workers -> Int]
  <2>1. \A v \in Workers : RxInHands(v)' \in Int
    BY LenProperties DEF TypeOK, RxInHands
  <2> QED
    BY <2>1
<1>3. \A v \in Workers \ {w} : e[v] = f[v]
  BY DEF RxInHands
<1>4. RxHands = SumFunction(f) /\ RxHands' = SumFunction(e)
  BY DEF RxHands
<1>5. f[w] = RxInHands(w) /\ e[w] = RxInHands(w)'
  OBVIOUS
<1> HIDE DEF f, e
<1>6. SumFunction(e) = SumFunction(f) + (e[w] - f[w])
  BY <1>1, <1>2, <1>3, SumUpdate
<1> QED
  BY <1>4, <1>5, <1>6

\* Where nothing changes.
LEMMA SumsStay ==
  /\ UNCHANGED <<rxq, txq>> => RxRings' = RxRings /\ TxRings' = TxRings
  /\ UNCHANGED <<rx_bufs, tx_buf>> => RxHands' = RxHands
  BY DEF RxRings, TxRings, RxHands, RxInRings, TxInRings, RxInHands

\* What has to be shown of a step: its changes cancel.
LEMMA Balanced ==
  ASSUME Conservation,
         rx_free' + RxRings' + RxHands' = rx_free + RxRings + RxHands,
         tx_free' + TxRings' = tx_free + TxRings
  PROVE  Conservation'
<1>1. /\ NUM_MBUFS = rx_free' + RxRings' + RxHands'
      /\ NUM_MBUFS = tx_free' + TxRings'
  BY DEF Conservation, RxRings, TxRings, RxHands
<1> QED
  BY <1>1 DEF Conservation, RxRings, TxRings, RxHands

\* A packet that leaves the worker's hands is freed, echoed, or replaced by an
\* ARP answer from the other pool.
LEMMA PacketConserved ==
  ASSUME TypeOK, TypeOK', Conservation, NEW w \in Workers,
         Discard(w) \/ AnswerArp(w) \/ Absorb(w) \/ AddEcho(w)
  PROVE  Conservation'
<1> USE DEF loopVars, pktVars, bufVars, nicVars
<1>0. /\ NUM_MBUFS = rx_free + RxRings + RxHands /\ NUM_MBUFS = tx_free + TxRings
      /\ RxRings \in Int /\ TxRings \in Int /\ RxHands \in Int
      /\ rx_free \in Nat /\ tx_free \in Nat
  BY SumTypes DEF Conservation, RxRings, TxRings, RxHands
<1>1. /\ rx_bufs[w] \in Seq(Frame) /\ rx_bufs[w] # <<>> /\ Packet(w) \in Frame
      /\ tx_buf[w] \in Seq(Frame)
  BY PacketFrame DEF Discard, AnswerArp, Absorb, AddEcho, ValidPacket, TypeOK
<1>2. /\ rx_bufs' = [rx_bufs EXCEPT ![w] = Tail(rx_bufs[w])]
      /\ tx_buf' = tx_buf \/ tx_buf' = [tx_buf EXCEPT ![w] = Append(tx_buf[w], Echo(Packet(w)))]
  BY DEF Discard, AnswerArp, Absorb, AddEcho, NextPacket
<1>3. RxHands' = RxHands + (RxInHands(w)' - RxInHands(w))
  BY <1>2, HandsChange DEF TypeOK
<1>4. /\ Len(rx_bufs'[w]) = Len(rx_bufs[w]) - 1 /\ Len(rx_bufs[w]) \in Nat
      /\ Len(tx_buf[w]) \in Nat
  BY <1>1, <1>2, HeadTailProperties, LenProperties DEF TypeOK
<1>5. CASE AddEcho(w)
  <2>1. Len(tx_buf'[w]) = Len(tx_buf[w]) + 1
    <3>1. tx_buf' = [tx_buf EXCEPT ![w] = Append(tx_buf[w], Echo(Packet(w)))]
      BY <1>5 DEF AddEcho
    <3>2. Echo(Packet(w)) \in Frame
      BY <1>1, FrameTypes
    <3> QED
      BY <1>1, <3>1, <3>2, AppendProperties DEF TypeOK
  <2>2. RxInHands(w)' = RxInHands(w)
    <3>1. PICK i \in Nat, j \in Nat : i = Len(rx_bufs[w]) /\ j = Len(tx_buf[w])
      BY <1>4
    <3>2. Len(rx_bufs'[w]) = i - 1 /\ Len(tx_buf'[w]) = j + 1
      BY <1>4, <2>1, <3>1
    <3>3. RxInHands(w)' = (i - 1) + (j + 1) /\ RxInHands(w) = i + j
      BY <3>1, <3>2 DEF RxInHands
    <3> QED
      BY <3>3
  <2>3. UNCHANGED <<rx_free, tx_free, rxq, txq>>
    BY <1>5 DEF AddEcho
  <2>4. RxHands' = RxHands /\ RxRings' = RxRings /\ TxRings' = TxRings
    <3>1. RxInHands(w) \in Int
      BY <1>4 DEF RxInHands
    <3> QED
      BY <1>0, <1>3, <2>2, <2>3, <3>1, SumsStay
  <2> QED
    BY <1>0, <2>3, <2>4 DEF Conservation, RxRings, TxRings, RxHands
<1>6. CASE Discard(w) \/ AnswerArp(w) \/ Absorb(w)
  <2>1. tx_buf' = tx_buf /\ rxq' = rxq /\ rx_free' = rx_free + 1
    BY <1>6 DEF Discard, AnswerArp, Absorb, FreeDiscarded, FreeRx
  <2>2. RxInHands(w)' = RxInHands(w) - 1 /\ RxInHands(w) \in Int
    BY <1>4, <2>1 DEF RxInHands
  <2>3. RxHands' = RxHands - 1
    BY <1>0, <1>3, <2>2
  <2>4. RxRings' = RxRings /\ tx_free' + TxRings' = tx_free + TxRings
    <3>1. CASE Discard(w) \/ Absorb(w)
      BY <2>1, <3>1, SumsStay DEF Discard, Absorb
    <3>2. CASE AnswerArp(w)
      <4> DEFINE p == ArpReply(Packet(w))
      <4>1. p \in Frame /\ p \notin Echoed /\ 0 \in Queues
        <5>1. ManagedQueue(0, 0) \in Queues
          BY ConstantTypes, ManagedQueueType DEF Workers
        <5>2. ManagedQueue(0, 0) = 0
          BY ConstantTypes DEF ManagedQueue
        <5> QED
          BY <1>1, <5>1, <5>2, FrameTypes, EchoedOrArp
      <4>2. txq' = [txq EXCEPT ![0] = Append(txq[0], p)] /\ tx_free' = tx_free - 1
        BY <3>2 DEF AnswerArp
      <4> HIDE DEF p
      <4>3. txq[0] \in Seq(Frame) /\ rxq[0] \in Seq(Frame) /\ txq \in [Queues -> Seq(Frame)]
        BY <4>1 DEF TypeOK
      <4>4. /\ txq'[0] = Append(txq[0], p)
            /\ \A q \in Queues : q # 0 => rxq'[q] = rxq[q] /\ txq'[q] = txq[q]
        BY <2>1, <4>1, <4>2, <4>3
      <4>5. /\ NumberOf(txq'[0], Echoed) = NumberOf(txq[0], Echoed)
            /\ Len(txq'[0]) = Len(txq[0]) + 1
            /\ NumberOf(txq[0], Echoed) \in Nat /\ Len(txq[0]) \in Nat /\ Len(rxq[0]) \in Nat
        BY <4>1, <4>3, <4>4, NumberOfFacts, AppendProperties, LenProperties
      <4>6. /\ RxInRings(0)' = RxInRings(0) /\ RxInRings(0) \in Int
            /\ TxInRings(0)' = TxInRings(0) + 1 /\ TxInRings(0) \in Int
        BY <2>1, <4>5, SMTT(60) DEF RxInRings, TxInRings
      <4>7. /\ RxRings' = RxRings + (RxInRings(0)' - RxInRings(0))
            /\ TxRings' = TxRings + (TxInRings(0)' - TxInRings(0))
        BY <4>1, <4>4, RingsChange
      <4> QED
        BY <1>0, <4>2, <4>6, <4>7
    <3> QED
      BY <1>6, <3>1, <3>2
  <2> QED
    BY <1>0, <2>1, <2>3, <2>4 DEF Conservation, RxRings, TxRings, RxHands
<1> QED
  BY <1>5, <1>6

\* A poll and a transmission move packets between a ring and the worker.
LEMMA BurstConserved ==
  ASSUME TypeOK, TypeOK', HoldInv, EchoInv, Conservation, NEW w \in Workers,
         Poll(w) \/ TxBurst(w)
  PROVE  Conservation'
<1> USE DEF loopVars, pktVars, bufVars, nicVars
<1>0. /\ RxRings \in Int /\ TxRings \in Int /\ RxHands \in Int
      /\ rx_free \in Nat /\ tx_free \in Nat
  BY SumTypes
<1>1. PICK q \in Queues : q = qid[w]
  BY DEF TypeOK
<1>2. /\ rxq[q] \in Seq(Frame) /\ txq[q] \in Seq(Frame)
      /\ rx_bufs[w] \in Seq(Frame) /\ tx_buf[w] \in Seq(Frame)
  BY DEF TypeOK
<1>3. /\ Len(rxq[q]) \in Nat /\ Len(txq[q]) \in Nat
      /\ Len(rx_bufs[w]) \in Nat /\ Len(tx_buf[w]) \in Nat
      /\ NumberOf(txq[q], Echoed) \in Nat
  BY <1>2, LenProperties, NumberOfFacts
<1>4. PICK i \in Nat, j \in Nat, k \in Nat, l \in Nat, e \in Nat :
        /\ i = Len(rx_bufs[w]) /\ j = Len(tx_buf[w])
        /\ k = Len(rxq[q]) /\ l = Len(txq[q]) /\ e = NumberOf(txq[q], Echoed)
        /\ RxInRings(q) = k + e /\ TxInRings(q) = l - e /\ RxInHands(w) = i + j
  BY <1>3 DEF RxInRings, TxInRings, RxInHands
<1>5. RxInRings(q) \in Int /\ TxInRings(q) \in Int /\ RxInHands(w) \in Int
  BY <1>4
<1>6. ASSUME NEW n \in Int, UNCHANGED <<rx_free, tx_free>>,
             \A v \in Workers : v # w => rx_bufs'[v] = rx_bufs[v] /\ tx_buf'[v] = tx_buf[v],
             \A p \in Queues : p # q => rxq'[p] = rxq[p] /\ txq'[p] = txq[p],
             RxInRings(q)' = RxInRings(q) - n, TxInRings(q)' = TxInRings(q),
             RxInHands(w)' = RxInHands(w) + n
      PROVE  Conservation'
  <2>1. /\ RxRings' = RxRings + (RxInRings(q)' - RxInRings(q))
        /\ TxRings' = TxRings + (TxInRings(q)' - TxInRings(q))
    BY <1>6, RingsChange
  <2>2. RxHands' = RxHands + (RxInHands(w)' - RxInHands(w))
    BY <1>6, HandsChange
  <2>3. RxRings' = RxRings - n /\ RxHands' = RxHands + n /\ TxRings' = TxRings
    BY <1>0, <1>5, <1>6, <2>1, <2>2
  <2> QED
    BY <1>0, <1>6, <2>3, Balanced
<1>7. CASE Poll(w)
  <2> DEFINE n == Lesser(BURST_SIZE, Len(rxq[q]))
             a == SubSeq(rxq[q], 1, n)
             b == SubSeq(rxq[q], n + 1, Len(rxq[q]))
  <2>1. n \in 0..Len(rxq[q])
    BY <1>3, ConstantTypes DEF Lesser
  <2>2. /\ rx_bufs' = [rx_bufs EXCEPT ![w] = a] /\ rxq' = [rxq EXCEPT ![q] = b]
        /\ UNCHANGED <<tx_buf, txq, rx_free, tx_free>>
        /\ rx_bufs[w] = <<>>
    BY <1>1, <1>7 DEF Poll, HoldInv
  <2>3. PICK m \in Nat : m = n /\ m <= Len(rxq[q])
    BY <1>3, <2>1
  <2> HIDE DEF n
  <2>4. Len(a) = m /\ Len(b) = Len(rxq[q]) - m
    BY <1>2, <1>3, <2>3, Cut
  <2> HIDE DEF a, b
  <2>5. /\ rx_bufs'[w] = a /\ rxq'[q] = b
        /\ \A v \in Workers : v # w => rx_bufs'[v] = rx_bufs[v] /\ tx_buf'[v] = tx_buf[v]
        /\ \A p \in Queues : p # q => rxq'[p] = rxq[p] /\ txq'[p] = txq[p]
    BY <2>2 DEF TypeOK
  <2>6. Len(rxq'[q]) = Len(rxq[q]) - m /\ Len(rx_bufs'[w]) = Len(rx_bufs[w]) + m
    BY <1>3, <2>2, <2>4, <2>5
  <2>7. RxInRings(q)' = RxInRings(q) - m /\ TxInRings(q)' = TxInRings(q)
    <3>1. Len(rxq'[q]) + NumberOf(txq'[q], Echoed)
            = (Len(rxq[q]) + NumberOf(txq[q], Echoed)) - m
      BY <1>3, <2>2, <2>3, <2>6
    <3> QED
      BY <2>2, <3>1 DEF RxInRings, TxInRings
  <2>8. RxInHands(w)' = RxInHands(w) + m
    <3>1. RxInHands(w)' = (i + m) + j
      BY <1>4, <2>2, <2>6 DEF RxInHands
    <3>2. (i + m) + j = (i + j) + m
      BY <2>3
    <3> QED
      BY <1>4, <3>1, <3>2
  <2> QED
    BY <1>6, <2>2, <2>5, <2>7, <2>8
<1>8. CASE TxBurst(w)
  <2> DEFINE n == Taken(w)
             a == SubSeq(tx_buf[w], 1, n)
             b == SubSeq(tx_buf[w], n + 1, Len(tx_buf[w]))
             t == txq[q] \o a
  <2>1. n \in 0..Len(tx_buf[w])
    BY <1>1, <1>3, <1>8, ConstantTypes DEF TxBurst, Taken, Lesser
  <2>2. /\ tx_buf' = [tx_buf EXCEPT ![w] = b] /\ txq' = [txq EXCEPT ![q] = t]
        /\ UNCHANGED <<rx_bufs, rxq, rx_free, tx_free>>
    BY <1>1, <1>8 DEF TxBurst, Unsent
  <2>3. tx_buf[w] \in Seq(Echoed)
    BY DEF EchoInv
  <2>4. PICK m \in Nat : m = n /\ m <= Len(tx_buf[w])
    BY <1>3, <2>1
  <2> HIDE DEF n
  <2>5. Len(a) = m /\ Len(b) = Len(tx_buf[w]) - m /\ a \in Seq(Frame) /\ a \in Seq(Echoed)
    BY <1>2, <1>3, <2>3, <2>4, Cut
  <2> HIDE DEF a, b
  <2>6. NumberOf(a, Echoed) = m
    BY <2>5, NumberOfAll
  <2>7. NumberOf(t, Echoed) = NumberOf(txq[q], Echoed) + m
    <3>1. NumberOf(txq[q] \o a, Echoed) = NumberOf(txq[q], Echoed) + NumberOf(a, Echoed)
      BY <1>2, <2>5, NumberOfFacts
    <3> QED
      BY <2>6, <3>1
  <2>8. Len(t) = Len(txq[q]) + m
    BY <1>2, <2>5, ConcatProperties
  <2> HIDE DEF t
  <2>9. /\ tx_buf'[w] = b /\ txq'[q] = t
        /\ \A v \in Workers : v # w => rx_bufs'[v] = rx_bufs[v] /\ tx_buf'[v] = tx_buf[v]
        /\ \A p \in Queues : p # q => rxq'[p] = rxq[p] /\ txq'[p] = txq[p]
    BY <2>2 DEF TypeOK
  <2>10. RxInRings(q)' = RxInRings(q) + m /\ TxInRings(q)' = TxInRings(q)
    <3>1. RxInRings(q)' = k + (e + m) /\ TxInRings(q)' = (l + m) - (e + m)
      BY <1>4, <2>2, <2>7, <2>8, <2>9 DEF RxInRings, TxInRings
    <3> QED
      BY <1>4, <2>4, <3>1
  <2>11. RxInHands(w)' = RxInHands(w) - m
    <3>1. RxInHands(w)' = i + (j - m)
      BY <1>4, <2>2, <2>5, <2>9 DEF RxInHands
    <3> QED
      BY <1>4, <2>4, <3>1
  <2>12. /\ -m \in Int /\ RxInRings(q)' = RxInRings(q) - (-m)
         /\ RxInHands(w)' = RxInHands(w) + (-m)
    BY <1>5, <2>4, <2>10, <2>11
  <2> QED
    BY <1>6, <2>2, <2>9, <2>10, <2>12
<1> QED
  BY <1>7, <1>8

\* A frame the NIC stores takes an mbuf from the rx pool, and a frame it has
\* sent goes back to the pool it came from.
LEMMA NicConserved ==
  ASSUME TypeOK, TypeOK', Conservation, NEW q \in Queues,
         Transmit(q) \/ \E t \in Traffic : Arrive(q, t)
  PROVE  Conservation'
<1> USE DEF loopVars, pktVars, bufVars, nicVars
<1>0. /\ RxRings \in Int /\ TxRings \in Int /\ RxHands \in Int
      /\ rx_free \in Nat /\ tx_free \in Nat
  BY SumTypes
<1>1. RxHands' = RxHands
  BY SumsStay DEF Transmit, Arrive
<1>2. /\ rxq[q] \in Seq(Frame) /\ txq[q] \in Seq(Frame)
      /\ rxq \in [Queues -> Seq(Frame)] /\ txq \in [Queues -> Seq(Frame)]
  BY DEF TypeOK
<1>3. Len(rxq[q]) \in Nat /\ Len(txq[q]) \in Nat /\ NumberOf(txq[q], Echoed) \in Nat
  BY <1>2, LenProperties, NumberOfFacts
<1>4. PICK k \in Nat, l \in Nat, e \in Nat :
        /\ k = Len(rxq[q]) /\ l = Len(txq[q]) /\ e = NumberOf(txq[q], Echoed)
        /\ RxInRings(q) = k + e /\ TxInRings(q) = l - e
  BY <1>3 DEF RxInRings, TxInRings
<1>5. ASSUME NEW a \in Int, NEW b \in Int,
             \A p \in Queues : p # q => rxq'[p] = rxq[p] /\ txq'[p] = txq[p],
             RxInRings(q)' = (k + e) - a, TxInRings(q)' = (l - e) - b,
             rx_free' = rx_free + a, tx_free' = tx_free + b
      PROVE  Conservation'
  <2>1. /\ RxRings' = RxRings + (RxInRings(q)' - RxInRings(q))
        /\ TxRings' = TxRings + (TxInRings(q)' - TxInRings(q))
    BY <1>5, RingsChange
  <2>2. ((k + e) - a) - (k + e) = -a /\ ((l - e) - b) - (l - e) = -b
    BY <1>5
  <2>3. RxRings' = RxRings + (-a) /\ TxRings' = TxRings + (-b)
    BY <1>4, <1>5, <2>1, <2>2
  <2> QED
    BY <1>0, <1>1, <1>5, <2>3, Balanced
<1>6. ASSUME NEW t \in Traffic, Arrive(q, t)
      PROVE  Conservation'
  <2> DEFINE p == [t EXCEPT !.id = arrived + 1]
             r == Append(rxq[q], p)
  <2>1. p \in Frame
    <3>1. t \in Frame /\ arrived + 1 \in Nat
      BY ServerAssumption DEF TypeOK
    <3> QED
      BY <3>1, FrameTypes
  <2>2. \/ rxq' = [rxq EXCEPT ![q] = r] /\ rx_free' = rx_free - 1
        \/ UNCHANGED <<rxq, rx_free>>
    BY <1>6 DEF Arrive
  <2>3. txq' = txq /\ tx_free' = tx_free
    BY <1>6 DEF Arrive
  <2>4. Len(r) = k + 1
    <3> HIDE DEF p
    <3> QED
      BY <1>2, <1>4, <2>1, AppendProperties
  <2> HIDE DEF p, r
  <2>5. CASE UNCHANGED <<rxq, rx_free>>
    BY <1>0, <1>1, <2>3, <2>5, SumsStay, Balanced
  <2>6. CASE rxq' = [rxq EXCEPT ![q] = r] /\ rx_free' = rx_free - 1
    <3>1. /\ rxq'[q] = r
          /\ \A v \in Queues : v # q => rxq'[v] = rxq[v] /\ txq'[v] = txq[v]
      BY <1>2, <2>3, <2>6
    <3>2. RxInRings(q)' = (k + 1) + e /\ TxInRings(q)' = l - e
      BY <1>4, <2>3, <2>4, <3>1 DEF RxInRings, TxInRings
    <3>3. /\ (k + 1) + e = (k + e) - (-1) /\ l - e = (l - e) - 0
          /\ rx_free - 1 = rx_free + (-1) /\ tx_free = tx_free + 0
      BY <1>0
    <3> QED
      BY <1>5, <2>3, <2>6, <3>1, <3>2, <3>3
  <2> QED
    BY <2>2, <2>5, <2>6
<1>7. CASE Transmit(q)
  <2> DEFINE h == Head(txq[q])
             r == Tail(txq[q])
  <2>1. /\ txq[q] # <<>> /\ txq' = [txq EXCEPT ![q] = r]
        /\ rxq' = rxq
        /\ IF IsArp(h) THEN tx_free' = tx_free + 1 /\ UNCHANGED rx_free
                       ELSE rx_free' = rx_free + 1 /\ UNCHANGED tx_free
    BY <1>7 DEF Transmit
  <2>2. h \in Frame /\ Len(r) = l - 1
    BY <1>2, <1>4, <2>1, HeadTailProperties
  <2>3. h \in Echoed <=> ~IsArp(h)
    BY <2>2, EchoedOrArp
  <2>4. NumberOf(r, Echoed) = e - (IF h \in Echoed THEN 1 ELSE 0)
    <3>1. PICK s \in Seq(Frame) : s = txq[q] /\ s # <<>>
      BY <1>2, <2>1
    <3>2. NumberOf(Tail(s), Echoed) = NumberOf(s, Echoed) - (IF Head(s) \in Echoed THEN 1 ELSE 0)
      BY <3>1, NumberOfFacts
    <3> QED
      BY <1>4, <3>1, <3>2
  <2> HIDE DEF h, r
  <2>5. /\ txq'[q] = r
        /\ \A v \in Queues : v # q => rxq'[v] = rxq[v] /\ txq'[v] = txq[v]
    BY <1>2, <2>1
  <2>6. /\ RxInRings(q)' = k + NumberOf(r, Echoed)
        /\ TxInRings(q)' = (l - 1) - NumberOf(r, Echoed)
    BY <1>4, <2>1, <2>2, <2>5 DEF RxInRings, TxInRings
  <2>7. CASE h \in Echoed
    <3>1. NumberOf(r, Echoed) = e - 1
      BY <2>4, <2>7
    <3>2. /\ RxInRings(q)' = k + (e - 1) /\ TxInRings(q)' = (l - 1) - (e - 1)
          /\ rx_free' = rx_free + 1 /\ tx_free' = tx_free
      BY <2>1, <2>3, <2>6, <2>7, <3>1
    <3>3. k + (e - 1) = (k + e) - 1 /\ (l - 1) - (e - 1) = (l - e) - 0 /\ tx_free = tx_free + 0
      BY <1>0
    <3> QED
      BY <1>5, <2>5, <3>2, <3>3
  <2>8. CASE h \notin Echoed
    <3>1. NumberOf(r, Echoed) = e
      BY <2>4, <2>8
    <3>2. /\ RxInRings(q)' = k + e /\ TxInRings(q)' = (l - 1) - e
          /\ rx_free' = rx_free /\ tx_free' = tx_free + 1
      BY <2>1, <2>3, <2>6, <2>8, <3>1
    <3>3. k + e = (k + e) - 0 /\ (l - 1) - e = (l - e) - 1 /\ rx_free = rx_free + 0
      BY <1>0
    <3> QED
      BY <1>5, <2>5, <3>2, <3>3
  <2> QED
    BY <2>7, <2>8
<1> QED
  BY <1>6, <1>7

\* Every step of the worker, of main, of the NIC and of the clock.
LEMMA ConservationStep ==
  ASSUME TypeOK, TypeOK', HoldInv, EchoInv, Conservation, [Next]_vars
  PROVE  Conservation'
<1> USE DEF loopVars, pktVars, bufVars, nicVars
<1>1. ASSUME UNCHANGED <<rxq, txq, rx_bufs, tx_buf, rx_free, tx_free>>
      PROVE  Conservation'
  BY <1>1, SumsStay, Balanced
<1>2. ASSUME NEW w \in Workers, Worker(w)
      PROVE  Conservation'
  <2>1. CASE \/ LeaveLoop(w) \/ GiveUp(w) \/ SkipQueue(w) \/ SelectQueue(w)
             \/ IdleStop(w) \/ KeepPolling(w) \/ SmashEcho(w) \/ EndBurst(w)
             \/ FinishTx(w)
    BY <1>1, <2>1 DEF LeaveLoop, GiveUp, SkipQueue, SelectQueue, NextQueue,
                      IdleStop, KeepPolling, EmptyPoll, SmashEcho, EndBurst,
                      FinishTx
  <2> QED
    BY <1>2, <2>1, PacketConserved, BurstConserved DEF Worker
<1>3. CASE MainStop \/ MainExit \/ Tick
  BY <1>1, <1>3 DEF MainStop, MainExit, Tick
<1>4. CASE UNCHANGED vars
  BY <1>1, <1>4 DEF vars
<1> QED
  BY <1>2, <1>3, <1>4, NicConserved DEF Next

\* All rings and hands are empty in the beginning.
LEMMA ConservationInit == Init => Conservation
<1> SUFFICES ASSUME Init PROVE Conservation
  OBVIOUS
<1>1. TypeOK /\ NUM_MBUFS \in Nat
  BY InitTypes, ConstantTypes
<1>2. \A q \in Queues : RxInRings(q) = 0 /\ TxInRings(q) = 0
  <2>1. NumberOf(<<>>, Echoed) = 0
    BY EmptySeq, NumberOfFacts
  <2> QED
    BY <2>1 DEF Init, RxInRings, TxInRings
<1>3. \A w \in Workers : RxInHands(w) = 0
  BY DEF Init, RxInHands
<1> DEFINE f == [q \in Queues |-> RxInRings(q)]
           g == [q \in Queues |-> TxInRings(q)]
           h == [w \in Workers |-> RxInHands(w)]
<1>4. /\ f \in [Queues -> Nat] /\ \A q \in Queues : f[q] = 0
      /\ g \in [Queues -> Nat] /\ \A q \in Queues : g[q] = 0
      /\ h \in [Workers -> Nat] /\ \A w \in Workers : h[w] = 0
  BY <1>2, <1>3
<1>5. IsFiniteSet(Queues) /\ IsFiniteSet(Workers)
  BY <1>1, SumTypes
<1>6. Conservation <=> /\ NUM_MBUFS = rx_free + SumFunction(f) + SumFunction(h)
                       /\ NUM_MBUFS = tx_free + SumFunction(g)
  BY DEF Conservation
<1> HIDE DEF f, g, h
<1>7. SumFunction(f) = 0 /\ SumFunction(g) = 0 /\ SumFunction(h) = 0
  BY <1>4, <1>5, SumOfNats
<1> QED
  BY <1>1, <1>6, <1>7 DEF Init

\* For every number of cores and queues, every pool, ring and list length and
\* all traffic: do_server and the NIC never lose an mbuf of either pool and
\* never free one twice.
THEOREM ConservationHolds == Spec => []Conservation
<1>1. Init => HoldInv
  BY DEF Init, HoldInv
<1>2. TypeOK /\ TypeOK' /\ HoldInv /\ EchoInv /\ Conservation /\ [Next]_vars => Conservation'
  BY ConservationStep
<1> QED
  BY <1>1, <1>2, InitTypes, NextTypes, HoldStep, EchoInit, EchoStep,
     ConservationInit, PTL DEF Spec

-----------------------------------------------------------------------------
(* The echo service: what the variables of EchoService are, queue by queue. *)

WaitingAt(q) == InWorker(q) \o Filter(rxq[q], Requested)
RepliedAt(q) == Filter(wire[q] \o txq[q], Echoed)

\* A step that changes neither list of any queue is one the service does not see.
LEMMA ServiceStays ==
  ASSUME \A q \in Queues : WaitingAt(q)' = WaitingAt(q) /\ RepliedAt(q)' = RepliedAt(q)
  PROVE  UNCHANGED ES!svars
<1>1. /\ [q \in Queues |-> WaitingAt(q)'] = [q \in Queues |-> WaitingAt(q)]
      /\ [q \in Queues |-> RepliedAt(q)'] = [q \in Queues |-> RepliedAt(q)]
  OBVIOUS
<1> QED
  BY <1>1 DEF ES!svars, WaitingAt, RepliedAt

\* The step of the service in which a request arrives.
LEMMA ServiceRequest ==
  ASSUME NEW v \in Queues, NEW t \in Traffic, Valid(t), NEW i \in 1..MaxPkts,
         WaitingAt(v)' = Append(WaitingAt(v), [t EXCEPT !.id = i]),
         \A q \in Queues : /\ q # v => WaitingAt(q)' = WaitingAt(q)
                           /\ RepliedAt(q)' = RepliedAt(q)
  PROVE  ES!Next
<1> DEFINE p == [t EXCEPT !.id = i]
           waits == [q \in Queues |-> WaitingAt(q)]
<1>1. [q \in Queues |-> WaitingAt(q)'] = [waits EXCEPT ![v] = Append(waits[v], p)]
  <2> HIDE DEF p
  <2> QED
    BY DEF p
<1>2. [q \in Queues |-> RepliedAt(q)'] = [q \in Queues |-> RepliedAt(q)]
  OBVIOUS
<1>3. p \in {[u EXCEPT !.id = j] : u \in {x \in Traffic : Valid(x)}, j \in 1..MaxPkts}
  OBVIOUS
<1> HIDE DEF p
<1>4. ES!Request(v, p)
  BY <1>1, <1>2 DEF ES!Request, WaitingAt, RepliedAt
<1> QED
  BY <1>3, <1>4 DEF ES!Next

\* The step of the service in which the n oldest requests are answered.
LEMMA ServiceReply ==
  ASSUME NEW v \in Queues, NEW n \in 1..Len(WaitingAt(v)),
         WaitingAt(v)' = SubSeq(WaitingAt(v), n + 1, Len(WaitingAt(v))),
         RepliedAt(v)' = RepliedAt(v) \o [i \in 1..n |-> ES!Answer(WaitingAt(v)[i])],
         \A q \in Queues : q # v => /\ WaitingAt(q)' = WaitingAt(q)
                                    /\ RepliedAt(q)' = RepliedAt(q)
  PROVE  ES!Next
<1> DEFINE waits == [q \in Queues |-> WaitingAt(q)]
           replies == [q \in Queues |-> RepliedAt(q)]
           ans == [i \in 1..n |-> ES!Answer(WaitingAt(v)[i])]
<1>1. [q \in Queues |-> WaitingAt(q)']
        = [waits EXCEPT ![v] = SubSeq(waits[v], n + 1, Len(waits[v]))]
  OBVIOUS
<1>2. [q \in Queues |-> RepliedAt(q)'] = [replies EXCEPT ![v] = replies[v] \o ans]
  <2> HIDE DEF ans
  <2> QED
    BY DEF ans
<1>3. ans = [i \in 1..n |-> ES!Answer(waits[v][i])]
  OBVIOUS
<1>4. ES!Reply(v, n)
  BY <1>1, <1>2, <1>3 DEF ES!Reply, WaitingAt, RepliedAt
<1>5. n \in 1..Len(waits[v])
  OBVIOUS
<1> QED
  BY <1>4, <1>5 DEF ES!Next, WaitingAt

\* An echo turned back is the packet it answers, which is what the service
\* calls the answer.
LEMMA EchoTwice ==
  ASSUME NEW p \in Frame
  PROVE  Echo(Echo(p)) = p /\ ES!Answer(p) = Echo(p)
<1>1. /\ p.eth = <<p.eth[1], p.eth[2]>> /\ p.ip = <<p.ip[1], p.ip[2]>>
      /\ p.port = <<p.port[1], p.port[2]>>
  BY DEF Frame
<1>2. ES!Answer(p) = Echo(p)
  BY DEF ES!Answer, Echo, Flip, Frame
<1>3. PICK e \in Frame : e = Echo(p)
  BY FrameTypes
<1>4. /\ e.id = p.id /\ e.type = p.type /\ e.eth = <<p.eth[2], p.eth[1]>>
      /\ e.ip = <<p.ip[2], p.ip[1]>> /\ e.port = <<p.port[2], p.port[1]>>
  BY <1>3 DEF Echo, Flip, Frame
<1>5. PICK b \in Frame : b = Echo(e)
  BY FrameTypes
<1>6. /\ b.id = e.id /\ b.type = e.type /\ b.eth = <<e.eth[2], e.eth[1]>>
      /\ b.ip = <<e.ip[2], e.ip[1]>> /\ b.port = <<e.port[2], e.port[1]>>
  BY <1>5 DEF Echo, Flip, Frame
<1>7. /\ b.id = p.id /\ b.type = p.type /\ b.eth = p.eth
      /\ b.ip = p.ip /\ b.port = p.port
  BY <1>1, <1>4, <1>6
<1>8. b = p
  BY <1>7 DEF Frame
<1> QED
  BY <1>2, <1>3, <1>5, <1>8

\* A list turned back has the elements turned back.
LEMMA TurnedBackType ==
  ASSUME NEW s \in Seq(Frame)
  PROVE  /\ TurnedBack(s) \in Seq(Frame) /\ Len(TurnedBack(s)) = Len(s)
         /\ \A i \in 1..Len(s) : TurnedBack(s)[i] = Echo(s[i])
<1>1. Len(s) \in Nat /\ \A i \in 1..Len(s) : s[i] \in Frame
  BY LenProperties
<1>2. \A i \in 1..Len(s) : Echo(s[i]) \in Frame
  BY <1>1, FrameTypes
<1> DEFINE e(i) == Echo(s[i])
           t == [i \in 1..Len(s) |-> e(i)]
<1>3. TurnedBack(s) = t
  BY DEF TurnedBack
<1>4. t \in Seq(Frame) /\ Len(t) = Len(s) /\ \A i \in 1..Len(s) : t[i] = e(i)
  <2>1. \A i \in 1..Len(s) : e(i) \in Frame
    BY <1>2
  <2> HIDE DEF e
  <2> QED
    BY <1>1, <2>1, IsASeq
<1> QED
  BY <1>3, <1>4

\* Turned back part by part.
LEMMA TurnedBackParts ==
  ASSUME NEW s \in Seq(Frame)
  PROVE  /\ TurnedBack(<<>>) = <<>>
         /\ \A t \in Seq(Frame) : TurnedBack(s \o t) = TurnedBack(s) \o TurnedBack(t)
         /\ \A e \in Frame : TurnedBack(Append(s, e)) = TurnedBack(s) \o <<Echo(e)>>
<1>1. TurnedBack(<<>>) = <<>>
  BY EmptySeq, TurnedBackType
<1>2. ASSUME NEW t \in Seq(Frame)
      PROVE  TurnedBack(s \o t) = TurnedBack(s) \o TurnedBack(t)
  <2> DEFINE a == TurnedBack(s \o t)
             x == TurnedBack(s)
             y == TurnedBack(t)
             b == x \o y
  <2>1. /\ s \o t \in Seq(Frame) /\ Len(s \o t) = Len(s) + Len(t)
        /\ \A i \in 1..(Len(s) + Len(t)) : (s \o t)[i] = IF i <= Len(s) THEN s[i] ELSE t[i - Len(s)]
        /\ Len(s) \in Nat /\ Len(t) \in Nat
    BY ConcatProperties, LenProperties
  <2>2. /\ a \in Seq(Frame) /\ Len(a) = Len(s) + Len(t)
        /\ \A i \in 1..(Len(s) + Len(t)) : a[i] = Echo((s \o t)[i])
    BY <2>1, TurnedBackType
  <2>3. /\ x \in Seq(Frame) /\ y \in Seq(Frame) /\ Len(x) = Len(s) /\ Len(y) = Len(t)
        /\ \A i \in 1..Len(s) : x[i] = Echo(s[i])
        /\ \A i \in 1..Len(t) : y[i] = Echo(t[i])
    BY TurnedBackType
  <2> HIDE DEF a, x, y
  <2>4. /\ b \in Seq(Frame) /\ Len(b) = Len(s) + Len(t)
        /\ \A i \in 1..(Len(s) + Len(t)) : b[i] = IF i <= Len(s) THEN x[i] ELSE y[i - Len(s)]
    <3>1. /\ b \in Seq(Frame) /\ Len(b) = Len(x) + Len(y)
          /\ \A i \in 1..(Len(x) + Len(y)) : b[i] = IF i <= Len(x) THEN x[i] ELSE y[i - Len(x)]
      <4>1. x \in Seq(Frame) /\ y \in Seq(Frame)
        BY <2>3
      <4> QED
        BY <4>1, ConcatProperties
    <3> HIDE DEF b
    <3> QED
      BY <2>3, <3>1
  <2> HIDE DEF b
  <2>5. ASSUME NEW i \in 1..(Len(s) + Len(t)) PROVE a[i] = b[i]
    <3>1. CASE i <= Len(s)
      <4>1. i \in 1..Len(s)
        BY <2>1, <3>1
      <4> QED
        BY <2>1, <2>2, <2>3, <2>4, <3>1, <4>1
    <3>2. CASE ~(i <= Len(s))
      <4>1. i - Len(s) \in 1..Len(t)
        BY <2>1, <3>2
      <4>2. a[i] = Echo(t[i - Len(s)]) /\ b[i] = y[i - Len(s)]
        BY <2>1, <2>2, <2>4, <3>2
      <4> QED
        BY <2>3, <4>1, <4>2
    <3> QED
      BY <3>1, <3>2
  <2>6. a = b
    BY <2>2, <2>4, <2>5, SeqEqual
  <2> QED
    BY <2>6 DEF a, b, x, y
<1>3. ASSUME NEW e \in Frame
      PROVE  TurnedBack(Append(s, e)) = TurnedBack(s) \o <<Echo(e)>>
  <2>1. <<e>> \in Seq(Frame) /\ Append(s, e) = s \o <<e>>
    BY AppendIsConcat
  <2>2. TurnedBack(<<e>>) = <<Echo(e)>>
    <3> DEFINE u == <<e>>
    <3>1. u \in Seq(Frame) /\ Len(u) = 1 /\ u[1] = e
      OBVIOUS
    <3> HIDE DEF u
    <3>2. /\ TurnedBack(u) \in Seq(Frame) /\ Len(TurnedBack(u)) = 1
          /\ TurnedBack(u)[1] = Echo(e)
      BY <3>1, TurnedBackType
    <3>3. TurnedBack(u) = <<Echo(e)>>
      BY <3>2
    <3> QED
      BY <3>3 DEF u
  <2> QED
    BY <1>2, <2>1, <2>2
<1> QED
  BY <1>1, <1>2, <1>3

\* A worker's packets are those of the queue it is at, before and after a step.
LEMMA AtQueue ==
  ASSUME QueuesOwned, QueuesOwned', NEW q
  PROVE  /\ \A w \in Workers : qid[w] = q => InWorker(q) = Unanswered(w)
         /\ \A w \in Workers : qid'[w] = q => InWorker(q)' = Unanswered(w)'
         /\ (\A w \in Workers : qid[w] # q) => InWorker(q) = <<>>
         /\ (\A w \in Workers : qid'[w] # q) => InWorker(q)' = <<>>
<1>1. ASSUME NEW w \in Workers, qid[w] = q PROVE InWorker(q) = Unanswered(w)
  <2>1. {v \in Workers : qid[v] = q} = {w}
    BY <1>1 DEF QueuesOwned
  <2>2. (CHOOSE v \in {w} : TRUE) = w
    OBVIOUS
  <2> QED
    BY <2>1, <2>2 DEF InWorker
<1>2. ASSUME NEW w \in Workers, qid'[w] = q PROVE InWorker(q)' = Unanswered(w)'
  <2>1. {v \in Workers : qid'[v] = q} = {w}
    BY <1>2 DEF QueuesOwned
  <2>2. (CHOOSE v \in {w} : TRUE) = w
    OBVIOUS
  <2>3. InWorker(q)' = Unanswered(CHOOSE v \in {v \in Workers : qid[v] = q} : TRUE)'
    BY <2>1 DEF InWorker
  <2> QED
    BY <2>1, <2>2, <2>3 DEF Unanswered
<1>3. ASSUME \A w \in Workers : qid[w] # q PROVE InWorker(q) = <<>>
  BY <1>3 DEF InWorker
<1>4. ASSUME \A w \in Workers : qid'[w] # q PROVE InWorker(q)' = <<>>
  BY <1>4 DEF InWorker
<1> QED
  BY <1>1, <1>2, <1>3, <1>4

\* One frame more, for the lists of frames of this module.
LEMMA FrameAppend ==
  ASSUME NEW s \in Seq(Frame), NEW t \in Seq(Frame), NEW p \in Frame, NEW T
  PROVE  /\ s \o Append(t, p) = Append(s \o t, p)
         /\ Filter(Append(t, p), T) =
              IF p \in T THEN Append(Filter(t, T), p) ELSE Filter(t, T)
<1> HIDE DEF Frame
<1>1. s \o Append(t, p) = Append(s \o t, p)
  BY ConcatAppend
<1>2. Filter(Append(t, p), T) = IF p \in T THEN Append(Filter(t, T), p) ELSE Filter(t, T)
  BY FilterAppend
<1> QED
  BY <1>1, <1>2

\* Lists of frames, one after the other.
LEMMA FrameConcat ==
  ASSUME NEW x \in Seq(Frame), NEW y \in Seq(Frame), NEW z \in Seq(Frame)
  PROVE  (x \o y) \o z = x \o (y \o z)
  BY ConcatAssociative

\* Echoes that follow a list of frames are its last echoes.
LEMMA EchoesMore ==
  ASSUME NEW l \in Seq(Frame), NEW m \in Seq(Frame), NEW a \in Seq(Frame), a \in Seq(Echoed)
  PROVE  Filter(l \o (m \o a), Echoed) = Filter(l \o m, Echoed) \o a
<1>1. l \o (m \o a) = (l \o m) \o a
  BY ConcatAssociative
<1>2. Filter(a, Echoed) = a
  BY FilterAll
<1> DEFINE u == l \o m
<1>3. u \in Seq(Frame)
  BY ConcatProperties
<1> HIDE DEF u
<1>4. Filter(u \o a, Echoed) = Filter(u, Echoed) \o Filter(a, Echoed)
  BY <1>3, FilterConcat, SMTT(60)
<1> QED
  BY <1>1, <1>2, <1>4 DEF u

\* What waits at a queue is a list of frames, and so are its parts.
LEMMA WaitingType ==
  ASSUME TypeOK, NEW w \in Workers, NEW q \in Queues
  PROVE  /\ TurnedBack(tx_buf[w]) \in Seq(Frame)
         /\ Filter(rx_bufs[w], Requested) \in Seq(Frame)
         /\ Unanswered(w) \in Seq(Frame)
         /\ Filter(rxq[q], Requested) \in Seq(Frame)
         /\ wire[q] \o txq[q] \in Seq(Frame)
<1>1. /\ tx_buf[w] \in Seq(Frame) /\ rx_bufs[w] \in Seq(Frame)
      /\ rxq[q] \in Seq(Frame) /\ wire[q] \in Seq(Frame) /\ txq[q] \in Seq(Frame)
  BY DEF TypeOK
<1>2. /\ TurnedBack(tx_buf[w]) \in Seq(Frame)
      /\ Filter(rx_bufs[w], Requested) \in Seq(Frame)
      /\ Filter(rxq[q], Requested) \in Seq(Frame)
  BY <1>1, TurnedBackType, FilterType
<1> QED
  BY <1>1, <1>2, ConcatProperties DEF Unanswered

\* No queue changes but those of a worker or ring that does.
LEMMA OthersWait ==
  ASSUME QueuesOwned, QueuesOwned', UNCHANGED <<bidi, qid>>, NEW q,
         rxq'[q] = rxq[q],
         \A w \in Workers : qid[w] = q =>
           rx_bufs'[w] = rx_bufs[w] /\ tx_buf'[w] = tx_buf[w]
  PROVE  WaitingAt(q)' = WaitingAt(q)
<1>1. Requested' = Requested
  BY DEF Requested
<1>2. ASSUME NEW w \in Workers, qid[w] = q PROVE InWorker(q)' = InWorker(q)
  <2>1. InWorker(q) = Unanswered(w) /\ InWorker(q)' = Unanswered(w)'
    BY <1>2, AtQueue
  <2> QED
    BY <1>1, <1>2, <2>1 DEF Unanswered
<1>3. ASSUME \A w \in Workers : qid[w] # q PROVE InWorker(q)' = InWorker(q)
  BY <1>3, AtQueue
<1>4. InWorker(q)' = InWorker(q)
  BY <1>2, <1>3
<1> QED
  BY <1>1, <1>4 DEF WaitingAt

\* A worker goes on to its next queue with empty hands.
LEMMA NextQueueUnseen ==
  ASSUME TypeOK, HoldInv, QueuesOwned, QueuesOwned', NEW w \in Workers, NextQueue(w)
  PROVE  UNCHANGED ES!svars
<1> USE DEF loopVars, pktVars, bufVars, nicVars
<1>1. /\ rx_bufs[w] = <<>> /\ tx_buf[w] = <<>>
      /\ UNCHANGED <<bidi, rx_bufs, tx_buf, rxq, txq, wire>>
      /\ \A v \in Workers : v # w => qid'[v] = qid[v]
  BY DEF NextQueue, HoldInv, TypeOK
<1>2. Requested' = Requested
  BY <1>1 DEF Requested
<1>3. Unanswered(w) = <<>> /\ \A v \in Workers : Unanswered(v)' = Unanswered(v)
  <2>1. TurnedBack(<<>>) = <<>> /\ Filter(<<>>, Requested) = <<>>
    BY EmptySeq, TurnedBackParts, FilterEmpty
  <2>2. <<>> \o <<>> = <<>>
    OBVIOUS
  <2> QED
    BY <1>1, <1>2, <2>1, <2>2 DEF Unanswered
<1>4. ASSUME NEW q \in Queues PROVE InWorker(q)' = InWorker(q)
  <2>1. CASE \E v \in Workers : v # w /\ qid[v] = q
    <3>1. PICK v \in Workers : v # w /\ qid[v] = q
      BY <2>1
    <3> QED
      BY <1>1, <1>3, <3>1, AtQueue
  <2>2. CASE \A v \in Workers : v # w => qid[v] # q
    <3>1. InWorker(q) = <<>>
      BY <1>3, <2>2, AtQueue
    <3>2. InWorker(q)' = <<>>
      BY <1>1, <1>3, <2>2, AtQueue
    <3> QED
      BY <3>1, <3>2
  <2> QED
    BY <2>1, <2>2
<1>5. ASSUME NEW q \in Queues
      PROVE  WaitingAt(q)' = WaitingAt(q) /\ RepliedAt(q)' = RepliedAt(q)
  BY <1>1, <1>2, <1>4 DEF WaitingAt, RepliedAt
<1> QED
  BY <1>5, ServiceStays

\* Steps that touch no ring and no list.
LEMMA Unseen ==
  ASSUME QueuesOwned, QueuesOwned',
         UNCHANGED <<bidi, qid, rx_bufs, tx_buf, rxq, txq, wire>>
  PROVE  UNCHANGED ES!svars
<1>1. ASSUME NEW q \in Queues
      PROVE  WaitingAt(q)' = WaitingAt(q) /\ RepliedAt(q)' = RepliedAt(q)
  BY OthersWait DEF RepliedAt
<1> QED
  BY <1>1, ServiceStays

\* A poll moves the requests at the head of the ring to the worker, which has
\* none.
LEMMA PollUnseen ==
  ASSUME TypeOK, HoldInv, QueuesOwned, QueuesOwned', NEW w \in Workers, Poll(w)
  PROVE  UNCHANGED ES!svars
<1> USE DEF loopVars, pktVars, bufVars, nicVars
<1>1. PICK v \in Queues : v = qid[w]
  BY DEF TypeOK
<1> DEFINE n == Lesser(BURST_SIZE, Len(rxq[v]))
           a == SubSeq(rxq[v], 1, n)
           b == SubSeq(rxq[v], n + 1, Len(rxq[v]))
<1>2. rxq[v] \in Seq(Frame) /\ Len(rxq[v]) \in Nat /\ rxq \in [Queues -> Seq(Frame)]
  BY LenProperties DEF TypeOK
<1>3. n \in 0..Len(rxq[v])
  BY <1>2, ConstantTypes DEF Lesser
<1>4. /\ rx_bufs' = [rx_bufs EXCEPT ![w] = a] /\ rxq' = [rxq EXCEPT ![v] = b]
      /\ UNCHANGED <<bidi, qid, tx_buf, txq, wire>>
      /\ rx_bufs[w] = <<>> /\ tx_buf[w] = <<>>
  BY <1>1 DEF Poll, HoldInv
<1>5. Filter(rxq[v], Requested) = Filter(a, Requested) \o Filter(b, Requested)
  <2> HIDE DEF n
  <2> QED
    BY <1>2, <1>3, FilterCut
<1>6. a \in Seq(Frame)
  <2> HIDE DEF n
  <2> QED
    BY <1>2, <1>3, Cut
<1> HIDE DEF a, b
<1>7. /\ rx_bufs'[w] = a /\ rxq'[v] = b
      /\ \A x \in Workers : x # w => rx_bufs'[x] = rx_bufs[x] /\ tx_buf'[x] = tx_buf[x]
      /\ \A q \in Queues : q # v => rxq'[q] = rxq[q]
  BY <1>2, <1>4 DEF TypeOK
<1>8. Requested' = Requested
  BY <1>4 DEF Requested
<1>9. WaitingAt(v)' = WaitingAt(v)
  <2>1. TurnedBack(<<>>) = <<>> /\ Filter(<<>>, Requested) = <<>> /\ <<>> \o <<>> = <<>>
    <3>1. TurnedBack(<<>>) = <<>> /\ Filter(<<>>, Requested) = <<>>
      BY EmptySeq, TurnedBackParts, FilterEmpty
    <3>2. <<>> \o <<>> = <<>>
      OBVIOUS
    <3> QED
      BY <3>1, <3>2
  <2>2. Filter(rxq[v], Requested) \in Seq(Frame) /\ Filter(a, Requested) \in Seq(Frame)
    BY <1>2, <1>6, FilterType
  <2>3. Unanswered(w) = <<>> /\ Unanswered(w)' = Filter(a, Requested)
    <3>1. Unanswered(w)' = <<>> \o Filter(a, Requested)
      BY <1>4, <1>7, <1>8, <2>1 DEF Unanswered
    <3>2. <<>> \o Filter(a, Requested) = Filter(a, Requested)
      BY <2>2, ConcatEmptySeq
    <3>3. Unanswered(w) = <<>>
      BY <1>4, <2>1 DEF Unanswered
    <3> QED
      BY <3>1, <3>2, <3>3
  <2>4. InWorker(v) = <<>> /\ InWorker(v)' = Filter(a, Requested)
    BY <1>1, <1>4, <2>3, AtQueue
  <2>5. <<>> \o Filter(rxq[v], Requested) = Filter(rxq[v], Requested)
    BY <2>2, ConcatEmptySeq
  <2> QED
    BY <1>5, <1>7, <1>8, <2>4, <2>5 DEF WaitingAt
<1>10. ASSUME NEW q \in Queues, q # v PROVE WaitingAt(q)' = WaitingAt(q)
  <2>1. \A x \in Workers : qid[x] = q => rx_bufs'[x] = rx_bufs[x] /\ tx_buf'[x] = tx_buf[x]
    BY <1>1, <1>7, <1>10
  <2> QED
    BY <1>4, <1>7, <1>10, <2>1, OthersWait
<1>11. \A q \in Queues : WaitingAt(q)' = WaitingAt(q) /\ RepliedAt(q)' = RepliedAt(q)
  BY <1>4, <1>9, <1>10 DEF RepliedAt
<1> QED
  BY <1>11, ServiceStays

\* A packet that is discarded, absorbed or answered as ARP was no request, and
\* an ARP answer is no echo.
LEMMA DropUnseen ==
  ASSUME TypeOK, QueuesOwned, QueuesOwned', NEW w \in Workers,
         Discard(w) \/ AnswerArp(w) \/ Absorb(w)
  PROVE  UNCHANGED ES!svars
<1> USE DEF loopVars, pktVars, bufVars, nicVars
<1>1. /\ rx_bufs' = [rx_bufs EXCEPT ![w] = Tail(rx_bufs[w])]
      /\ UNCHANGED <<bidi, qid, tx_buf, rxq, wire>>
  BY DEF Discard, AnswerArp, Absorb, NextPacket
<1>2. PICK s \in Seq(Frame) : s = rx_bufs[w] /\ s # <<>> /\ Packet(w) = Head(s) /\ Head(s) \in Frame
  BY PacketFrame DEF Discard, AnswerArp, Absorb, ValidPacket, TypeOK
<1>3. Head(s) \notin Requested
  <2>1. ~Valid(Head(s)) \/ ~bidi
    BY <1>2, EchoedOrArp DEF Discard, AnswerArp, Absorb
  <2> QED
    BY <2>1 DEF Requested
<1>4. Filter(s, Requested) = Filter(Tail(s), Requested)
  BY <1>2, <1>3, FilterHead
<1>5. Requested' = Requested
  BY <1>1 DEF Requested
<1>6. rx_bufs'[w] = Tail(s) /\ \A x \in Workers : x # w => rx_bufs'[x] = rx_bufs[x]
  BY <1>1, <1>2 DEF TypeOK
<1>7. Unanswered(w)' = Unanswered(w)
  BY <1>1, <1>2, <1>4, <1>5, <1>6 DEF Unanswered
<1>8. ASSUME NEW q \in Queues PROVE WaitingAt(q)' = WaitingAt(q)
  <2>1. CASE qid[w] = q
    <3>1. InWorker(q)' = InWorker(q)
      BY <1>1, <1>7, <2>1, AtQueue
    <3> QED
      BY <1>1, <1>5, <3>1 DEF WaitingAt
  <2>2. CASE qid[w] # q
    <3>1. \A x \in Workers : qid[x] = q => rx_bufs'[x] = rx_bufs[x] /\ tx_buf'[x] = tx_buf[x]
      BY <1>1, <1>6, <2>2
    <3> QED
      BY <1>1, <3>1, OthersWait
  <2> QED
    BY <2>1, <2>2
<1>9. ASSUME NEW q \in Queues PROVE RepliedAt(q)' = RepliedAt(q)
  <2>1. CASE txq'[q] = txq[q]
    BY <1>1, <2>1 DEF RepliedAt
  <2>2. CASE txq'[q] # txq[q]
    <3> DEFINE p == ArpReply(Packet(w))
    <3>1. AnswerArp(w) /\ txq' = [txq EXCEPT ![0] = Append(txq[0], p)] /\ q = 0
      BY <2>2 DEF Discard, AnswerArp, Absorb, TypeOK
    <3>2. p \in Frame /\ p \notin Echoed
      BY <1>2, FrameTypes, EchoedOrArp
    <3> HIDE DEF p
    <3>3. wire[q] \in Seq(Frame) /\ txq[q] \in Seq(Frame) /\ wire'[q] = wire[q]
      BY <1>1 DEF TypeOK
    <3>4. txq'[q] = Append(txq[q], p)
      BY <3>1 DEF TypeOK
    <3>5. wire[q] \o Append(txq[q], p) = Append(wire[q] \o txq[q], p)
      <4>1. PICK x \in Seq(Frame), y \in Seq(Frame) : x = wire[q] /\ y = txq[q]
        BY <3>3
      <4>2. x \o Append(y, p) = Append(x \o y, p)
        BY <3>2, ConcatAppend, SMTT(60)
      <4> QED
        BY <4>1, <4>2
    <3>6. Filter(Append(wire[q] \o txq[q], p), Echoed) = Filter(wire[q] \o txq[q], Echoed)
      <4>1. PICK u \in Seq(Frame) : u = wire[q] \o txq[q]
        BY <3>3, ConcatProperties
      <4>2. Filter(Append(u, p), Echoed) = Filter(u, Echoed)
        BY <3>2, FilterAppend
      <4> QED
        BY <4>1, <4>2
    <3> QED
      BY <3>3, <3>4, <3>5, <3>6 DEF RepliedAt
  <2> QED
    BY <2>1, <2>2
<1> QED
  BY <1>8, <1>9, ServiceStays

\* A valid packet becomes its echo, and stays at its place among the requests.
LEMMA EchoUnseen ==
  ASSUME TypeOK, QueuesOwned, QueuesOwned', NEW w \in Workers, AddEcho(w)
  PROVE  UNCHANGED ES!svars
<1> USE DEF loopVars, pktVars, bufVars, nicVars
<1>1. PICK s \in Seq(Frame) : s = rx_bufs[w] /\ s # <<>> /\ Packet(w) = Head(s) /\ Head(s) \in Frame
  BY PacketFrame DEF AddEcho, ValidPacket, TypeOK
<1>2. PICK t \in Seq(Frame) : t = tx_buf[w]
  BY DEF TypeOK
<1>3. PICK h \in Frame : h = Head(s)
  BY <1>1
<1>4. /\ rx_bufs' = [rx_bufs EXCEPT ![w] = Tail(rx_bufs[w])]
      /\ tx_buf' = [tx_buf EXCEPT ![w] = Append(tx_buf[w], Echo(Packet(w)))]
      /\ UNCHANGED <<bidi, qid, rxq, txq, wire>>
      /\ bidi /\ Valid(Packet(w))
  BY DEF AddEcho, ValidPacket, NextPacket
<1>5. /\ rx_bufs'[w] = Tail(s) /\ tx_buf'[w] = Append(t, Echo(h))
      /\ \A x \in Workers : x # w => rx_bufs'[x] = rx_bufs[x] /\ tx_buf'[x] = tx_buf[x]
  BY <1>1, <1>2, <1>3, <1>4 DEF TypeOK
<1>6. Requested' = Requested /\ h \in Requested
  BY <1>1, <1>3, <1>4 DEF Requested
<1> DEFINE a == TurnedBack(t)
           r == Filter(Tail(s), Requested)
<1>7. Filter(s, Requested) = <<h>> \o r
  BY <1>1, <1>3, <1>6, FilterHead
<1>8. TurnedBack(Append(t, Echo(h))) = a \o <<h>>
  <2>1. PICK e \in Frame : e = Echo(h)
    BY FrameTypes
  <2>2. TurnedBack(Append(t, e)) = TurnedBack(t) \o <<Echo(e)>>
    BY TurnedBackParts
  <2>3. Echo(e) = h
    BY <1>3, <2>1, EchoTwice
  <2> QED
    BY <2>1, <2>2, <2>3
<1>9. a \in Seq(Frame) /\ r \in Seq(Frame) /\ <<h>> \in Seq(Frame)
  <2>1. Tail(s) \in Seq(Frame)
    BY <1>1, HeadTailProperties
  <2>2. r \in Seq(Frame)
    BY <2>1, FilterType
  <2>3. a \in Seq(Frame)
    BY TurnedBackType
  <2> QED
    BY <1>3, <2>2, <2>3
<1>10. Unanswered(w) = a \o (<<h>> \o r) /\ Unanswered(w)' = (a \o <<h>>) \o r
  <2>1. Unanswered(w) = a \o (<<h>> \o r)
    BY <1>1, <1>2, <1>7 DEF Unanswered
  <2>2. Unanswered(w)' = (a \o <<h>>) \o r
    BY <1>5, <1>6, <1>8 DEF Unanswered
  <2> QED
    BY <2>1, <2>2
<1> HIDE DEF a, r
<1>11. Unanswered(w)' = Unanswered(w)
  BY <1>9, <1>10, ConcatAssociative
<1>12. ASSUME NEW q \in Queues PROVE WaitingAt(q)' = WaitingAt(q)
  <2>1. CASE qid[w] = q
    <3>1. InWorker(q)' = InWorker(q)
      BY <1>4, <1>11, <2>1, AtQueue
    <3> QED
      BY <1>4, <1>6, <3>1 DEF WaitingAt
  <2>2. CASE qid[w] # q
    <3>1. \A x \in Workers : qid[x] = q => rx_bufs'[x] = rx_bufs[x] /\ tx_buf'[x] = tx_buf[x]
      BY <1>5, <2>2
    <3> QED
      BY <1>4, <3>1, OthersWait
  <2> QED
    BY <2>1, <2>2
<1>13. \A q \in Queues : RepliedAt(q)' = RepliedAt(q)
  BY <1>4 DEF RepliedAt
<1> QED
  BY <1>12, <1>13, ServiceStays

\* The NIC sends what the service counts as replied.
LEMMA TransmitUnseen ==
  ASSUME TypeOK, QueuesOwned, QueuesOwned', NEW v \in Queues, Transmit(v)
  PROVE  UNCHANGED ES!svars
<1> USE DEF loopVars, pktVars, bufVars, nicVars
<1>1. PICK s \in Seq(Frame), u \in Seq(Frame) : s = txq[v] /\ u = wire[v] /\ s # <<>>
  BY DEF Transmit, TypeOK
<1>2. /\ txq' = [txq EXCEPT ![v] = Tail(s)] /\ wire' = [wire EXCEPT ![v] = Append(u, Head(s))]
      /\ UNCHANGED <<bidi, qid, rx_bufs, tx_buf, rxq>>
  BY <1>1 DEF Transmit
<1>3. /\ txq'[v] = Tail(s) /\ wire'[v] = Append(u, Head(s))
      /\ \A q \in Queues : q # v => txq'[q] = txq[q] /\ wire'[q] = wire[q]
  BY <1>2 DEF TypeOK
<1>4. Append(u, Head(s)) \o Tail(s) = u \o s
  <2>1. PICK h \in Frame, t \in Seq(Frame) : h = Head(s) /\ t = Tail(s)
    BY <1>1, HeadTailProperties
  <2>2. s = <<h>> \o t /\ <<h>> \in Seq(Frame)
    BY <1>1, <2>1
  <2>3. Append(u, h) = u \o <<h>>
    BY <1>1, <2>1, AppendIsConcat
  <2>4. (u \o <<h>>) \o t = u \o (<<h>> \o t)
    <3> DEFINE x == <<h>>
    <3>1. x \in Seq(Frame) /\ u \in Seq(Frame) /\ t \in Seq(Frame)
      BY <1>1, <2>1, <2>2
    <3> HIDE DEF x
    <3>2. (u \o x) \o t = u \o (x \o t)
      BY <3>1, ConcatAssociative, SMTT(60)
    <3> QED
      BY <3>2 DEF x
  <2> QED
    BY <2>1, <2>2, <2>3, <2>4
<1>5. ASSUME NEW q \in Queues
      PROVE  WaitingAt(q)' = WaitingAt(q) /\ RepliedAt(q)' = RepliedAt(q)
  <2>1. WaitingAt(q)' = WaitingAt(q)
    BY <1>2, OthersWait
  <2>2. wire'[q] \o txq'[q] = wire[q] \o txq[q]
    BY <1>1, <1>3, <1>4
  <2> QED
    BY <2>1, <2>2 DEF RepliedAt
<1> QED
  BY <1>5, ServiceStays

\* A frame that arrives is a request, or one that will not be answered, or it
\* is dropped.
LEMMA ArriveSeen ==
  ASSUME TypeOK, QueuesOwned, QueuesOwned', NEW v \in Queues, NEW t \in Traffic,
         Arrive(v, t)
  PROVE  ES!Next \/ UNCHANGED ES!svars
<1> USE DEF loopVars, pktVars, bufVars, nicVars
<1>1. UNCHANGED <<bidi, qid, rx_bufs, tx_buf, txq, wire>>
  BY DEF Arrive
<1>2. CASE rxq' = rxq
  BY <1>1, <1>2, Unseen
<1>3. CASE rxq' # rxq
  <2>1. PICK i \in 1..MaxPkts : i = arrived + 1
    BY ConstantTypes DEF Arrive, TypeOK
  <2>2. t \in Frame /\ i \in Nat
    BY ServerAssumption
  <2>3. PICK p \in Frame : p = [t EXCEPT !.id = i]
    BY <2>2, FrameTypes
  <2>4. PICK s \in Seq(Frame) : s = rxq[v]
    BY DEF TypeOK
  <2>5. rxq' = [rxq EXCEPT ![v] = Append(s, p)]
    BY <1>3, <2>1, <2>3, <2>4 DEF Arrive
  <2>6. rxq'[v] = Append(s, p) /\ \A q \in Queues : q # v => rxq'[q] = rxq[q]
    BY <2>5 DEF TypeOK
  <2>7. Requested' = Requested
    BY <1>1 DEF Requested
  <2>8. ASSUME NEW q \in Queues PROVE RepliedAt(q)' = RepliedAt(q)
    BY <1>1 DEF RepliedAt
  <2>9. ASSUME NEW q \in Queues, q # v PROVE WaitingAt(q)' = WaitingAt(q)
    BY <1>1, <2>6, <2>9, OthersWait
  <2>10. Filter(Append(s, p), Requested) =
           IF p \in Requested THEN Append(Filter(s, Requested), p) ELSE Filter(s, Requested)
    <3>1. p \in Frame /\ s \in Seq(Frame)
      BY <2>3, <2>4
    <3> QED
      BY <3>1, FrameAppend
  <2>11. InWorker(v)' = InWorker(v) /\ InWorker(v) \in Seq(Frame)
    <3>1. \A x \in Workers : Unanswered(x)' = Unanswered(x) /\ Unanswered(x) \in Seq(Frame)
      BY <1>1, <2>7, WaitingType DEF Unanswered
    <3>2. CASE \E x \in Workers : qid[x] = v
      BY <1>1, <3>1, <3>2, AtQueue
    <3>3. CASE \A x \in Workers : qid[x] # v
      BY <1>1, <3>3, AtQueue, EmptySeq
    <3> QED
      BY <3>2, <3>3
  <2>12. CASE p \notin Requested
    <3>1. WaitingAt(v)' = WaitingAt(v)
      BY <2>4, <2>6, <2>7, <2>10, <2>11, <2>12 DEF WaitingAt
    <3> QED
      BY <2>8, <2>9, <3>1, ServiceStays
  <2>13. CASE p \in Requested
    <3>1. Valid(t)
      <4>1. p.type = t.type /\ p.eth = t.eth /\ p.ip = t.ip
        BY <2>2, <2>3 DEF Frame
      <4>2. Valid(p)
        BY <2>13 DEF Requested
      <4> QED
        BY <4>1, <4>2 DEF Valid, CheckEthHdr, ForThisHost, IsArp
    <3>2. PICK x \in Seq(Frame), y \in Seq(Frame) : x = InWorker(v) /\ y = Filter(s, Requested)
      BY <2>4, <2>11, FilterType
    <3>3. x \o Append(y, p) = Append(x \o y, p)
      BY <2>3, <3>2, FrameAppend
    <3>4. WaitingAt(v)' = x \o Append(y, p) /\ WaitingAt(v) = x \o y
      <4>1. WaitingAt(v) = x \o y
        BY <2>4, <3>2 DEF WaitingAt
      <4>2. WaitingAt(v)' = x \o Append(y, p)
        BY <2>6, <2>7, <2>10, <2>11, <2>13, <3>2 DEF WaitingAt
      <4> QED
        BY <4>1, <4>2
    <3>5. WaitingAt(v)' = Append(WaitingAt(v), [t EXCEPT !.id = i])
      BY <2>3, <3>3, <3>4
    <3> QED
      BY <2>8, <2>9, <3>1, <3>5, ServiceRequest
  <2> QED
    BY <2>12, <2>13
<1> QED
  BY <1>2, <1>3

\* A sequence without the part in front.
LEMMA Drop ==
  ASSUME NEW x \in Seq(Frame), NEW y \in Seq(Frame)
  PROVE  /\ SubSeq(x \o y, Len(x) + 1, Len(x \o y)) = y
         /\ Len(x \o y) = Len(x) + Len(y) /\ Len(x) \in Nat /\ Len(y) \in Nat
         /\ \A i \in 1..Len(x) : (x \o y)[i] = x[i]
<1> HIDE DEF Frame
<1> DEFINE z == x \o y
           d == SubSeq(z, Len(x) + 1, Len(z))
<1>1. /\ z \in Seq(Frame) /\ Len(z) = Len(x) + Len(y) /\ Len(x) \in Nat /\ Len(y) \in Nat
      /\ \A i \in 1..(Len(x) + Len(y)) : z[i] = IF i <= Len(x) THEN x[i] ELSE y[i - Len(x)]
  BY ConcatProperties, LenProperties
<1> HIDE DEF z
<1>2. Len(x) \in 0..Len(z)
  BY <1>1
<1>3. d \in Seq(Frame) /\ Len(d) = Len(y)
  <2>1. d \in Seq(Frame) /\ Len(d) = Len(z) - Len(x)
    BY <1>1, <1>2, Cut
  <2> QED
    BY <1>1, <2>1
<1>4. \A i \in 1..Len(y) : d[i] = y[i]
  <2> TAKE i \in 1..Len(y)
  <2>1. d[i] = z[Len(x) + i]
    BY <1>1
  <2>2. /\ Len(x) + i \in 1..(Len(x) + Len(y)) /\ ~(Len(x) + i <= Len(x))
        /\ (Len(x) + i) - Len(x) = i
    BY <1>1
  <2> QED
    BY <1>1, <2>1, <2>2
<1>5. d = y
  <2> HIDE DEF d
  <2> QED
    BY <1>3, <1>4, SeqEqual
<1>6. \A i \in 1..Len(x) : z[i] = x[i]
  BY <1>1
<1> QED
  BY <1>1, <1>5, <1>6 DEF z

\* The part of tx_buf that the NIC accepts answers as many of the oldest
\* requests of the queue.
LEMMA BurstReplies ==
  ASSUME TypeOK, EchoInv, QueuesOwned, QueuesOwned', NEW w \in Workers, TxBurst(w)
  PROVE  ES!Next
<1> USE DEF loopVars, pktVars, bufVars, nicVars
<1>1. PICK v \in Queues : v = qid[w]
  BY DEF TypeOK
<1>2. PICK t : t \in Seq(Frame) /\ t = tx_buf[w] /\ t \in Seq(Echoed)
  BY DEF TypeOK, EchoInv
<1>3. txq[v] \in Seq(Frame) /\ Len(txq[v]) \in Nat /\ Len(t) \in Nat /\ wire[v] \in Seq(Frame)
  BY <1>2, LenProperties DEF TypeOK
<1>4. PICK n \in 1..Len(t) : n = Taken(w)
  <2>1. PICK l \in Nat, m \in Nat : l = Len(t) /\ m = Len(txq[v])
    BY <1>3
  <2>2. Taken(w) = Lesser(l, TX_RING - m) /\ Taken(w) > 0
    BY <1>1, <1>2, <2>1 DEF TxBurst, Taken
  <2>3. Lesser(l, TX_RING - m) \in Int /\ Lesser(l, TX_RING - m) <= l
    BY <2>1, ConstantTypes DEF Lesser
  <2> QED
    BY <2>1, <2>2, <2>3
<1>5. PICK a, b :
        /\ a \in Seq(Frame) /\ b \in Seq(Frame)
        /\ a = SubSeq(t, 1, n) /\ b = SubSeq(t, n + 1, Len(t))
        /\ a \in Seq(Echoed) /\ t = a \o b /\ Len(a) = n
  <2>1. n \in 0..Len(t) /\ t \in Seq(Frame) /\ t \in Seq(Echoed)
    BY <1>2, <1>3, <1>4
  <2>2. /\ SubSeq(t, 1, n) \in Seq(Frame) /\ SubSeq(t, n + 1, Len(t)) \in Seq(Frame)
        /\ t = SubSeq(t, 1, n) \o SubSeq(t, n + 1, Len(t)) /\ Len(SubSeq(t, 1, n)) = n
    BY <2>1, Cut
  <2>3. SubSeq(t, 1, n) \in Seq(Echoed)
    BY <2>1, Cut
  <2> QED
    BY <2>2, <2>3
<1>6. /\ tx_buf' = [tx_buf EXCEPT ![w] = b] /\ txq' = [txq EXCEPT ![v] = txq[v] \o a]
      /\ UNCHANGED <<bidi, qid, rx_bufs, rxq, wire>>
  BY <1>1, <1>2, <1>4, <1>5 DEF TxBurst, Unsent
<1>7. /\ tx_buf'[w] = b /\ txq'[v] = txq[v] \o a
      /\ \A x \in Workers : x # w => tx_buf'[x] = tx_buf[x]
      /\ \A q \in Queues : q # v => txq'[q] = txq[q]
  BY <1>6 DEF TypeOK
<1>8. Requested' = Requested
  BY <1>6 DEF Requested
<1>9. PICK f, g :
        /\ f \in Seq(Frame) /\ g \in Seq(Frame)
        /\ f = Filter(rx_bufs[w], Requested) /\ g = Filter(rxq[v], Requested)
  BY WaitingType
<1>10. PICK x, y :
         /\ x \in Seq(Frame) /\ y \in Seq(Frame)
         /\ x = TurnedBack(a) /\ y = TurnedBack(b) /\ TurnedBack(t) = x \o y
         /\ Len(x) = n /\ \A i \in 1..n : x[i] = Echo(a[i])
  <2>1. a \in Seq(Frame) /\ b \in Seq(Frame) /\ t = a \o b /\ Len(a) = n
    BY <1>5
  <2>2. TurnedBack(a \o b) = TurnedBack(a) \o TurnedBack(b)
    BY <2>1, TurnedBackParts
  <2>3. /\ TurnedBack(a) \in Seq(Frame) /\ TurnedBack(b) \in Seq(Frame)
        /\ Len(TurnedBack(a)) = n /\ \A i \in 1..n : TurnedBack(a)[i] = Echo(a[i])
    BY <2>1, TurnedBackType
  <2> QED
    BY <2>1, <2>2, <2>3
<1>11. PICK z : z \in Seq(Frame) /\ z = (y \o f) \o g
  BY <1>9, <1>10, ConcatProperties
<1>12. WaitingAt(v) = x \o z /\ WaitingAt(v)' = z
  <2>1. Unanswered(w) = (x \o y) \o f /\ Unanswered(w)' = y \o f
    BY <1>2, <1>6, <1>7, <1>8, <1>9, <1>10 DEF Unanswered
  <2>2. InWorker(v) = (x \o y) \o f /\ InWorker(v)' = y \o f
    BY <1>1, <1>6, <2>1, AtQueue
  <2>3. WaitingAt(v) = ((x \o y) \o f) \o g /\ WaitingAt(v)' = (y \o f) \o g
    BY <1>6, <1>8, <1>9, <2>2 DEF WaitingAt
  <2>4. ((x \o y) \o f) \o g = x \o ((y \o f) \o g)
    <3>1. x \in Seq(Frame) /\ y \in Seq(Frame) /\ f \in Seq(Frame) /\ g \in Seq(Frame)
      BY <1>9, <1>10
    <3>2. (x \o y) \o f = x \o (y \o f)
      BY <3>1, FrameConcat
    <3>3. ASSUME NEW k \in Seq(Frame) PROVE (x \o k) \o g = x \o (k \o g)
      BY <3>1, FrameConcat, ZenonT(60)
    <3>4. y \o f \in Seq(Frame)
      BY <3>1, ConcatProperties
    <3> QED
      BY <3>2, <3>3, <3>4
  <2> QED
    BY <1>11, <2>3, <2>4
<1>13. /\ n \in 1..Len(x \o z) /\ z = SubSeq(x \o z, n + 1, Len(x \o z))
       /\ \A i \in 1..n : (x \o z)[i] = x[i]
  <2>1. /\ SubSeq(x \o z, Len(x) + 1, Len(x \o z)) = z
        /\ Len(x \o z) = Len(x) + Len(z) /\ Len(z) \in Nat
        /\ \A i \in 1..Len(x) : (x \o z)[i] = x[i]
    BY <1>10, <1>11, Drop
  <2>2. Len(x) = n /\ n \in Nat /\ n > 0
    BY <1>3, <1>4, <1>10
  <2> QED
    BY <2>1, <2>2
<1>14. a = [i \in 1..n |-> ES!Answer((x \o z)[i])]
  <2>1. Len(a) = n /\ a \in Seq(Frame) /\ n \in Nat
    <3>1. n \in Nat
      BY <1>3, <1>4
    <3> QED
      BY <1>5, <3>1
  <2>2. ASSUME NEW i \in 1..n PROVE a[i] = ES!Answer((x \o z)[i])
    <3>1. (x \o z)[i] = Echo(a[i]) /\ a[i] \in Frame
      BY <1>10, <1>13, <2>1
    <3>2. PICK p \in Frame : p = a[i]
      BY <3>1
    <3>3. Echo(p) \in Frame
      BY <3>2, FrameTypes
    <3>4. ES!Answer(Echo(p)) = p
      BY <3>2, <3>3, EchoTwice
    <3> QED
      BY <3>1, <3>2, <3>4
  <2> DEFINE e(i) == ES!Answer((x \o z)[i])
  <2>3. \A i \in 1..n : a[i] = e(i)
    BY <2>2
  <2> HIDE DEF e
  <2>4. a = [i \in 1..n |-> e(i)]
    BY <2>1, <2>3
  <2> QED
    BY <2>4 DEF e
<1>15. RepliedAt(v)' = RepliedAt(v) \o a
  <2>1. wire[v] \in Seq(Frame) /\ txq[v] \in Seq(Frame) /\ a \in Seq(Frame) /\ a \in Seq(Echoed)
    BY <1>3, <1>5
  <2>2. Filter(wire[v] \o (txq[v] \o a), Echoed) = Filter(wire[v] \o txq[v], Echoed) \o a
    BY <2>1, EchoesMore
  <2> QED
    BY <1>6, <1>7, <2>2 DEF RepliedAt
<1>16. ASSUME NEW q \in Queues, q # v
       PROVE  WaitingAt(q)' = WaitingAt(q) /\ RepliedAt(q)' = RepliedAt(q)
  <2>1. \A k \in Workers : qid[k] = q => rx_bufs'[k] = rx_bufs[k] /\ tx_buf'[k] = tx_buf[k]
    BY <1>1, <1>6, <1>7, <1>16
  <2>2. WaitingAt(q)' = WaitingAt(q)
    BY <1>6, <2>1, OthersWait
  <2> QED
    BY <1>6, <1>7, <1>16, <2>2 DEF RepliedAt
<1>17. /\ n \in 1..Len(WaitingAt(v))
       /\ WaitingAt(v)' = SubSeq(WaitingAt(v), n + 1, Len(WaitingAt(v)))
  BY <1>12, <1>13
<1>18. RepliedAt(v)' = RepliedAt(v) \o [i \in 1..n |-> ES!Answer(WaitingAt(v)[i])]
  BY <1>12, <1>14, <1>15
<1> QED
  BY <1>16, <1>17, <1>18, ServiceReply

\* Every step is one of the service, or one that the service does not see.
LEMMA ServiceStep ==
  ASSUME TypeOK, HoldInv, EchoInv, QueuesOwned, QueuesOwned', [Next]_vars
  PROVE  [ES!Next]_(ES!svars)
<1> USE DEF loopVars, pktVars, bufVars, nicVars
<1>1. ASSUME NEW w \in Workers, Worker(w)
      PROVE  ES!Next \/ UNCHANGED ES!svars
  <2>1. CASE \/ LeaveLoop(w) \/ IdleStop(w) \/ KeepPolling(w) \/ SmashEcho(w)
             \/ EndBurst(w) \/ FinishTx(w)
    <3>1. UNCHANGED <<bidi, qid, rx_bufs, tx_buf, rxq, txq, wire>>
      BY <2>1 DEF LeaveLoop, IdleStop, KeepPolling, EmptyPoll, SmashEcho,
                  EndBurst, FinishTx
    <3> QED
      BY <3>1, Unseen
  <2>2. CASE GiveUp(w) \/ SkipQueue(w) \/ SelectQueue(w)
    BY <2>2, NextQueueUnseen DEF GiveUp, SkipQueue, SelectQueue
  <2> QED
    BY <1>1, <2>1, <2>2, PollUnseen, DropUnseen, EchoUnseen, BurstReplies DEF Worker
<1>2. CASE MainStop \/ MainExit \/ Tick
  <2>1. UNCHANGED <<bidi, qid, rx_bufs, tx_buf, rxq, txq, wire>>
    BY <1>2 DEF MainStop, MainExit, Tick
  <2> QED
    BY <2>1, Unseen
<1>3. CASE UNCHANGED vars
  <2>1. UNCHANGED <<bidi, qid, rx_bufs, tx_buf, rxq, txq, wire>>
    BY <1>3 DEF vars
  <2> QED
    BY <2>1, Unseen
<1> QED
  BY <1>1, <1>2, <1>3, TransmitUnseen, ArriveSeen DEF Next

\* Nothing waits and nothing is replied in the beginning.
LEMMA ServiceInit == Init => ES!Init
<1> SUFFICES ASSUME Init PROVE ES!Init
  OBVIOUS
<1>1. \A w \in Workers : Unanswered(w) = <<>>
  <2>1. TurnedBack(<<>>) = <<>> /\ Filter(<<>>, Requested) = <<>>
    BY EmptySeq, TurnedBackParts, FilterEmpty
  <2>2. <<>> \o <<>> = <<>>
    OBVIOUS
  <2> QED
    BY <2>1, <2>2 DEF Init, Unanswered
<1>2. \A q \in Queues : InWorker(q) = <<>>
  BY <1>1 DEF InWorker
<1>3. ASSUME NEW q \in Queues PROVE WaitingAt(q) = <<>> /\ RepliedAt(q) = <<>>
  <2>1. rxq[q] = <<>> /\ txq[q] = <<>> /\ wire[q] = <<>>
    BY DEF Init
  <2>2. Filter(<<>>, Requested) = <<>> /\ Filter(<<>>, Echoed) = <<>>
    BY FilterEmpty
  <2>3. <<>> \o <<>> = <<>>
    OBVIOUS
  <2> QED
    BY <1>2, <2>1, <2>2, <2>3 DEF WaitingAt, RepliedAt
<1>4. /\ [q \in Queues |-> WaitingAt(q)] = [q \in Queues |-> <<>>]
      /\ [q \in Queues |-> RepliedAt(q)] = [q \in Queues |-> <<>>]
  BY <1>3
<1> QED
  BY <1>4 DEF ES!Init, WaitingAt, RepliedAt

\* do_server implements the echo service, for every number of cores and queues,
\* every burst, ring and list length and all traffic: per queue the answers are
\* the requests with their addresses exchanged, in the order of arrival, each
\* at most once, whatever part of a burst rte_eth_tx_burst accepts.
THEOREM EchoesHolds == Spec => Echoes
<1>1. Init => HoldInv
  BY DEF Init, HoldInv
<1>2. TypeOK /\ HoldInv /\ EchoInv /\ QueuesOwned /\ QueuesOwned' /\ [Next]_vars
        => [ES!Next]_(ES!svars)
  BY ServiceStep
<1> QED
  BY <1>1, <1>2, InitTypes, NextTypes, HoldStep, EchoInit, EchoStep, OwnInit,
     OwnStep, OwnDisjoint, ServiceInit, PTL DEF Spec, Echoes, ES!Spec
==============================================================================
