---------------------------- MODULE LatencyProofs ----------------------------
(***************************************************************************)
(* Proofs about module LatencyClient, for every batch, ring and pool size, *)
(* every width of nb_tx and all traffic.                                   *)
(***************************************************************************)
EXTENDS LatencyClient, CommonLemmas, TLAPS

\* The assumption on the constants, one by one.
LEMMA ConstantTypes ==
  /\ Burst \in Nat /\ Burst > 0 /\ BURST_SIZE \in Nat /\ BURST_SIZE > 0
  /\ RX_RING \in Nat /\ TX_RING \in Nat /\ NUM_MBUFS \in Nat
  /\ Hz \in Nat /\ U32 \in Nat /\ Burst < U32
  BY LatencyAssumption

\* The rings and the burst at hand hold packets, and no ring is overfull.
RingInv == Len(txq) <= TX_RING

-----------------------------------------------------------------------------
(* Type correctness.                                                        *)

\* A new batch changes the kinds of the packets under way and no length.
LEMMA OutdateTypes ==
  ASSUME NEW s \in Seq(Kinds)
  PROVE  Outdate(s) \in Seq(Kinds) /\ Len(Outdate(s)) = Len(s)
  BY DEF Outdate, Kinds

\* n packets of one kind.
LEMMA TimesTypes ==
  ASSUME NEW n \in Nat, NEW k \in Kinds
  PROVE  Times(n, k) \in Seq(Kinds) /\ Len(Times(n, k)) = n
  BY DEF Times

\* What rte_eth_tx_burst takes: at most the batch, and at most what fits.
LEMMA TakenTypes ==
  ASSUME NEW s \in Seq(Kinds), Len(s) <= TX_RING
  PROVE  /\ Lesser(Burst, TX_RING - Len(s)) \in 0..Burst
         /\ Len(s) + Lesser(Burst, TX_RING - Len(s)) <= TX_RING
<1>1. Len(s) \in Nat
  OBVIOUS
<1> DEFINE l == Len(s)
<1> HIDE DEF l
<1>2. l \in Nat /\ l <= TX_RING
  BY <1>1 DEF l
<1>3. Lesser(Burst, TX_RING - l) \in 0..Burst /\ l + Lesser(Burst, TX_RING - l) <= TX_RING
  BY <1>2, ConstantTypes DEF Lesser
<1> QED
  BY <1>3 DEF l

\* A poll leaves a ring with NbRx packets less.
LEMMA PollTypes ==
  ASSUME TypeOK
  PROVE  /\ NbRx \in Nat /\ NbRx <= Len(rxq)
         /\ SubSeq(rxq, 1, NbRx) \in Seq(Kinds)
         /\ Len(SubSeq(rxq, 1, NbRx)) = NbRx
         /\ SubSeq(rxq, NbRx + 1, Len(rxq)) \in Seq(Kinds)
         /\ Len(SubSeq(rxq, NbRx + 1, Len(rxq))) = Len(rxq) - NbRx
<1>1. rxq \in Seq(Kinds)
  BY DEF TypeOK
<1>2. NbRx \in Nat /\ NbRx <= Len(rxq)
  BY <1>1, ConstantTypes DEF NbRx, Lesser
<1> QED
  BY <1>1, <1>2, SubSeqType, SubSeqLen

Inv == TypeOK /\ RingInv

\* Every step of do_latency_client up to its wait loop keeps the types.
LEMMA BatchTypes ==
  ASSUME Inv, Start \/ EnterLoop \/ Report \/ Alloc \/ Send
  PROVE  Inv'
<1> USE ConstantTypes DEF Inv, flagVars, nicVars, poolVars
<1>1. CASE Start \/ EnterLoop \/ Report
  BY <1>1 DEF TypeOK, RingInv, Start, EnterLoop, Report
<1>2. CASE Alloc
  <2>1. tx_free' \in Nat
    BY <1>2 DEF TypeOK, Alloc
  <2> QED
    BY <1>2, <2>1 DEF TypeOK, RingInv, Alloc
<1>3. CASE Send
  <2> DEFINE n == Lesser(Burst, TX_RING - Len(txq))
  <2>1. n \in 0..Burst /\ Len(txq) + n <= TX_RING
    BY TakenTypes DEF TypeOK, RingInv
  <2>2. /\ nb_tx' = n /\ txq' = Outdate(txq) \o Times(n, "cur")
        /\ tx_lost' = tx_lost + (Burst - n)
    BY <1>3 DEF Send, Forget
  <2> HIDE DEF n
  <2>3. nb_tx' \in 0..(U32 - 1)
    BY <2>1, <2>2
  <2>4. n \in Nat /\ "cur" \in Kinds
    BY <2>1 DEF Kinds
  <2>5. txq' \in Seq(Kinds) /\ Len(txq') <= TX_RING
    <3>1. Outdate(txq) \in Seq(Kinds) /\ Len(Outdate(txq)) = Len(txq)
      BY OutdateTypes DEF TypeOK
    <3>2. Times(n, "cur") \in Seq(Kinds) /\ Len(Times(n, "cur")) = n
      BY <2>4, TimesTypes
    <3>3. /\ Outdate(txq) \o Times(n, "cur") \in Seq(Kinds)
          /\ Len(Outdate(txq) \o Times(n, "cur")) = Len(txq) + n
      BY <3>1, <3>2
    <3> QED
      BY <2>1, <2>2, <3>3
  <2>6. rxq' \in Seq(Kinds)
    BY <1>3, OutdateTypes DEF TypeOK, Send
  <2>7. net' \in [Echoes -> Nat]
    <3>1. net["cur"] \in Nat /\ net["old"] \in Nat
      BY DEF TypeOK, Echoes
    <3> QED
      BY <1>3, <3>1 DEF Send, OutdateNet
  <2>8. tx_lost' \in Nat
    BY <2>1, <2>2 DEF TypeOK
  <2>9. tx_free' = tx_free /\ rx_free' = rx_free /\ rx_lost' = rx_lost
    BY <1>3 DEF Send, Forget
  <2> QED
    BY <1>3, <2>3, <2>5, <2>6, <2>7, <2>8, <2>9 DEF TypeOK, RingInv, Send
<1> QED
  BY <1>1, <1>2, <1>3

\* So does every step of the wait loop and over a packet of a burst.
LEMMA ReceiveTypes ==
  ASSUME Inv,
         \/ Timeout \/ Receive \/ Interrupted
         \/ Reject \/ NotIp \/ Measure \/ EndBurst
  PROVE  Inv'
<1> USE ConstantTypes DEF Inv, flagVars, nicVars, poolVars
<1>1. CASE Timeout
  <2>1. rx_lost' \in Nat
    <3>1. rx_lost \in Nat /\ NbRx \in Nat
      BY PollTypes DEF TypeOK
    <3> QED
      BY <1>1, <3>1 DEF Timeout
  <2> QED
    BY <1>1, <2>1, PollTypes DEF TypeOK, RingInv, Timeout, RxBurst
<1>2. CASE Receive
  BY <1>2, PollTypes DEF TypeOK, RingInv, Receive, RxBurst
<1>3. CASE Interrupted
  BY <1>3 DEF TypeOK, RingInv, Interrupted
<1>4. ASSUME NEW K, TakePacket(K)
      PROVE  /\ bufs' \in Seq(Kinds) /\ Head(bufs) \in Kinds
             /\ rx_free' \in Nat
  BY <1>4 DEF TypeOK, TakePacket
<1>5. (nb_tx - 1) % U32 \in 0..(U32 - 1)
  BY DEF TypeOK
<1>6. CASE Reject
  <2>1. txq' \in Seq(Kinds) /\ Len(txq') <= TX_RING
    <3>1. CASE txq' = txq
      BY <3>1 DEF TypeOK, RingInv
    <3>2. CASE txq' = Append(txq, "arp") /\ Len(txq) < TX_RING
      <4>1. txq \in Seq(Kinds) /\ "arp" \in Kinds /\ Len(txq) \in Nat
        BY DEF TypeOK, Kinds
      <4>2. Len(txq') = Len(txq) + 1 /\ txq' \in Seq(Kinds)
        BY <3>2, <4>1
      <4> QED
        BY <3>2, <4>1, <4>2
    <3> QED
      BY <1>6, <3>1, <3>2 DEF Reject
  <2>2. tx_free' \in Nat
    BY <1>6 DEF TypeOK, Reject
  <2> QED
    BY <1>4, <1>6, <2>1, <2>2 DEF TypeOK, RingInv, Reject, TakePacket
<1>7. CASE NotIp
  BY <1>4, <1>5, <1>7 DEF TypeOK, RingInv, NotIp, CountDown, TakePacket
<1>8. CASE Measure
  BY <1>4, <1>5, <1>8 DEF TypeOK, RingInv, Measure, CountDown, TakePacket
<1>9. CASE EndBurst
  <2>1. pc' \in {"recv", "loop"} /\ waited' \in 0..(Hz + 1)
    BY <1>9 DEF TypeOK, EndBurst
  <2> QED
    BY <1>9, <2>1 DEF TypeOK, RingInv, EndBurst
<1> QED
  BY <1>1, <1>2, <1>3, <1>6, <1>7, <1>8, <1>9

\* So do the signal, the NIC, the network and the clock.
LEMMA EnvironmentTypes ==
  ASSUME Inv, Environment
  PROVE  Inv'
<1> USE ConstantTypes DEF Inv, flagVars, nicVars, poolVars
<1>1. CASE HandleInt
  BY <1>1 DEF TypeOK, RingInv, HandleInt, Active
<1>3. CASE Transmit
  <2>1. txq \in Seq(Kinds) /\ txq # <<>> /\ txq' = Tail(txq)
    BY <1>3 DEF TypeOK, Transmit
  <2>2. Len(txq') = Len(txq) - 1 /\ Len(txq) \in Nat /\ txq' \in Seq(Kinds)
    BY <2>1
  <2>3. Len(txq') <= TX_RING
    BY <2>2 DEF RingInv
  <2>4. net' \in [Echoes -> Nat]
    <3>1. \/ net' = net
          \/ \E k \in Echoes : net' = [net EXCEPT ![k] = net[k] + 1]
      BY <1>3 DEF Transmit
    <3>2. \A k \in Echoes : net[k] + 1 \in Nat
      BY DEF TypeOK
    <3> QED
      BY <3>1, <3>2 DEF TypeOK
  <2>5. tx_free' \in Nat
    BY <1>3 DEF TypeOK, Transmit
  <2> QED
    BY <1>3, <2>2, <2>3, <2>4, <2>5 DEF TypeOK, RingInv, Transmit
<1>4. ASSUME NEW k \in Echoes, Lose(k)
      PROVE  Inv'
  BY <1>4 DEF TypeOK, RingInv, Lose
<1>5. ASSUME NEW k \in Kinds, Arrive(k)
      PROVE  rxq' \in Seq(Kinds) /\ rx_free' \in Nat
  BY <1>5 DEF TypeOK, Arrive
<1>6. ASSUME NEW k \in Echoes, EchoArrives(k)
      PROVE  Inv'
  <2>1. net' \in [Echoes -> Nat]
    BY <1>6 DEF TypeOK, EchoArrives
  <2>2. k \in Kinds
    BY DEF Kinds, Echoes
  <2> QED
    BY <1>5, <1>6, <2>1, <2>2 DEF TypeOK, RingInv, EchoArrives, Arrive
<1>7. ASSUME NEW k \in Noise, NoiseArrives(k)
      PROVE  Inv'
  <2>1. k \in Kinds
    BY LatencyAssumption
  <2> QED
    BY <1>5, <1>7, <2>1 DEF TypeOK, RingInv, NoiseArrives, Arrive
<1>8. CASE Tick
  <2>1. waited' \in 0..(Hz + 1)
    BY <1>8 DEF TypeOK, Tick, Lesser
  <2> QED
    BY <1>8, <2>1 DEF TypeOK, RingInv, Tick
<1> QED
  BY <1>1, <1>3, <1>4, <1>6, <1>7, <1>8 DEF Environment

\* The static data and what main has set up have the right types.
LEMMA InitTypes == Init => Inv
<1> SUFFICES ASSUME Init PROVE Inv
  OBVIOUS
<1> USE ConstantTypes
<1>1. bufs \in Seq(Kinds) /\ txq \in Seq(Kinds) /\ rxq \in Seq(Kinds)
  BY DEF Init
<1>2. nb_tx \in 0..(U32 - 1) /\ waited \in 0..(Hz + 1) /\ Len(txq) <= TX_RING
  BY DEF Init
<1>3. net \in [Echoes -> Nat]
  BY DEF Init
<1>4. {tx_free, rx_free, tx_lost, rx_lost} \subseteq Nat
  BY DEF Init
<1> QED
  BY <1>1, <1>2, <1>3, <1>4 DEF Init, Inv, TypeOK, RingInv

\* Inv is inductive.
LEMMA NextTypes == Inv /\ [Next]_vars => Inv'
<1> SUFFICES ASSUME Inv, [Next]_vars PROVE Inv'
  OBVIOUS
<1>1. CASE UNCHANGED vars
  BY <1>1 DEF Inv, TypeOK, RingInv, vars
<1> QED
  BY <1>1, BatchTypes, ReceiveTypes, EnvironmentTypes DEF Next, Client

\* nb_tx stays a 32-bit number, also when it is decremented at 0, and no pool
\* is overdrawn.
THEOREM TypeCorrect == Spec => []TypeOK
<1>1. Inv => TypeOK
  BY DEF Inv
<1> QED
  BY <1>1, InitTypes, NextTypes, PTL DEF Spec

-----------------------------------------------------------------------------
(* The mbufs.  The lengths of the lists are numbers of their own here, which *)
(* keeps the arithmetic apart from the sequences.                            *)

\* The lengths of the three lists are natural numbers, and so are the pools.
LEMMA Numbers ==
  ASSUME Inv
  PROVE  /\ Len(txq) \in Nat /\ Len(rxq) \in Nat /\ Len(bufs) \in Nat
         /\ tx_free \in Nat /\ rx_free \in Nat
         /\ tx_lost \in Nat /\ rx_lost \in Nat /\ InHand \in Nat
  BY ConstantTypes DEF Inv, TypeOK, InHand

\* What a step adds to one place of an mbuf it takes from another: the sum of
\* the four places stays what it was.
LEMMA SumMoves ==
  ASSUME NEW a \in Int, NEW b \in Int, NEW c \in Int, NEW d \in Int,
         NEW i \in Int, NEW j \in Int
  PROVE  /\ (a - i) + (b + i) + c + d = a + b + c + d
         /\ (a - i) + b + (c + i) + d = a + b + c + d
         /\ (a + i) + b + (c - i) + d = a + b + c + d
         /\ a + (b - i) + (c + j) + (d + (i - j)) = a + b + c + d
         /\ a + (b - i) + (c + i) + d = a + b + c + d
         /\ a + (b - i) + c + (d + i) = a + b + c + d
  OBVIOUS

\* Where the client may be with in_the_loop set or with packets at hand.
LoopInv ==
  /\ pc \in {"loop", "send", "recv", "process"} => in_the_loop
  /\ pc # "process" => bufs = <<>>

\* LoopInv is inductive: handle_int ends the program only outside the loop.
LEMMA LoopStep == Inv /\ LoopInv /\ [Next]_vars => LoopInv'
<1> SUFFICES ASSUME Inv, LoopInv, [Next]_vars PROVE LoopInv'
  OBVIOUS
<1> USE DEF LoopInv, flagVars, nicVars, poolVars
<1>1. CASE Client
  BY <1>1 DEF Client, Start, EnterLoop, Report, Alloc, Send, Timeout, Receive,
              Interrupted, Reject, NotIp, Measure, TakePacket, EndBurst
<1>2. CASE HandleInt
  BY <1>2 DEF HandleInt
<1>3. CASE \/ Transmit \/ Tick
           \/ \E k \in Echoes : Lose(k) \/ EchoArrives(k)
           \/ \E k \in Noise : NoiseArrives(k)
  BY <1>3 DEF Transmit, Tick, Lose, EchoArrives, NoiseArrives,
              Arrive
<1>4. CASE UNCHANGED vars
  BY <1>4 DEF vars
<1> QED
  BY <1>1, <1>2, <1>3, <1>4 DEF Next, Environment

TxSum == tx_free + InHand + Len(txq) + tx_lost
RxSum == rx_free + Len(rxq) + Len(bufs) + rx_lost

\* No step changes the number of mbufs of the tx pool.
LEMMA TxSumStep == Inv /\ LoopInv /\ [Next]_vars => TxSum' = TxSum
<1> SUFFICES ASSUME Inv, LoopInv, [Next]_vars PROVE TxSum' = TxSum
  OBVIOUS
<1> USE ConstantTypes DEF flagVars, nicVars, poolVars
<1>1. CASE UNCHANGED <<tx_free, InHand, txq, tx_lost>>
  BY <1>1 DEF TxSum
<1>2. CASE Alloc
  <2>1. /\ tx_free' = tx_free - Burst /\ InHand = 0 /\ InHand' = Burst
        /\ txq' = txq /\ tx_lost' = tx_lost
    BY <1>2 DEF Alloc, InHand
  <2>2. tx_free \in Int /\ Len(txq) \in Int /\ tx_lost \in Int
    BY Numbers
  <2>3. (tx_free - Burst) + (0 + Burst) + Len(txq) + tx_lost
          = tx_free + 0 + Len(txq) + tx_lost
    BY <2>2, SumMoves
  <2> QED
    BY <2>1, <2>3 DEF TxSum
<1>3. CASE Send
  <2> DEFINE n == Lesser(Burst, TX_RING - Len(txq))
  <2>1. n \in 0..Burst
    BY TakenTypes DEF Inv, TypeOK, RingInv
  <2>2. /\ tx_free' = tx_free /\ InHand = Burst /\ InHand' = 0
        /\ txq' = Outdate(txq) \o Times(n, "cur")
        /\ tx_lost' = tx_lost + (Burst - n)
    BY <1>3 DEF Send, Forget, InHand
  <2> HIDE DEF n
  <2>3. n \in Nat /\ "cur" \in Kinds
    BY <2>1 DEF Kinds
  <2>4. Len(txq') = Len(txq) + n
    <3>1. Outdate(txq) \in Seq(Kinds) /\ Len(Outdate(txq)) = Len(txq)
      BY OutdateTypes DEF Inv, TypeOK
    <3>2. Times(n, "cur") \in Seq(Kinds) /\ Len(Times(n, "cur")) = n
      BY <2>3, TimesTypes
    <3>3. Len(Outdate(txq) \o Times(n, "cur")) = Len(txq) + n
      BY <3>1, <3>2
    <3> QED
      BY <2>2, <3>3
  <2>5. tx_free \in Int /\ Len(txq) \in Int /\ tx_lost \in Int
    BY Numbers
  <2>6. tx_free + (Burst - Burst) + (Len(txq) + n) + (tx_lost + (Burst - n))
          = tx_free + Burst + Len(txq) + tx_lost
    BY <2>3, <2>5, SumMoves
  <2> QED
    BY <2>2, <2>4, <2>6 DEF TxSum
<1>4. ASSUME txq \in Seq(Kinds),
             \/ /\ txq' = Append(txq, "arp")
                /\ tx_free' = tx_free - 1
             \/ /\ txq # <<>>
                /\ txq' = Tail(txq)
                /\ tx_free' = tx_free + 1,
             UNCHANGED <<InHand, tx_lost>>
      PROVE  TxSum' = TxSum
  <2>1. tx_free \in Int /\ Len(txq) \in Int /\ tx_lost \in Int /\ InHand \in Int
    BY Numbers
  <2>2. \/ Len(txq') = Len(txq) + 1 /\ tx_free' = tx_free - 1
        \/ Len(txq') = Len(txq) - 1 /\ tx_free' = tx_free + 1
    BY <1>4
  <2>3. /\ (tx_free - 1) + InHand + (Len(txq) + 1) + tx_lost
             = tx_free + InHand + Len(txq) + tx_lost
        /\ (tx_free + 1) + InHand + (Len(txq) - 1) + tx_lost
             = tx_free + InHand + Len(txq) + tx_lost
    BY <2>1, SumMoves
  <2> QED
    BY <1>4, <2>2, <2>3 DEF TxSum
<1>5. CASE Reject
  <2>1. UNCHANGED <<InHand, tx_lost>>
    BY <1>5 DEF Reject, TakePacket, InHand
  <2>2. txq \in Seq(Kinds)
    BY DEF Inv, TypeOK
  <2>3. \/ txq' = Append(txq, "arp") /\ tx_free' = tx_free - 1
        \/ UNCHANGED <<txq, tx_free>>
    BY <1>5 DEF Reject
  <2> QED
    BY <1>1, <1>4, <2>1, <2>2, <2>3
<1>6. CASE Transmit
  <2>1. UNCHANGED <<InHand, tx_lost>>
    BY <1>6 DEF Transmit, InHand
  <2> QED
    BY <1>4, <1>6, <2>1 DEF Transmit, Inv, TypeOK
<1>7. CASE \/ Start \/ EnterLoop \/ Report \/ Timeout \/ Receive \/ Interrupted
           \/ NotIp \/ Measure \/ EndBurst
  BY <1>1, <1>7 DEF Start, EnterLoop, Report, Timeout, Receive, Interrupted,
                    NotIp, Measure, TakePacket, EndBurst, InHand
<1>8. CASE HandleInt
  BY <1>1, <1>8 DEF HandleInt, InHand, LoopInv
<1>9. CASE \/ Tick
           \/ \E k \in Echoes : Lose(k) \/ EchoArrives(k)
           \/ \E k \in Noise : NoiseArrives(k)
  BY <1>1, <1>9 DEF Tick, Lose, EchoArrives, NoiseArrives,
                    Arrive, InHand
<1>10. CASE UNCHANGED vars
  BY <1>1, <1>10 DEF vars, InHand
<1> QED
  BY <1>2, <1>3, <1>5, <1>6, <1>7, <1>8, <1>9, <1>10
     DEF Next, Client, Environment

\* No step changes the number of mbufs of the rx pool.
LEMMA RxSumStep == Inv /\ LoopInv /\ [Next]_vars => RxSum' = RxSum
<1> SUFFICES ASSUME Inv, LoopInv, [Next]_vars PROVE RxSum' = RxSum
  OBVIOUS
<1> USE DEF flagVars, nicVars, poolVars
<1>0. rx_free \in Int /\ Len(rxq) \in Int /\ Len(bufs) \in Int /\ rx_lost \in Int
  BY Numbers
<1>1. CASE UNCHANGED <<rx_free, rxq, bufs, rx_lost>>
  BY <1>1 DEF RxSum
<1>2. CASE Send
  <2>1. Len(rxq') = Len(rxq)
    BY <1>2, OutdateTypes DEF Inv, TypeOK, Send
  <2> QED
    BY <1>2, <2>1 DEF RxSum, Send
<1>3. NbRx \in Int
  BY PollTypes DEF Inv
<1>4. CASE Timeout
  <2>1. /\ rx_free' = rx_free /\ bufs' = bufs /\ rx_lost' = rx_lost + NbRx
        /\ Len(rxq') = Len(rxq) - NbRx
    BY <1>4, PollTypes DEF Inv, Timeout, RxBurst
  <2>2. rx_free + (Len(rxq) - NbRx) + Len(bufs) + (rx_lost + NbRx)
          = rx_free + Len(rxq) + Len(bufs) + rx_lost
    BY <1>0, <1>3, SumMoves
  <2> QED
    BY <2>1, <2>2 DEF RxSum
<1>5. CASE Receive
  <2>1. /\ rx_free' = rx_free /\ rx_lost' = rx_lost
        /\ Len(rxq') = Len(rxq) - NbRx
        /\ Len(bufs') = NbRx
    BY <1>5, PollTypes DEF Inv, Receive, RxBurst
  <2>2. Len(bufs) = 0
    BY <1>5 DEF Receive, LoopInv
  <2>3. rx_free + (Len(rxq) - NbRx) + (0 + NbRx) + rx_lost
          = rx_free + Len(rxq) + 0 + rx_lost
    BY <1>0, <1>3, SumMoves
  <2> QED
    BY <1>3, <2>1, <2>2, <2>3 DEF RxSum
<1>6. ASSUME NEW K, TakePacket(K)
      PROVE  RxSum' = RxSum
  <2>1. /\ rx_free' = rx_free + 1 /\ rxq' = rxq /\ rx_lost' = rx_lost
        /\ bufs # <<>> /\ bufs' = Tail(bufs)
    BY <1>6 DEF TakePacket
  <2>2. Len(bufs') = Len(bufs) - 1
    BY <2>1 DEF Inv, TypeOK
  <2>3. (rx_free + 1) + Len(rxq) + (Len(bufs) - 1) + rx_lost
          = rx_free + Len(rxq) + Len(bufs) + rx_lost
    BY <1>0, SumMoves
  <2> QED
    BY <2>1, <2>2, <2>3 DEF RxSum
<1>7. ASSUME NEW k, Arrive(k)
      PROVE  RxSum' = RxSum
  <2>1. /\ rx_free' = rx_free - 1 /\ rxq' = Append(rxq, k) /\ rx_lost' = rx_lost
        /\ bufs' = bufs
    BY <1>7 DEF Arrive
  <2>2. Len(rxq') = Len(rxq) + 1
    BY <2>1 DEF Inv, TypeOK
  <2>3. (rx_free - 1) + (Len(rxq) + 1) + Len(bufs) + rx_lost
          = rx_free + Len(rxq) + Len(bufs) + rx_lost
    BY <1>0, SumMoves
  <2> QED
    BY <2>1, <2>2, <2>3 DEF RxSum
<1>8. CASE Reject \/ NotIp \/ Measure
  BY <1>6, <1>8 DEF Reject, NotIp, Measure
<1>9. CASE Start \/ EnterLoop \/ Report \/ Alloc \/ Interrupted \/ EndBurst
  BY <1>1, <1>9 DEF Start, EnterLoop, Report, Alloc, Interrupted, EndBurst
<1>10. CASE \/ HandleInt
            \/ Transmit \/ Tick \/ \E k \in Echoes : Lose(k)
  BY <1>1, <1>10 DEF HandleInt, Transmit, Tick, Lose
<1>11. CASE \/ \E k \in Echoes : EchoArrives(k)
            \/ \E k \in Noise : NoiseArrives(k)
  BY <1>7, <1>11 DEF EchoArrives, NoiseArrives
<1>12. CASE UNCHANGED vars
  BY <1>1, <1>12 DEF vars
<1> QED
  BY <1>2, <1>4, <1>5, <1>8, <1>9, <1>10, <1>11, <1>12
     DEF Next, Client, Environment

\* Every mbuf of the two pools is accounted for: it is free, in a ring, in the
\* client's hands, or among those that an incomplete transmission or a timeout
\* has forgotten.  No branch frees one twice.
THEOREM AccountedHolds == Spec => []Accounted
<1>1. Init => LoopInv /\ Accounted
  BY ConstantTypes DEF Init, LoopInv, Accounted, InHand
<1>2. Inv /\ LoopInv /\ Accounted /\ [Next]_vars => Accounted'
  BY TxSumStep, RxSumStep DEF Accounted, TxSum, RxSum
<1> QED
  BY <1>1, <1>2, LoopStep, InitTypes, NextTypes, PTL DEF Spec

-----------------------------------------------------------------------------
(* The packets of a batch.  nb_tx is a bound on the packets of the batch    *)
(* that are still under way, and as long as nothing disturbs the client no  *)
(* packet of an earlier batch is left.                                      *)

\* How many packets of kind k there are in s, and under way altogether.
Of(s, k) == NumberOf(s, {k})
UnderWay(k) == Of(txq, k) + Of(rxq, k) + Of(bufs, k) + net[k]

\* What the wait for the echoes keeps: the inductive invariant.
BatchInv ==
  ~disturbed =>
    /\ UnderWay("old") = 0
    /\ measured \in {"none", "cur"}
    /\ pc \in {"recv", "process"} => UnderWay("cur") <= nb_tx
    /\ pc \in {"main", "arp", "send"} => UnderWay("cur") = 0
    /\ pc = "loop" /\ running => UnderWay("cur") = 0

\* The changes of a list and what they do to the number of packets of a kind.
LEMMA OfFacts ==
  ASSUME NEW s \in Seq(Kinds), NEW k
  PROVE  /\ Of(s, k) \in Nat
         /\ Of(<<>>, k) = 0
         /\ \A e \in Kinds : Of(Append(s, e), k) = Of(s, k) + (IF e = k THEN 1 ELSE 0)
         /\ \A t \in Seq(Kinds) : Of(s \o t, k) = Of(s, k) + Of(t, k)
         /\ s # <<>> => Of(Tail(s), k) = Of(s, k) - (IF Head(s) = k THEN 1 ELSE 0)
         /\ \A n \in 0..Len(s) : Of(s, k) = Of(SubSeq(s, 1, n), k)
                                              + Of(SubSeq(s, n + 1, Len(s)), k)
         /\ Of(s, k) = 0 <=> \A i \in 1..Len(s) : s[i] # k
<1>1. /\ NumberOf(s, {k}) \in Nat
      /\ NumberOf(<<>>, {k}) = 0
      /\ \A e \in Kinds : NumberOf(Append(s, e), {k}) = NumberOf(s, {k}) + (IF e \in {k} THEN 1 ELSE 0)
      /\ \A t \in Seq(Kinds) : NumberOf(s \o t, {k}) = NumberOf(s, {k}) + NumberOf(t, {k})
      /\ s # <<>> => NumberOf(Tail(s), {k}) = NumberOf(s, {k}) - (IF Head(s) \in {k} THEN 1 ELSE 0)
      /\ \A n \in 0..Len(s) : NumberOf(s, {k}) = NumberOf(SubSeq(s, 1, n), {k})
                                          + NumberOf(SubSeq(s, n + 1, Len(s)), {k})
  BY NumberOfFacts
<1>2. NumberOf(s, {k}) = 0 <=> \A i \in 1..Len(s) : s[i] \notin {k}
  BY NumberOfNone
<1> QED
  BY <1>1, <1>2 DEF Of

\* The packets of a kind are so many natural numbers.
LEMMA UnderWayType ==
  ASSUME Inv, NEW k \in Echoes
  PROVE  /\ Of(txq, k) \in Nat /\ Of(rxq, k) \in Nat /\ Of(bufs, k) \in Nat
         /\ net[k] \in Nat /\ UnderWay(k) \in Nat
<1>1. Of(txq, k) \in Nat /\ Of(rxq, k) \in Nat /\ Of(bufs, k) \in Nat
  BY OfFacts DEF Inv, TypeOK
<1>2. net[k] \in Nat
  BY DEF Inv, TypeOK
<1> QED
  BY <1>1, <1>2 DEF UnderWay

\* Where a sum of natural numbers is zero, each of them is.
LEMMA NothingUnderWay ==
  ASSUME Inv, NEW k \in Echoes, UnderWay(k) = 0
  PROVE  Of(txq, k) = 0 /\ Of(rxq, k) = 0 /\ Of(bufs, k) = 0 /\ net[k] = 0
<1>1. \A a, b, c, d \in Nat : a + b + c + d = 0 => a = 0 /\ b = 0 /\ c = 0 /\ d = 0
  OBVIOUS
<1>2. Of(txq, k) \in Nat /\ Of(rxq, k) \in Nat /\ Of(bufs, k) \in Nat /\ net[k] \in Nat
  BY UnderWayType
<1>3. Of(txq, k) + Of(rxq, k) + Of(bufs, k) + net[k] = 0
  BY DEF UnderWay
<1> QED
  BY <1>1, <1>2, <1>3, ZenonT(60)

\* Only Send adds packets of a kind: a packet moves from one place to the
\* next, is processed, or is lost.
LEMMA NoneAdded ==
  ASSUME Inv, LoopInv, Next, ~Send, ~Timeout, NEW k \in Echoes
  PROVE  /\ UnderWay(k)' <= UnderWay(k)
         /\ Measure /\ Head(bufs) = k => UnderWay(k)' = UnderWay(k) - 1
<1> USE DEF flagVars, nicVars, poolVars
<1>1. /\ Of(txq, k) \in Nat /\ Of(rxq, k) \in Nat /\ Of(bufs, k) \in Nat
      /\ net[k] \in Nat /\ UnderWay(k) \in Nat
  BY UnderWayType
<1>2. txq \in Seq(Kinds) /\ rxq \in Seq(Kinds) /\ bufs \in Seq(Kinds) /\ net \in [Echoes -> Nat]
  BY DEF Inv, TypeOK
<1>3. CASE UNCHANGED <<txq, rxq, bufs, net>> /\ ~Measure
  BY <1>1, <1>3 DEF UnderWay
<1>4. CASE Receive
  <2>1. NbRx \in 0..Len(rxq)
    BY PollTypes DEF Inv
  <2>2. Of(rxq, k) = Of(SubSeq(rxq, 1, NbRx), k) + Of(SubSeq(rxq, NbRx + 1, Len(rxq)), k)
    BY <1>2, <2>1, OfFacts
  <2>3. bufs = <<>> /\ Of(bufs, k) = 0
    BY <1>2, <1>4, OfFacts DEF Receive, LoopInv
  <2>4. Of(SubSeq(rxq, 1, NbRx), k) \in Nat /\ Of(SubSeq(rxq, NbRx + 1, Len(rxq)), k) \in Nat
    BY PollTypes, OfFacts DEF Inv
  <2>5. UnderWay(k)' = UnderWay(k)
    BY <1>1, <1>4, <2>2, <2>3, <2>4 DEF Receive, RxBurst, UnderWay
  <2> QED
    BY <1>1, <1>4, <2>5 DEF Receive, Measure, TakePacket
<1>5. ASSUME NEW K, TakePacket(K)
      PROVE  /\ Of(bufs, k)' = Of(bufs, k) - (IF Head(bufs) = k THEN 1 ELSE 0)
             /\ Of(rxq, k)' = Of(rxq, k) /\ net' = net
  BY <1>2, <1>5, OfFacts DEF TakePacket
<1>6. CASE Reject
  <2>1. Head(bufs) # k /\ ~Measure
    BY <1>6 DEF Reject, Measure, TakePacket, Echoes
  <2>2. Of(txq, k)' = Of(txq, k)
    <3>1. "arp" \in Kinds /\ "arp" # k
      BY DEF Kinds, Echoes
    <3>2. Of(Append(txq, "arp"), k) = Of(txq, k)
      BY <1>1, <1>2, <3>1, OfFacts
    <3>3. txq' = txq \/ txq' = Append(txq, "arp")
      BY <1>6 DEF Reject
    <3> QED
      BY <3>2, <3>3
  <2>3. TakePacket({"arp", "alien"})
    BY <1>6 DEF Reject
  <2>4. UnderWay(k)' = UnderWay(k)
    BY <1>1, <1>5, <2>1, <2>2, <2>3 DEF UnderWay
  <2> QED
    BY <1>1, <2>1, <2>4
<1>7. CASE NotIp \/ Measure
  <2>1. txq' = txq /\ \E K : TakePacket(K)
    BY <1>7 DEF NotIp, Measure
  <2>2. UnderWay(k)' = UnderWay(k) - (IF Head(bufs) = k THEN 1 ELSE 0)
    BY <1>1, <1>5, <2>1 DEF UnderWay
  <2> QED
    BY <1>1, <2>2
<1>8. CASE Transmit
  <2>1. Of(txq, k)' = Of(txq, k) - (IF Head(txq) = k THEN 1 ELSE 0)
    BY <1>2, <1>8, OfFacts DEF Transmit
  <2>2. net'[k] <= net[k] + (IF Head(txq) = k THEN 1 ELSE 0)
    <3>1. CASE net' = net
      BY <1>1, <3>1
    <3>2. CASE net' = [net EXCEPT ![Head(txq)] = @ + 1] /\ Head(txq) \in Echoes
      BY <1>1, <1>2, <3>2
    <3> QED
      BY <1>8, <3>1, <3>2 DEF Transmit
  <2>3. net'[k] \in Nat /\ Of(txq, k)' \in Nat
    <3>1. Inv'
      BY NextTypes
    <3>2. txq' \in Seq(Kinds) /\ net' \in [Echoes -> Nat]
      BY <3>1 DEF Inv, TypeOK
    <3> QED
      BY <3>2, OfFacts
  <2>4. rxq' = rxq /\ bufs' = bufs /\ pc' = pc /\ tx_free' # tx_free
    BY <1>8 DEF Transmit, Inv, TypeOK
  <2>5. ~Measure
    BY <2>4 DEF Measure
  <2> QED
    BY <1>1, <2>1, <2>2, <2>3, <2>4, <2>5 DEF UnderWay
<1>9. ASSUME NEW e \in Echoes, Lose(e)
      PROVE  UnderWay(k)' <= UnderWay(k) /\ ~Measure
  <2>1. net'[k] \in Nat /\ net'[k] <= net[k]
    BY <1>1, <1>2, <1>9 DEF Lose
  <2> QED
    BY <1>1, <1>2, <1>9, <2>1 DEF UnderWay, Lose, Measure, TakePacket
<1>10. ASSUME NEW e \in Kinds, Arrive(e)
       PROVE  /\ Of(rxq, k)' = Of(rxq, k) + (IF e = k THEN 1 ELSE 0)
              /\ txq' = txq /\ bufs' = bufs /\ rx_free' # rx_free + 1
  BY <1>2, <1>10, OfFacts DEF Arrive, Inv, TypeOK
<1>11. ASSUME NEW e \in Echoes, EchoArrives(e)
       PROVE  UnderWay(k)' <= UnderWay(k) /\ ~Measure
  <2>1. net'[k] = net[k] - (IF e = k THEN 1 ELSE 0)
    BY <1>1, <1>2, <1>11 DEF EchoArrives
  <2>2. e \in Kinds /\ Arrive(e)
    BY <1>11 DEF EchoArrives, Echoes, Kinds
  <2>3. ~Measure
    BY <1>10, <2>2 DEF Measure, TakePacket
  <2> QED
    BY <1>1, <1>10, <2>1, <2>2, <2>3 DEF UnderWay
<1>12. ASSUME NEW e \in Noise, NoiseArrives(e)
       PROVE  UnderWay(k)' <= UnderWay(k) /\ ~Measure
  <2>1. e \in Kinds /\ e # k /\ Arrive(e) /\ net' = net
    BY <1>12, LatencyAssumption DEF NoiseArrives
  <2>2. ~Measure
    BY <1>10, <2>1 DEF Measure, TakePacket
  <2> QED
    BY <1>1, <1>10, <2>1, <2>2 DEF UnderWay
<1>13. CASE Start \/ EnterLoop \/ Report \/ Alloc \/ Interrupted
  BY <1>3, <1>13 DEF Start, EnterLoop, Report, Alloc, Interrupted, Measure, TakePacket
<1>14. CASE EndBurst
  BY <1>3, <1>14 DEF EndBurst, Measure, TakePacket
<1>15. CASE HandleInt \/ Tick
  <2>1. rx_free' = rx_free /\ rx_free \in Nat
    BY <1>15 DEF HandleInt, Tick, Inv, TypeOK
  <2>2. ~Measure
    BY <2>1 DEF Measure, TakePacket
  <2> QED
    BY <1>3, <1>15, <2>2 DEF HandleInt, Tick
<1> QED
  BY <1>4, <1>6, <1>7, <1>8, <1>9, <1>11, <1>12, <1>13, <1>14, <1>15
     DEF Next, Client, Environment

\* The batch is all there is: Send starts with nothing under way, so nb_tx is
\* the number of packets of the new batch.
LEMMA SendBatch ==
  ASSUME Inv, LoopInv, BatchInv, Send, ~disturbed
  PROVE  UnderWay("old")' = 0 /\ UnderWay("cur")' = nb_tx'
<1> DEFINE n == Lesser(Burst, TX_RING - Len(txq))
<1>1. txq \in Seq(Kinds) /\ rxq \in Seq(Kinds) /\ bufs \in Seq(Kinds) /\ net \in [Echoes -> Nat]
  BY DEF Inv, TypeOK
<1>2. "old" \in Echoes /\ "cur" \in Echoes /\ "cur" \in Kinds
  BY DEF Echoes, Kinds
<1>3. UnderWay("old") = 0 /\ UnderWay("cur") = 0
  BY DEF BatchInv, Send
<1>4. ASSUME NEW k \in Echoes
      PROVE  Of(txq, k) = 0 /\ Of(rxq, k) = 0 /\ Of(bufs, k) = 0 /\ net[k] = 0
  <2>1. UnderWay(k) = 0
    BY <1>3 DEF Echoes
  <2> QED
    BY <2>1, NothingUnderWay
<1>5. ASSUME NEW s \in Seq(Kinds), Of(s, "cur") = 0
      PROVE  Outdate(s) = s
  <2>1. \A i \in 1..Len(s) : s[i] # "cur"
    BY <1>5, OfFacts
  <2> QED
    BY <2>1 DEF Outdate
<1>6. n \in Nat
  BY TakenTypes, ConstantTypes DEF Inv, RingInv, TypeOK
<1>7. /\ txq' = txq \o Times(n, "cur") /\ rxq' = rxq /\ bufs' = bufs
      /\ nb_tx' = n
      /\ \A k \in Echoes : net'[k] = 0
  <2>1. Outdate(txq) = txq /\ Outdate(rxq) = rxq
    BY <1>1, <1>2, <1>4, <1>5
  <2>2. \A k \in Echoes : OutdateNet[k] = 0
    BY <1>2, <1>4 DEF OutdateNet
  <2> QED
    BY <2>1, <2>2 DEF Send
<1> HIDE DEF n
<1>8. Times(n, "cur") \in Seq(Kinds) /\ Of(Times(n, "cur"), "cur") = n /\ Of(Times(n, "cur"), "old") = 0
  <2>1. Times(n, "cur") \in Seq(Kinds) /\ Len(Times(n, "cur")) = n
    BY <1>2, <1>6, TimesTypes
  <2>2. Times(n, "cur") \in Seq({"cur"})
    BY <1>6 DEF Times
  <2>3. {"cur"} \subseteq {"cur"} /\ {"cur"} \cap {"old"} = {}
    OBVIOUS
  <2>4. NumberOf(Times(n, "cur"), {"cur"}) = n /\ NumberOf(Times(n, "cur"), {"old"}) = 0
    BY <2>1, <2>2, <2>3, NumberOfAll
  <2> QED
    BY <2>1, <2>4 DEF Of
<1>9. ASSUME NEW k \in Echoes
      PROVE  UnderWay(k)' = Of(Times(n, "cur"), k)
  <2>1. Of(txq', k) = Of(txq, k) + Of(Times(n, "cur"), k)
    BY <1>1, <1>7, <1>8, OfFacts
  <2>2. Of(Times(n, "cur"), k) \in Nat
    BY <1>8, OfFacts
  <2>3. Of(rxq', k) = 0 /\ Of(bufs', k) = 0 /\ net'[k] = 0 /\ Of(txq, k) = 0
    BY <1>4, <1>7
  <2> QED
    BY <2>1, <2>2, <2>3 DEF UnderWay
<1> QED
  BY <1>2, <1>7, <1>8, <1>9

\* BatchInv is inductive.
LEMMA BatchStep == Inv /\ LoopInv /\ BatchInv /\ [Next]_vars => BatchInv'
<1> SUFFICES ASSUME Inv, LoopInv, BatchInv, [Next]_vars, ~disturbed'
             PROVE  /\ UnderWay("old")' = 0
                    /\ measured' \in {"none", "cur"}
                    /\ pc' \in {"recv", "process"} => UnderWay("cur")' <= nb_tx'
                    /\ pc' \in {"main", "arp", "send"} => UnderWay("cur")' = 0
                    /\ pc' = "loop" /\ running' => UnderWay("cur")' = 0
  BY DEF BatchInv
<1> USE DEF flagVars, nicVars, poolVars
<1>1. CASE UNCHANGED vars
  BY <1>1 DEF vars, BatchInv, UnderWay
<1>2. CASE Timeout \/ NotIp
  BY <1>2 DEF Timeout, NotIp, TakePacket
<1>3. CASE Send
  <2>1. ~disturbed /\ pc' = "recv" /\ measured' = measured
    BY <1>3 DEF Send
  <2>2. UnderWay("old")' = 0 /\ UnderWay("cur")' = nb_tx'
    BY <1>3, <2>1, SendBatch
  <2>3. nb_tx' \in Nat
    BY NextTypes DEF Inv, TypeOK
  <2> QED
    BY <2>1, <2>2, <2>3 DEF BatchInv
<1>4. CASE Next /\ ~Send /\ ~Timeout /\ ~NotIp
  <2>1. "old" \in Echoes /\ "cur" \in Echoes
    BY DEF Echoes
  <2>2. /\ UnderWay("old") \in Nat /\ UnderWay("cur") \in Nat
        /\ UnderWay("old")' \in Nat /\ UnderWay("cur")' \in Nat
    <3>1. Inv'
      BY NextTypes
    <3>2. \A k \in Echoes : UnderWay(k) \in Nat
      BY UnderWayType
    <3>3. ASSUME NEW k \in Echoes PROVE UnderWay(k)' \in Nat
      <4>1. /\ txq' \in Seq(Kinds) /\ rxq' \in Seq(Kinds) /\ bufs' \in Seq(Kinds)
            /\ net' \in [Echoes -> Nat]
        BY <3>1 DEF Inv, TypeOK
      <4>2. Of(txq', k) \in Nat /\ Of(rxq', k) \in Nat /\ Of(bufs', k) \in Nat
        BY <4>1, OfFacts
      <4>3. net'[k] \in Nat
        BY <4>1
      <4> QED
        BY <4>2, <4>3 DEF UnderWay
    <3> QED
      BY <2>1, <3>2, <3>3
  <2>3. /\ UnderWay("old")' <= UnderWay("old") /\ UnderWay("cur")' <= UnderWay("cur")
        /\ Measure /\ Head(bufs) = "cur" => UnderWay("cur")' = UnderWay("cur") - 1
        /\ Measure /\ Head(bufs) = "old" => UnderWay("old")' = UnderWay("old") - 1
    BY <1>4, <2>1, NoneAdded
  <2>4. ~disturbed
    BY <1>4 DEF Next, Client, Environment, Start, EnterLoop, Report, Alloc,
                Receive, Interrupted, Reject, Measure, TakePacket, EndBurst,
                HandleInt, Transmit, Lose, EchoArrives, NoiseArrives, Arrive, Tick
  <2>5. UnderWay("old") = 0 /\ UnderWay("old")' = 0
    BY <2>2, <2>3, <2>4 DEF BatchInv
  <2>6. CASE Measure
    <3>1. Head(bufs) = "cur"
      <4>1. Head(bufs) # "old"
        BY <2>2, <2>3, <2>5, <2>6
      <4>2. Head(bufs) \in {"cur", "old", "bcast"} /\ Head(bufs) # "bcast"
        BY <2>6 DEF Measure, TakePacket, Echoes
      <4> QED
        BY <4>1, <4>2
    <3>2. UnderWay("cur") <= nb_tx /\ pc = "process" /\ pc' = "process" /\ measured' = "cur"
      BY <2>4, <2>6, <3>1 DEF Measure, TakePacket, BatchInv
    <3>3. nb_tx \in 0..(U32 - 1) /\ nb_tx > 0
      BY <2>2, <2>3, <2>6, <3>1, <3>2, ConstantTypes DEF Inv, TypeOK
    <3>4. nb_tx' = nb_tx - 1
      <4>1. (nb_tx - 1) % U32 = nb_tx - 1
        BY <3>3, ConstantTypes, SmallMod
      <4> QED
        BY <2>6, <4>1 DEF Measure, CountDown
    <3> QED
      BY <2>2, <2>3, <2>5, <2>6, <3>1, <3>2, <3>3, <3>4
  <2>7. CASE ~Measure
    <3>1. measured' = measured /\ nb_tx' = nb_tx
      BY <1>4, <2>7 DEF Next, Client, Environment, Start, EnterLoop, Report,
                Alloc, Receive, Interrupted, Reject, EndBurst, HandleInt,
                Transmit, Lose, EchoArrives, NoiseArrives, Arrive, Tick
    <3>2. CASE pc' = pc
      <4>1. running' => running
        BY <1>4, <2>7 DEF Next, Client, Environment, Start, EnterLoop, Report,
                  Alloc, Receive, Interrupted, Reject, TakePacket, EndBurst,
                  HandleInt, Transmit, Lose, EchoArrives, NoiseArrives, Arrive, Tick
      <4> QED
        BY <2>2, <2>3, <2>4, <2>5, <3>1, <3>2, <4>1 DEF BatchInv, Inv, TypeOK
    <3>3. CASE Start \/ EnterLoop \/ Report \/ Alloc
      BY <2>2, <2>3, <2>4, <2>5, <3>1, <3>3
         DEF BatchInv, Start, EnterLoop, Report, Alloc
    <3>4. CASE Receive \/ Interrupted
      <4>1. pc = "recv" /\ pc' = "process"
        BY <3>4 DEF Receive, Interrupted
      <4>2. UnderWay("cur") <= nb_tx /\ nb_tx \in Nat
        BY <2>4, <4>1 DEF BatchInv, Inv, TypeOK
      <4> QED
        BY <2>2, <2>3, <2>4, <2>5, <3>1, <4>1, <4>2 DEF BatchInv
    <3>5. CASE EndBurst
      <4>1. pc = "process" /\ UnderWay("cur") <= nb_tx /\ nb_tx \in Nat
        BY <2>4, <3>5 DEF BatchInv, EndBurst, Inv, TypeOK
      <4>2. pc' = "recv" \/ (pc' = "loop" /\ (running' => nb_tx = 0))
        BY <3>5, <4>1 DEF EndBurst
      <4> QED
        BY <2>2, <2>3, <2>4, <2>5, <3>1, <4>1, <4>2 DEF BatchInv
    <3>6. CASE HandleInt
      <4>1. pc' = pc \/ pc' = "killed"
        BY <3>6 DEF HandleInt
      <4> QED
        BY <2>4, <2>5, <3>1, <3>2, <4>1 DEF BatchInv
    <3>7. \/ pc' = pc \/ Start \/ EnterLoop \/ Report \/ Alloc \/ Receive
          \/ Interrupted \/ EndBurst \/ HandleInt
      BY <1>4, <2>7 DEF Next, Client, Environment, Reject, TakePacket,
                Transmit, Lose, EchoArrives, NoiseArrives, Arrive, Tick
    <3> QED
      BY <3>2, <3>3, <3>4, <3>5, <3>6, <3>7
  <2> QED
    BY <2>6, <2>7
<1> QED
  BY <1>1, <1>2, <1>3, <1>4

\* Nothing is under way when main hands over.
LEMMA BatchInit == Init => BatchInv
<1> SUFFICES ASSUME Init PROVE BatchInv
  OBVIOUS
<1>1. Inv
  BY InitTypes
<1>2. \A k \in Echoes : UnderWay(k) = 0
  <2> SUFFICES ASSUME NEW k \in Echoes PROVE UnderWay(k) = 0
    OBVIOUS
  <2>1. Of(txq, k) = 0 /\ Of(rxq, k) = 0 /\ Of(bufs, k) = 0 /\ net[k] = 0
    BY <1>1, OfFacts DEF Init, Inv, TypeOK
  <2> QED
    BY <2>1 DEF UnderWay
<1> QED
  BY <1>2 DEF Init, BatchInv, Echoes

\* Unless a wait timed out or somebody else's frame was counted, every latency
\* do_latency_client records is that of a packet of the batch it sent last.
THEOREM OnlyBatchMeasuredHolds == Spec => []OnlyBatchMeasured
<1>1. Init => LoopInv
  BY DEF Init, LoopInv
<1>2. BatchInv => OnlyBatchMeasured
  BY DEF BatchInv, OnlyBatchMeasured
<1> QED
  BY <1>1, <1>2, InitTypes, NextTypes, LoopStep, BatchInit, BatchStep, PTL DEF Spec

\* Under the same condition a batch is sent only when nothing of the ones
\* before is in the network, in a ring or in the client's hands.
THEOREM BatchCompleteHolds == Spec => BatchCompleteUnlessTimeout
<1>1. Init => LoopInv
  BY DEF Init, LoopInv
<1>2. ASSUME Inv, BatchInv, pc = "send", ~disturbed, NEW k \in Echoes
      PROVE  ~InFlight(k)
  <2>1. UnderWay(k) = 0
    BY <1>2 DEF BatchInv, Echoes
  <2>2. Of(txq, k) = 0 /\ Of(rxq, k) = 0 /\ Of(bufs, k) = 0 /\ net[k] = 0
    BY <1>2, <2>1, NothingUnderWay
  <2>3. ASSUME NEW s \in {txq, rxq, bufs}, NEW i \in DOMAIN s
        PROVE  s[i] # k
    <3>1. s \in Seq(Kinds) /\ Of(s, k) = 0
      BY <1>2, <2>2, <2>3 DEF Inv, TypeOK
    <3>2. DOMAIN s = 1..Len(s)
      BY <3>1
    <3> QED
      BY <2>3, <3>1, <3>2, OfFacts
  <2> QED
    BY <2>2, <2>3 DEF InFlight
<1>3. Inv /\ BatchInv => (pc = "send" /\ pc' = "recv" /\ ~disturbed
                            => ~InFlight("cur") /\ ~InFlight("old"))
  BY <1>2 DEF Echoes
<1>4. Inv /\ BatchInv /\ [Next]_vars
        => [pc = "send" /\ pc' = "recv" /\ ~disturbed
              => ~InFlight("cur") /\ ~InFlight("old")]_vars
  BY <1>3
<1> QED
  BY <1>1, <1>4, InitTypes, NextTypes, LoopStep, BatchInit, BatchStep, PTL
     DEF Spec, BatchCompleteUnlessTimeout
==============================================================================
