---------------------------- MODULE ClientProofs -----------------------------
(***************************************************************************)
(* Proofs about module Client, for every number of flows, every batch,     *)
(* pool and ring size, rate and duration.                                  *)
(***************************************************************************)
EXTENDS Client, CommonLemmas, TLAPS

Kinds == {"echo", "arp", "other"}

\* The assumption on the constants, one by one.
LEMMA ConstantTypes ==
  /\ CountDsts \subseteq Nat \ {0}
  /\ CountFlow \in Nat /\ CountFlow > 0
  /\ CountQueues \in Nat /\ CountQueues > 0
  /\ Burst \in Nat /\ Burst > 0 /\ MAX_BURST_SIZE \in Nat /\ MAX_BURST_SIZE > 0
  /\ NUM_MBUFS \in Nat /\ Hz \in Nat /\ Hz > 0
  /\ Duration \in Nat /\ Rate \in Nat /\ MaxOthers \in Nat
  BY ClientAssumption

-----------------------------------------------------------------------------
(* Type correctness, one lemma for each part of the next-state relation.    *)

\* The destination, port, queue and flow chosen for a burst are indexes of
\* dest_mac, the port range, rx queues and throughput.
LEMMA SelectTypes ==
  ASSUME TypeOK, Select, count_dst_ip' = count_dst_ip
  PROVE  /\ selected_dst' \in 0..(count_dst_ip' - 1)
         /\ dst_port' \in 0..(CountFlow - 1)
         /\ flow' \in Flows
         /\ cur_flow' \in Flows
         /\ selected_q' \in Queues
<1> USE ConstantTypes
<1>0. count_dst_ip \in Nat /\ count_dst_ip > 0
  BY DEF TypeOK
<1>1. selected_dst' \in 0..(count_dst_ip - 1)
  <2>1. selected_dst' = 1 % count_dst_ip
    BY DEF Select, NextDst
  <2>2. 1 % count_dst_ip \in 0..(count_dst_ip - 1)
    BY <1>0
  <2> QED
    BY <2>1, <2>2
<1>2. dst_port' \in 0..(CountFlow - 1)
  BY DEF TypeOK, Select, NextPort
<1>3. flow' \in Flows
  BY <1>0, <1>1, <1>2, IndexInRange DEF Select, Flows
<1>4. selected_q' \in Queues
  <2>1. flow \in Nat
    <3>1. count_dst_ip * CountFlow \in Nat
      BY <1>0
    <3> QED
      BY <3>1 DEF TypeOK, Flows
  <2>2. selected_q' = flow % CountQueues
    BY DEF Select
  <2> QED
    BY <2>1, <2>2 DEF Queues
<1> QED
  BY <1>1, <1>2, <1>3, <1>4 DEF TypeOK, Select

\* Every step of the sending thread keeps the types.
LEMMA SenderTypes ==
  ASSUME TypeOK, Sender
  PROVE  TypeOK'
<1> USE ConstantTypes DEF timeVars, pathVars, sendVars, recvVars, netVars
<1>0. count_dst_ip' = count_dst_ip /\ Flows' = Flows
  BY DEF Flows, Sender
<1> USE <1>0
<1>1. CASE Interrupted
  BY <1>1 DEF TypeOK, Interrupted
<1>2. CASE StartDrain
  <2>1. 0 \in 0..MaxElapsed
    BY DEF MaxElapsed, Drain
  <2> QED
    BY <1>2, <2>1 DEF TypeOK, StartDrain
<1>3. CASE EndDrain
  BY <1>3 DEF TypeOK, EndDrain
<1>4. CASE Abort
  BY <1>4 DEF TypeOK, Abort
<1>5. ASSUME ResetWindow
      PROVE  throughput' \in [Flows -> Nat] /\ window' \in 0..(Hz + 1)
  BY <1>5 DEF TypeOK, ResetWindow, Throughput, NewWindow
<1>6. CASE Skip
  <2>1. Select /\ throughput' \in [Flows -> Nat] /\ window' \in 0..(Hz + 1)
    BY <1>5, <1>6 DEF Skip
  <2>2. UNCHANGED <<running, pc, can_send, duration, elapsed, nb_tx,
                    total_sent_pkts, recv_running, recvVars, rxq, netVars, tx_busy,
                    tx_free, rx_free>>
    BY <1>6 DEF Skip
  <2> QED
    BY <2>1, <2>2, SelectTypes, ZenonT(60) DEF TypeOK
<1>7. CASE Alloc
  <2>1. Select /\ throughput' \in [Flows -> Nat] /\ window' \in 0..(Hz + 1)
    BY <1>5, <1>7 DEF Alloc
  <2>2. pc' = "send" /\ tx_free' \in Nat
    BY <1>7 DEF Alloc, TypeOK
  <2>3. UNCHANGED <<running, can_send, duration, elapsed, nb_tx, total_sent_pkts,
                    recv_running, recvVars, rxq, netVars, tx_busy, rx_free>>
    BY <1>7 DEF Alloc
  <2> QED
    BY <2>1, <2>2, <2>3, SelectTypes DEF TypeOK
<1>8. ASSUME NEW n \in 0..Burst, TxBurst(n)
      PROVE  TypeOK'
  BY <1>8 DEF TypeOK, TxBurst
<1>9. CASE Count
  BY <1>9 DEF TypeOK, Count, CountSent, FreeUnsent
<1>10. CASE StopReceiver
  BY <1>10 DEF TypeOK, StopReceiver
<1>11. CASE Report
  BY <1>11 DEF TypeOK, Report
<1> QED
  BY <1>1, <1>2, <1>3, <1>4, <1>6, <1>7, <1>8, <1>9, <1>10, <1>11 DEF Sender

\* Every step of _run_receiver_thread keeps the types.
LEMMA ReceiverTypes ==
  ASSUME TypeOK, Receiver
  PROVE  TypeOK'
<1> USE ConstantTypes
    DEF timeVars, pathVars, sendVars, recvVars, netVars, RecvUnchanged
<1>0. count_dst_ip' = count_dst_ip /\ Flows' = Flows
  BY DEF Flows, Receiver, RecvEnd, RecvBurst, RecvEcho,
              RecvOther, RecvArp, RecvNext, RecvPacket
<1> USE <1>0
<1>1. CASE RecvEnd
  BY <1>1 DEF TypeOK, RecvEnd
<1>2. CASE RecvBurst
  <2>1. PICK q \in Queues :
          /\ recv_bufs' = SubSeq(rxq[q], 1, Lesser(MAX_BURST_SIZE, Len(rxq[q])))
          /\ rxq' = [rxq EXCEPT ![q] =
                       SubSeq(@, Lesser(MAX_BURST_SIZE, Len(@)) + 1, Len(@))]
    BY <1>2 DEF RecvBurst
  <2>2. rxq[q] \in Seq(Kinds)
    BY DEF TypeOK, Kinds
  <2>3. /\ Lesser(MAX_BURST_SIZE, Len(rxq[q])) \in Nat
        /\ Lesser(MAX_BURST_SIZE, Len(rxq[q])) <= Len(rxq[q])
    BY <2>2 DEF Lesser
  <2>4. recv_bufs' \in Seq(Kinds)
    BY <2>1, <2>2, <2>3, SubSeqType
  <2>5. rxq' \in [Queues -> Seq(Kinds)]
    <3>1. SubSeq(rxq[q], Lesser(MAX_BURST_SIZE, Len(rxq[q])) + 1, Len(rxq[q]))
            \in Seq(Kinds)
      BY <2>2, <2>3, SubSeqType
    <3> QED
      BY <2>1, <3>1 DEF TypeOK, Kinds
  <2> QED
    BY <1>2, <2>4, <2>5 DEF TypeOK, RecvBurst, Kinds
<1>3. ASSUME NEW k \in Kinds, RecvPacket(k)
      PROVE  /\ recv_bufs' \in Seq(Kinds)
             /\ rx_free' \in Nat
             /\ rxq' = rxq /\ netVars' = netVars /\ recv' = recv
  BY <1>3 DEF TypeOK, RecvPacket, Kinds
<1>4. CASE RecvEcho
  BY <1>3, <1>4 DEF TypeOK, RecvEcho, RecvPacket, Kinds
<1>5. CASE RecvOther
  BY <1>3, <1>5 DEF TypeOK, RecvOther, RecvPacket, Kinds
<1>6. CASE RecvArp
  BY <1>3, <1>6 DEF TypeOK, RecvArp, RecvPacket, Kinds
<1>7. CASE RecvNext
  BY <1>7 DEF TypeOK, RecvNext
<1> QED
  BY <1>1, <1>2, <1>4, <1>5, <1>6, <1>7 DEF Receiver

\* So do the signal handler, the NIC, the network and the clock.
LEMMA EnvironmentTypes ==
  ASSUME TypeOK,
         \/ HandleMainInt \/ TxDone \/ Lose \/ OthersSend \/ Tick
         \/ \E q \in Queues : EchoArrives(q) \/ NoiseArrives(q)
  PROVE  TypeOK'
<1> USE ConstantTypes
    DEF timeVars, pathVars, sendVars, recvVars, netVars, EnvUnchanged
<1>0. count_dst_ip' = count_dst_ip /\ Flows' = Flows
  BY DEF Flows, HandleMainInt, TxDone, Lose, OthersSend, Tick, EchoArrives, NoiseArrives,
         Arrive
<1> USE <1>0
<1>1. CASE HandleMainInt
  BY <1>1 DEF TypeOK, HandleMainInt
<1>2. CASE TxDone
  BY <1>2 DEF TypeOK, TxDone
<1>3. CASE Lose
  BY <1>3 DEF TypeOK, Lose
<1>8. CASE OthersSend
  BY <1>8 DEF TypeOK, OthersSend
<1>4. CASE Tick
  <2>1. /\ MaxElapsed \in Nat /\ duration + 1 <= MaxElapsed /\ duration + 1 \in Nat
    BY DEF TypeOK, MaxElapsed, Drain
  <2>2. elapsed' \in 0..MaxElapsed /\ window' \in 0..(Hz + 1)
    BY <1>4, <2>1 DEF TypeOK, Tick, Lesser
  <2> QED
    BY <1>4, <2>2 DEF TypeOK, Tick
<1>5. ASSUME NEW q \in Queues, NEW k \in Kinds, Arrive(q, k)
      PROVE  rxq' \in [Queues -> Seq(Kinds)] /\ rx_free' \in Nat
  BY <1>5 DEF TypeOK, Arrive, Kinds
<1>6. ASSUME NEW q \in Queues, EchoArrives(q)
      PROVE  TypeOK'
  BY <1>5, <1>6 DEF TypeOK, EchoArrives, Arrive, Kinds
<1>7. ASSUME NEW q \in Queues, NoiseArrives(q)
      PROVE  TypeOK'
  <2>1. PICK k \in Noise : Arrive(q, k)
    BY <1>7 DEF NoiseArrives
  <2>2. k \in Kinds
    BY ClientAssumption DEF Kinds
  <2>3. rxq' \in [Queues -> Seq(Kinds)] /\ rx_free' \in Nat
    BY <1>5, <2>1, <2>2
  <2> QED
    BY <1>7, <2>1, <2>3 DEF TypeOK, NoiseArrives, Arrive, Kinds
<1> QED
  BY <1>1, <1>2, <1>3, <1>4, <1>6, <1>7, <1>8

\* What do_client sets before its loop has the right types.
LEMMA InitTypes == Init => TypeOK
<1> SUFFICES ASSUME Init PROVE TypeOK
  OBVIOUS
<1> USE ConstantTypes
<1>1. 0 \in 0..MaxElapsed
  BY DEF MaxElapsed, Drain
<1>2. 0 \in Flows
  <2>1. count_dst_ip \in Nat /\ count_dst_ip > 0
    BY DEF Init
  <2> QED
    BY <2>1, IndexInRange, 0 * CountFlow + 0 = 0 DEF Flows
<1>3. 0 \in Queues
  BY DEF Queues
<1> QED
  BY <1>1, <1>2, <1>3 DEF Init, TypeOK

\* The number of destinations, and with it the set of flows, never changes.
LEMMA DstFixed ==
  ASSUME [Next]_vars
  PROVE  count_dst_ip' = count_dst_ip /\ Flows' = Flows
<1>1. count_dst_ip' = count_dst_ip
  BY DEF Next, vars, Sender, Receiver, RecvEnd, RecvBurst, RecvEcho, RecvOther,
         RecvArp, RecvNext, RecvPacket, RecvUnchanged, HandleMainInt, TxDone,
         Lose, OthersSend, Tick, EchoArrives, NoiseArrives, Arrive,
         EnvUnchanged
<1> QED
  BY <1>1 DEF Flows

\* TypeOK is inductive.
LEMMA NextTypes == TypeOK /\ [Next]_vars => TypeOK'
<1> SUFFICES ASSUME TypeOK, [Next]_vars PROVE TypeOK'
  OBVIOUS
<1>1. CASE UNCHANGED vars
  BY <1>1 DEF TypeOK, Flows, vars, timeVars, pathVars, sendVars, recvVars,
              netVars
<1> QED
  BY <1>1, SenderTypes, ReceiverTypes, EnvironmentTypes DEF Next

\* The indexes that do_client computes stay inside its arrays, its counters
\* are natural numbers, and so on, in every reachable state.
THEOREM TypeCorrect == Spec => []TypeOK
  BY InitTypes, NextTypes, PTL DEF Spec

-----------------------------------------------------------------------------
(* The mbufs of the tx pool.                                                *)

\* Every step moves mbufs between the pool, the NIC and the burst in hand.
LEMMA ConservationStep ==
  TypeOK /\ TxConservation /\ [Next]_vars => TxConservation'
<1> SUFFICES ASSUME TypeOK, TxConservation, [Next]_vars PROVE TxConservation'
  OBVIOUS
<1> USE ConstantTypes DEF TxConservation, timeVars, pathVars, sendVars,
                          recvVars, netVars, RecvUnchanged, EnvUnchanged
<1>1. CASE Sender
  <2>1. CASE Interrupted \/ StartDrain \/ EndDrain \/ Abort \/ Skip
             \/ StopReceiver \/ Report
    BY <2>1 DEF Interrupted, StartDrain, EndDrain, Abort, Skip, StopReceiver,
                Report, CanSend, Select, InHand
  <2>2. CASE Alloc
    <3>1. InHand = 0 /\ InHand' = Burst /\ tx_busy' = tx_busy
          /\ tx_free' = tx_free - Burst
      BY <2>2 DEF Alloc, Select, CanSend, InHand
    <3> QED
      BY <3>1 DEF TypeOK
  <2>3. ASSUME NEW n \in 0..Burst, TxBurst(n)
        PROVE  TxConservation'
    <3>1. InHand = Burst /\ InHand' = Burst - n /\ tx_busy' = tx_busy + n
          /\ tx_free' = tx_free
      BY <2>3 DEF TxBurst, InHand
    <3> QED
      BY <3>1 DEF TypeOK
  <2>4. CASE Count
    <3>1. InHand = Burst - nb_tx /\ InHand' = 0 /\ tx_busy' = tx_busy
          /\ tx_free' = tx_free + (Burst - nb_tx)
      BY <2>4 DEF Count, FreeUnsent, InHand
    <3> QED
      BY <3>1 DEF TypeOK
  <2> QED
    BY <1>1, <2>1, <2>2, <2>3, <2>4 DEF Sender
<1>2. CASE Receiver
  <2>1. CASE RecvEnd \/ RecvBurst \/ RecvEcho \/ RecvOther \/ RecvNext
    BY <2>1 DEF RecvEnd, RecvBurst, RecvEcho, RecvOther, RecvNext, RecvPacket,
                InHand
  <2>2. CASE RecvArp
    <3>1. /\ InHand' = InHand
          /\ \/ tx_busy' = tx_busy + 1 /\ tx_free' = tx_free - 1
             \/ tx_busy' = tx_busy /\ tx_free' = tx_free
      BY <2>2 DEF RecvArp, RecvPacket, InHand
    <3>2. InHand \in Int
      BY DEF TypeOK, InHand
    <3>3. tx_free \in Nat /\ tx_busy \in Nat
      BY DEF TypeOK
    <3>4. CASE tx_busy' = tx_busy + 1 /\ tx_free' = tx_free - 1
      BY <3>1, <3>2, <3>3, <3>4
    <3>5. CASE tx_busy' = tx_busy /\ tx_free' = tx_free
      BY <3>1, <3>5
    <3> QED
      BY <3>1, <3>4, <3>5
  <2> QED
    BY <1>2, <2>1, <2>2 DEF Receiver
<1>3. CASE TxDone
  <2>1. /\ InHand' = InHand
        /\ tx_busy' = tx_busy - 1
        /\ tx_free' = tx_free + 1
    BY <1>3 DEF TxDone, InHand
  <2>2. InHand \in Int
    BY DEF TypeOK, InHand
  <2> QED
    BY <2>1, <2>2 DEF TypeOK
<1>4. CASE HandleMainInt \/ Lose \/ OthersSend \/ Tick
           \/ \E q \in Queues : EchoArrives(q) \/ NoiseArrives(q)
  BY <1>4 DEF HandleMainInt, Lose, OthersSend, Tick, EchoArrives, NoiseArrives, Arrive,
              InHand
<1>5. CASE UNCHANGED vars
  BY <1>5 DEF vars, InHand
<1> QED
  BY <1>1, <1>2, <1>3, <1>4, <1>5 DEF Next

\* No interleaving of the sender, the receiver's ARP answers and the NIC, and
\* no partial rte_eth_tx_burst, leaks or invents an mbuf of the tx pool.
THEOREM TxConserved == Spec => []TxConservation
<1>1. Init => TxConservation
  BY ConstantTypes DEF Init, TxConservation, InHand
<1> QED
  BY <1>1, ConservationStep, InitTypes, NextTypes, PTL DEF Spec

-----------------------------------------------------------------------------
(* The rate of a flow.  While a burst is under way its flow was below the   *)
(* limit when the burst was allocated, and the limit only grows meanwhile.  *)

RateInv ==
  RateLimit =>
    /\ \A f \in Flows : throughput[f] * Hz <= Rate * window + Burst * Hz
    /\ pc \in {"send", "sent"} => throughput[cur_flow] * Hz <= Rate * window

\* The choice of a burst's flow keeps every flow within its rate, and lets a
\* burst through only if its flow is below the limit now.
LEMMA SelectRate ==
  ASSUME TypeOK, RateInv, RateLimit, Select, ResetWindow,
         count_dst_ip' = count_dst_ip
  PROVE  /\ \A f \in Flows : throughput'[f] * Hz <= Rate * window' + Burst * Hz
         /\ ~Limited => throughput'[cur_flow'] * Hz <= Rate * window'
<1> USE ConstantTypes
<1>0. cur_flow' \in Flows /\ cur_flow' = flow
  BY SelectTypes DEF Select
<1>1. CASE NewWindow
  <2>1. throughput' = [f \in Flows |-> 0] /\ window' = 0
    BY <1>1 DEF ResetWindow, Throughput
  <2>2. Rate * 0 = 0 /\ 0 * Hz = 0 /\ Burst * Hz \in Nat
    OBVIOUS
  <2> QED
    BY <1>0, <2>1, <2>2
<1>2. CASE ~NewWindow
  <2>1. throughput' = throughput /\ window' = window
    BY <1>2 DEF ResetWindow, Throughput
  <2>2. ~Limited => throughput[flow] * Hz <= Rate * window
    <3>1. throughput[flow] \in Nat /\ window \in Nat
      BY DEF TypeOK
    <3>2. throughput[flow] * Hz \in Nat /\ Rate * window \in Nat
      BY <3>1
    <3>3. Limited <=> throughput[flow] * Hz > Rate * window
      BY <1>2 DEF Limited, Throughput
    <3> QED
      BY <3>2, <3>3
  <2> QED
    BY <1>0, <2>1, <2>2 DEF RateInv
<1> QED
  BY <1>1, <1>2

\* Counting a burst puts its flow over the limit by at most that burst.
LEMMA CountRate ==
  ASSUME TypeOK, RateInv, RateLimit, Count
  PROVE  \A f \in Flows : throughput'[f] * Hz <= Rate * window' + Burst * Hz
<1> USE ConstantTypes
<1> TAKE f \in Flows
<1>1. /\ throughput[f] \in Nat /\ nb_tx \in 0..Burst /\ window \in Nat
      /\ cur_flow \in Flows
  BY DEF TypeOK
<1>2. window' = window
  BY DEF Count, timeVars
<1>3. CASE f = cur_flow
  <2>1. throughput'[f] = throughput[f] + nb_tx
    BY <1>1, <1>3 DEF Count, TypeOK
  <2>2. (throughput[f] + nb_tx) * Hz = throughput[f] * Hz + nb_tx * Hz
    BY <1>1
  <2>3. nb_tx * Hz <= Burst * Hz
    <3>1. Hz * nb_tx <= Hz * Burst
      BY <1>1, MulMono
    <3> QED
      BY <3>1, <1>1
  <2>4. throughput[f] * Hz <= Rate * window
    BY <1>3 DEF RateInv, Count
  <2>5. throughput[f] * Hz \in Nat /\ nb_tx * Hz \in Nat
        /\ Burst * Hz \in Nat /\ Rate * window \in Nat
    BY <1>1
  <2> QED
    BY <1>2, <2>1, <2>2, <2>3, <2>4, <2>5
<1>4. CASE f # cur_flow
  <2>1. throughput'[f] = throughput[f]
    BY <1>1, <1>4 DEF Count, TypeOK
  <2> QED
    BY <1>2, <2>1 DEF RateInv
<1> QED
  BY <1>3, <1>4

\* The passing of time only raises the limit.
LEMMA TickRate ==
  ASSUME TypeOK, RateInv, Tick
  PROVE  RateInv'
<1> USE ConstantTypes
<1>1. window \in Nat /\ window' \in Nat /\ window <= window'
  BY DEF TypeOK, Tick, Lesser
<1>2. Rate * window <= Rate * window'
  <2>1. \A a, b \in Nat : a <= b => Rate * a <= Rate * b
    BY MulMono
  <2> QED
    BY <1>1, <2>1
<1>3. Rate * window \in Nat /\ Rate * window' \in Nat /\ Burst * Hz \in Nat
  <2>1. \A a \in Nat : Rate * a \in Nat
    OBVIOUS
  <2>2. Burst * Hz \in Nat
    OBVIOUS
  <2> QED
    BY <1>1, <2>1, <2>2, Zenon
<1>4. \A f \in Flows : throughput[f] * Hz \in Nat
  BY DEF TypeOK
<1>5. throughput' = throughput /\ pc' = pc /\ cur_flow' = cur_flow
  BY DEF Tick, EnvUnchanged, sendVars, pathVars
<1>6. cur_flow \in Flows
  BY DEF TypeOK
<1>7. Flows' = Flows
  BY DEF Tick, EnvUnchanged, Flows
<1> QED
  BY <1>2, <1>3, <1>4, <1>5, <1>6, <1>7 DEF RateInv

\* RateInv is inductive: the flow counted is the flow that was tested.
LEMMA RateStep == TypeOK /\ RateInv /\ [Next]_vars => RateInv'
<1> SUFFICES ASSUME TypeOK, RateInv, [Next]_vars PROVE RateInv'
  OBVIOUS
<1>0. count_dst_ip' = count_dst_ip /\ Flows' = Flows
  BY DstFixed
<1> USE <1>0
<1>1. CASE Skip
  <2>1. pc' = "loop"
    BY <1>1 DEF Skip, Select, CanSend
  <2> QED
    BY <1>1, <2>1, SelectRate DEF Skip, RateInv
<1>2. CASE Alloc
  BY <1>2, SelectRate DEF Alloc, RateInv
<1>3. CASE Count
  <2>1. pc' = "loop"
    BY <1>3 DEF Count
  <2> QED
    BY <1>3, <2>1, CountRate DEF RateInv
<1>4. CASE Tick
  BY <1>4, TickRate
<1>5. ASSUME UNCHANGED <<throughput, window, cur_flow>>,
             pc' \in {"send", "sent"} => pc \in {"send", "sent"}
      PROVE  RateInv'
  BY <1>5 DEF RateInv
<1>6. CASE Sender
  <2>1. CASE Interrupted \/ StartDrain \/ EndDrain \/ Abort
             \/ StopReceiver \/ Report
    BY <2>1, <1>5 DEF Interrupted, StartDrain, EndDrain, Abort, StopReceiver,
                      Report, timeVars, pathVars, sendVars
  <2>2. CASE \E n \in 0..Burst : TxBurst(n)
    BY <2>2, <1>5 DEF TxBurst, timeVars, pathVars, sendVars
  <2> QED
    BY <1>1, <1>2, <1>3, <1>6, <2>1, <2>2 DEF Sender
<1>7. CASE Receiver
  BY <1>5, <1>7 DEF Receiver, RecvEnd, RecvBurst, RecvEcho, RecvOther, RecvArp,
                    RecvNext, RecvPacket, RecvUnchanged, timeVars, pathVars,
                    sendVars
<1>8. CASE HandleMainInt \/ TxDone \/ Lose \/ OthersSend
           \/ \E q \in Queues : EchoArrives(q) \/ NoiseArrives(q)
  BY <1>5, <1>8 DEF HandleMainInt, TxDone, Lose, OthersSend, EchoArrives, NoiseArrives,
                    Arrive, EnvUnchanged, timeVars, pathVars, sendVars
<1>9. CASE UNCHANGED vars
  BY <1>5, <1>9 DEF vars, timeVars, pathVars, sendVars
<1> QED
  BY <1>4, <1>6, <1>7, <1>8, <1>9 DEF Next

\* In every second a flow sends at most what its rate allows at that moment,
\* plus one burst, for every rate, burst and number of flows.
THEOREM RateHolds == Spec => []RateRespected
<1>1. Init => RateInv
  BY ConstantTypes DEF Init, RateInv
<1>2. RateInv => RateRespected
  BY DEF RateInv, RateRespected
<1> QED
  BY <1>1, <1>2, RateStep, InitTypes, NextTypes, PTL DEF Spec

-----------------------------------------------------------------------------
(* The join.                                                                *)

JoinInv ==
  /\ pc = "done" => recv \in {"none", "done"}
  /\ ~Bidi => recv = "none"
  /\ recv # "pkt" => recv_bufs = <<>>

\* The receiver has ended when its counters and histograms are printed and
\* freed, it does not start again, and it ends only between two bursts.
LEMMA JoinStep == JoinInv /\ [Next]_vars => JoinInv'
<1> SUFFICES ASSUME JoinInv, [Next]_vars PROVE JoinInv'
  OBVIOUS
<1> USE DEF JoinInv
<1>1. CASE Sender
  BY <1>1 DEF Sender, Interrupted, StartDrain, EndDrain, Abort, Skip, Alloc,
              TxBurst, Count, StopReceiver, Report, Joined, Select, CanSend,
              recvVars
<1>2. CASE Receiver
  BY <1>2 DEF Receiver, RecvEnd, RecvBurst, RecvEcho, RecvOther, RecvArp,
              RecvNext, RecvPacket, RecvUnchanged
<1>3. CASE HandleMainInt \/ TxDone \/ Lose \/ OthersSend \/ Tick
           \/ \E q \in Queues : EchoArrives(q) \/ NoiseArrives(q)
  BY <1>3 DEF HandleMainInt, TxDone, Lose, OthersSend, Tick, EchoArrives,
              NoiseArrives, Arrive, EnvUnchanged, recvVars
<1>4. CASE UNCHANGED vars
  BY <1>4 DEF vars, recvVars
<1> QED
  BY <1>1, <1>2, <1>3, <1>4 DEF Next

-----------------------------------------------------------------------------
(* The assertion on the destination.                                        *)

\* With one destination the round robin always returns to it, so the assertion
\* of the sending loop holds and does not end the client.
THEOREM OneDestinationHolds == Spec => []OneDestination
<1>1. Init => OneDestination
  BY DEF Init, OneDestination
<1>2. TypeOK /\ OneDestination /\ [Next]_vars => OneDestination'
  <2> SUFFICES ASSUME TypeOK, OneDestination, [Next]_vars,
                      count_dst_ip' = 1
               PROVE  pc' # "abort"
    BY DEF OneDestination
  <2>0. count_dst_ip = 1 /\ pc # "abort" /\ selected_dst = 0
    <3>1. count_dst_ip = 1
      BY DstFixed
    <3>2. selected_dst \in 0..(1 - 1)
      BY <3>1 DEF TypeOK
    <3> QED
      BY <3>1, <3>2 DEF OneDestination
  <2>1. CASE Sender
    BY <2>0, <2>1 DEF Sender, Interrupted, StartDrain, EndDrain, Abort, Skip,
                      Alloc, TxBurst, Count, StopReceiver, Report
  <2>2. CASE Receiver
    BY <2>0, <2>2 DEF Receiver, RecvEnd, RecvBurst, RecvEcho, RecvOther, RecvArp,
                      RecvNext, RecvPacket, RecvUnchanged
  <2>3. CASE HandleMainInt \/ TxDone \/ Lose \/ OthersSend \/ Tick
             \/ \E q \in Queues : EchoArrives(q) \/ NoiseArrives(q)
    BY <2>0, <2>3 DEF HandleMainInt, TxDone, Lose, OthersSend, Tick, EchoArrives,
                      NoiseArrives, Arrive, EnvUnchanged
  <2>4. CASE UNCHANGED vars
    BY <2>0, <2>4 DEF vars
  <2> QED
    BY <2>1, <2>2, <2>3, <2>4 DEF Next
<1> QED
  BY <1>1, <1>2, InitTypes, NextTypes, PTL DEF Spec

-----------------------------------------------------------------------------
(* What the report counts.  An echo is in the network, in a ring or in the  *)
(* receiver's hands before it is counted, and the sender may not yet have   *)
(* counted the packet it answers.                                           *)

NotCounted == IF pc = "sent" THEN nb_tx ELSE 0

EchoInv ==
  total_received_pkts + Echoes(recv_bufs) + InRings + net + lost
    = total_sent_pkts + NotCounted + others_sent

\* The changes of a list and what they do to the number of echoes in it.
LEMMA EchoesFacts ==
  ASSUME NEW s \in Seq(Kinds)
  PROVE  /\ Echoes(s) \in Nat
         /\ Echoes(<<>>) = 0
         /\ \A e \in Kinds : Echoes(Append(s, e)) = Echoes(s) + (IF e = "echo" THEN 1 ELSE 0)
         /\ s # <<>> => Echoes(Tail(s)) = Echoes(s) - (IF Head(s) = "echo" THEN 1 ELSE 0)
         /\ \A n \in 0..Len(s) : Echoes(s) = Echoes(SubSeq(s, 1, n))
                                               + Echoes(SubSeq(s, n + 1, Len(s)))
<1> DEFINE T == {"echo"}
<1>1. \A e : e \in T <=> e = "echo"
  OBVIOUS
<1> HIDE DEF T
<1>2. /\ NumberOf(s, T) \in Nat
      /\ NumberOf(<<>>, T) = 0
      /\ \A e \in Kinds : NumberOf(Append(s, e), T) = NumberOf(s, T) + (IF e \in T THEN 1 ELSE 0)
      /\ s # <<>> => NumberOf(Tail(s), T) = NumberOf(s, T) - (IF Head(s) \in T THEN 1 ELSE 0)
      /\ \A n \in 0..Len(s) : NumberOf(s, T) = NumberOf(SubSeq(s, 1, n), T)
                                          + NumberOf(SubSeq(s, n + 1, Len(s)), T)
  BY NumberOfFacts
<1> QED
  BY <1>1, <1>2 DEF Echoes, T

\* A change of one ring changes the sum over the rings by as much.
LEMMA RingSum ==
  ASSUME NEW r \in [Queues -> Seq(Kinds)]
  PROVE  /\ SumFunction(EchoesOf(r)) \in Nat
         /\ \A q \in Queues, s \in Seq(Kinds) :
              SumFunction(EchoesOf([r EXCEPT ![q] = s]))
                = SumFunction(EchoesOf(r)) + (Echoes(s) - Echoes(r[q]))
         /\ (\A q \in Queues : r[q] = <<>>) => SumFunction(EchoesOf(r)) = 0
<1>1. IsFiniteSet(Queues)
  BY ConstantTypes, FS_Interval DEF Queues
<1>2. EchoesOf(r) \in [Queues -> Nat]
  BY EchoesFacts DEF EchoesOf
<1>3. SumFunction(EchoesOf(r)) \in Nat
  BY <1>1, <1>2, SumOfNats
<1>4. ASSUME NEW q \in Queues, NEW s \in Seq(Kinds)
      PROVE  SumFunction(EchoesOf([r EXCEPT ![q] = s]))
                = SumFunction(EchoesOf(r)) + (Echoes(s) - Echoes(r[q]))
  <2> DEFINE f == EchoesOf(r)
             e == EchoesOf([r EXCEPT ![q] = s])
  <2>1. f \in [Queues -> Int] /\ e \in [Queues -> Int]
    <3>1. [r EXCEPT ![q] = s] \in [Queues -> Seq(Kinds)]
      OBVIOUS
    <3>2. e \in [Queues -> Nat]
      BY <3>1, EchoesFacts DEF EchoesOf
    <3>3. \A g \in [Queues -> Nat] : g \in [Queues -> Int]
      OBVIOUS
    <3> QED
      BY <1>2, <3>2, <3>3, Zenon
  <2>2. f[q] = Echoes(r[q]) /\ e[q] = Echoes(s) /\ \A x \in Queues \ {q} : e[x] = f[x]
    BY DEF EchoesOf
  <2> HIDE DEF f, e
  <2>3. SumFunction(e) = SumFunction(f) + (e[q] - f[q])
    BY <1>1, <2>1, <2>2, SumUpdate, ZenonT(60)
  <2> QED
    BY <2>2, <2>3 DEF f, e
<1>5. ASSUME \A q \in Queues : r[q] = <<>>
      PROVE  SumFunction(EchoesOf(r)) = 0
  <2>1. \A q \in Queues : EchoesOf(r)[q] = 0
    BY <1>5, EchoesFacts DEF EchoesOf
  <2> QED
    BY <1>1, <1>2, <2>1, SumOfNats
<1> QED
  BY <1>3, <1>4, <1>5

\* What EchoInv adds up are natural numbers.
LEMMA EchoTypes ==
  ASSUME TypeOK
  PROVE  /\ total_received_pkts \in Nat /\ Echoes(recv_bufs) \in Nat
         /\ InRings \in Nat /\ net \in Nat /\ total_sent_pkts \in Nat
         /\ NotCounted \in Nat /\ nb_tx \in Nat
         /\ lost \in Nat /\ others_sent \in Nat
<1>1. recv_bufs \in Seq(Kinds) /\ rxq \in [Queues -> Seq(Kinds)]
  BY DEF TypeOK, Kinds
<1> QED
  BY <1>1, EchoesFacts, RingSum, ConstantTypes DEF TypeOK, InRings, NotCounted

\* EchoInv is inductive with JoinInv: the two threads and the NIC only move echoes on, and
\* a burst enters the network together with its number.
LEMMA EchoStep == TypeOK /\ JoinInv /\ EchoInv /\ [Next]_vars => EchoInv'
<1> SUFFICES ASSUME TypeOK, JoinInv, EchoInv, [Next]_vars PROVE EchoInv'
  OBVIOUS
<1> USE DEF timeVars, pathVars, sendVars, recvVars, netVars, RecvUnchanged, EnvUnchanged
<1>0. /\ total_received_pkts \in Nat /\ Echoes(recv_bufs) \in Nat
      /\ InRings \in Nat /\ net \in Nat /\ total_sent_pkts \in Nat
      /\ NotCounted \in Nat /\ nb_tx \in Nat
      /\ lost \in Nat /\ others_sent \in Nat
  BY EchoTypes
<1>1. recv_bufs \in Seq(Kinds) /\ rxq \in [Queues -> Seq(Kinds)]
  BY DEF TypeOK, Kinds
<1>2. ASSUME UNCHANGED <<total_received_pkts, recv_bufs, rxq, total_sent_pkts, NotCounted>>,
             lost' \in Nat, net' \in Nat, others_sent' \in Nat,
             net' + lost' + others_sent = net + lost + others_sent'
      PROVE  EchoInv'
  <2>1. Echoes(recv_bufs)' = Echoes(recv_bufs) /\ InRings' = InRings
    BY <1>2 DEF InRings
  <2>2. NotCounted' = NotCounted /\ total_received_pkts' = total_received_pkts
        /\ total_sent_pkts' = total_sent_pkts
    BY <1>2
  <2> DEFINE a == total_received_pkts + Echoes(recv_bufs) + InRings
             b == total_sent_pkts + NotCounted
  <2>3. a \in Nat /\ b \in Nat /\ a + net + lost = b + others_sent
    BY <1>0 DEF EchoInv
  <2>4. EchoInv' <=> a + net' + lost' = b + others_sent'
    BY <2>1, <2>2 DEF EchoInv
  <2>5. /\ net \in Nat /\ lost \in Nat /\ others_sent \in Nat
        /\ net' \in Nat /\ lost' \in Nat /\ others_sent' \in Nat
        /\ net' + lost' + others_sent = net + lost + others_sent'
    BY <1>0, <1>2
  <2> HIDE DEF a, b
  <2>6. a + net' + lost' = b + others_sent'
    BY <2>3, <2>5
  <2> QED
    BY <2>4, <2>6, Zenon
<1>3. CASE Sender
  <2>1. CASE Interrupted \/ StartDrain \/ EndDrain \/ Abort \/ Skip \/ Alloc
             \/ StopReceiver \/ Report
    <3>1. /\ UNCHANGED <<total_received_pkts, recv_bufs, rxq, total_sent_pkts, netVars, nb_tx>>
          /\ pc # "sent" /\ pc' # "sent"
      BY <2>1 DEF Interrupted, StartDrain, EndDrain, Abort, Skip, Alloc, Select,
                  CanSend, StopReceiver, Report
    <3> QED
      BY <1>0, <1>2, <3>1 DEF NotCounted
  <2>2. ASSUME NEW n \in 0..Burst, TxBurst(n) PROVE EchoInv'
    <3>1. /\ UNCHANGED <<total_received_pkts, recv_bufs, rxq, total_sent_pkts, lost, others_sent>>
          /\ net' = net + n /\ NotCounted = 0 /\ NotCounted' = n
      BY <2>2 DEF TxBurst, NotCounted
    <3>2. Echoes(recv_bufs)' = Echoes(recv_bufs) /\ InRings' = InRings /\ n \in Nat
      BY <3>1, ConstantTypes DEF InRings
    <3> QED
      BY <1>0, <3>1, <3>2 DEF EchoInv
  <2>3. CASE Count
    <3>1. /\ UNCHANGED <<total_received_pkts, recv_bufs, rxq, netVars>>
          /\ total_sent_pkts' = total_sent_pkts + nb_tx
          /\ NotCounted = nb_tx /\ NotCounted' = 0
      BY <2>3 DEF Count, CountSent, NotCounted
    <3>2. Echoes(recv_bufs)' = Echoes(recv_bufs) /\ InRings' = InRings
      BY <3>1 DEF InRings
    <3> QED
      BY <1>0, <3>1, <3>2 DEF EchoInv
  <2> QED
    BY <1>3, <2>1, <2>2, <2>3 DEF Sender
<1>4. CASE Receiver
  <2>0. UNCHANGED <<total_sent_pkts, NotCounted>>
    BY <1>4 DEF Receiver, RecvEnd, RecvBurst, RecvEcho, RecvOther, RecvArp,
                RecvNext, RecvPacket, NotCounted
  <2>1. CASE RecvEnd \/ RecvNext
    BY <1>0, <1>2, <2>0, <2>1 DEF RecvEnd, RecvNext
  <2>2. CASE RecvBurst
    <3>1. PICK q \in Queues :
            LET n == Lesser(MAX_BURST_SIZE, Len(rxq[q]))
            IN /\ recv_bufs' = SubSeq(rxq[q], 1, n)
               /\ rxq' = [rxq EXCEPT ![q] = SubSeq(rxq[q], n + 1, Len(rxq[q]))]
      BY <2>2 DEF RecvBurst
    <3> DEFINE s == rxq[q]
               n == Lesser(MAX_BURST_SIZE, Len(s))
               a == SubSeq(s, 1, n)
               b == SubSeq(s, n + 1, Len(s))
    <3>2. s \in Seq(Kinds)
      BY <1>1
    <3>3. n \in 0..Len(s)
      BY <3>2, ConstantTypes, LenProperties DEF Lesser
    <3> HIDE DEF n
    <3>4. a \in Seq(Kinds) /\ b \in Seq(Kinds)
      BY <3>2, <3>3, Cut
    <3>5. Echoes(s) = Echoes(a) + Echoes(b)
      BY <3>2, <3>3, EchoesFacts
    <3>6. recv_bufs' = a /\ rxq' = [rxq EXCEPT ![q] = b]
      BY <3>1 DEF n
    <3>7. Echoes(a) \in Nat /\ Echoes(b) \in Nat /\ Echoes(s) \in Nat
      BY <3>2, <3>4, EchoesFacts
    <3>8. InRings' = InRings + (Echoes(b) - Echoes(s))
      <4> HIDE DEF a, b
      <4> QED
        BY <1>1, <3>4, <3>6, RingSum DEF InRings
    <3>9. UNCHANGED <<total_received_pkts, net, lost, others_sent>>
      BY <2>2 DEF RecvBurst
    <3> HIDE DEF s, a, b
    <3>10. Echoes(recv_bufs)' = Echoes(a)
      BY <3>6
    <3> DEFINE c == total_received_pkts + net + lost
               d == total_sent_pkts + NotCounted + others_sent
    <3>11. c \in Nat /\ d \in Nat /\ c + InRings = d
      <4>1. recv_bufs = <<>>
        BY <2>2 DEF RecvBurst, JoinInv
      <4>2. Echoes(recv_bufs) = 0
        BY <1>1, <4>1, EchoesFacts
      <4> QED
        BY <1>0, <4>2 DEF EchoInv
    <3>12. EchoInv' <=> c + Echoes(a) + InRings' = d
      BY <1>0, <2>0, <3>7, <3>8, <3>9, <3>10 DEF EchoInv
    <3> QED
      BY <1>0, <3>5, <3>7, <3>8, <3>11, <3>12
  <2>3. ASSUME NEW k \in Kinds, RecvPacket(k)
        PROVE  /\ Echoes(recv_bufs)' = Echoes(recv_bufs) - (IF k = "echo" THEN 1 ELSE 0)
               /\ InRings' = InRings /\ UNCHANGED netVars
    BY <1>1, <2>3, EchoesFacts DEF RecvPacket, InRings
  <2>4. CASE RecvEcho
    <3>1. RecvPacket("echo") /\ "echo" \in Kinds /\ total_received_pkts' = total_received_pkts + 1
      BY <2>4 DEF RecvEcho, Kinds
    <3> QED
      BY <1>0, <2>0, <2>3, <3>1 DEF EchoInv
  <2>5. CASE RecvOther \/ RecvArp
    <3>1. /\ \E k \in Kinds : k # "echo" /\ RecvPacket(k)
          /\ total_received_pkts' = total_received_pkts
      BY <2>5 DEF RecvOther, RecvArp, Kinds
    <3> QED
      BY <1>0, <2>0, <2>3, <3>1 DEF EchoInv
  <2> QED
    BY <1>4, <2>1, <2>2, <2>4, <2>5 DEF Receiver
<1>5. CASE HandleMainInt \/ TxDone \/ Lose \/ OthersSend \/ Tick
  <2>1. UNCHANGED <<total_received_pkts, recv_bufs, rxq, total_sent_pkts, NotCounted>>
    BY <1>5 DEF HandleMainInt, TxDone, Lose, OthersSend, Tick, NotCounted
  <2>2. /\ net' \in Nat /\ lost' \in Nat /\ others_sent' \in Nat
        /\ net' + lost' + others_sent = net + lost + others_sent'
    BY <1>0, <1>5 DEF HandleMainInt, TxDone, Lose, OthersSend, Tick
  <2> QED
    BY <1>2, <2>1, <2>2
<1>6. ASSUME NEW q \in Queues, NEW k \in Kinds, Arrive(q, k),
             net' = net - (IF k = "echo" THEN 1 ELSE 0),
             UNCHANGED <<lost, others_sent>>
      PROVE  EchoInv'
  <2> DEFINE s == Append(rxq[q], k)
  <2>1. /\ s \in Seq(Kinds) /\ Echoes(s) = Echoes(rxq[q]) + (IF k = "echo" THEN 1 ELSE 0)
        /\ Echoes(rxq[q]) \in Nat
    BY <1>1, EchoesFacts
  <2>2. rxq' = [rxq EXCEPT ![q] = s]
    BY <1>6 DEF Arrive
  <2> HIDE DEF s
  <2>3. InRings' = InRings + (Echoes(s) - Echoes(rxq[q]))
    BY <1>1, <2>1, <2>2, RingSum DEF InRings
  <2>4. UNCHANGED <<total_received_pkts, recv_bufs, total_sent_pkts, NotCounted>>
    BY <1>6 DEF Arrive, NotCounted
  <2>5. Echoes(recv_bufs)' = Echoes(recv_bufs)
    BY <2>4
  <2> QED
    BY <1>0, <1>6, <2>1, <2>3, <2>4, <2>5, SMTT(60) DEF EchoInv
<1>7. ASSUME NEW q \in Queues, EchoArrives(q) \/ NoiseArrives(q)
      PROVE  EchoInv'
  <2>1. CASE EchoArrives(q)
    BY <1>6, <2>1 DEF EchoArrives, Kinds
  <2>2. CASE NoiseArrives(q)
    <3>1. PICK k \in Noise : Arrive(q, k)
      BY <2>2 DEF NoiseArrives
    <3>2. k \in Kinds /\ k # "echo" /\ net' = net - 0 /\ UNCHANGED <<lost, others_sent>>
      BY <1>0, <2>2, <3>1, ClientAssumption DEF Kinds, NoiseArrives
    <3> QED
      BY <1>6, <3>1, <3>2
  <2> QED
    BY <1>7, <2>1, <2>2
<1>8. CASE UNCHANGED vars
  BY <1>0, <1>2, <1>8 DEF vars, NotCounted
<1> QED
  BY <1>3, <1>4, <1>5, <1>7, <1>8 DEF Next

\* At the report the two counters differ by exactly what was lost, is under way
\* or was left in the rings, and by what other contexts sent, whatever the
\* threads' interleaving, for every number of flows and queues.
THEOREM ReportExactHolds == Spec => []ReportExact
<1>1. Init => EchoInv
  <2> SUFFICES ASSUME Init PROVE EchoInv
    OBVIOUS
  <2>1. TypeOK
    BY InitTypes
  <2>2. rxq \in [Queues -> Seq(Kinds)] /\ \A q \in Queues : rxq[q] = <<>>
    BY <2>1 DEF Init, TypeOK, Kinds
  <2>3. InRings = 0
    BY <2>2, RingSum DEF InRings
  <2>4. Echoes(recv_bufs) = 0
    BY <2>1, EchoesFacts DEF Init, TypeOK, Kinds
  <2> QED
    BY <2>3, <2>4 DEF Init, EchoInv, NotCounted
<1>2. Init => JoinInv
  BY DEF Init, JoinInv
<1>3. TypeOK /\ EchoInv /\ JoinInv => ReportExact
  <2> SUFFICES ASSUME TypeOK, EchoInv, JoinInv, pc = "done"
               PROVE  total_received_pkts + InRings + net + lost
                        = total_sent_pkts + others_sent
    BY DEF ReportExact
  <2>1. recv_bufs = <<>>
    BY DEF JoinInv
  <2>2. Echoes(recv_bufs) = 0
    <3>1. <<>> \in Seq(Kinds)
      OBVIOUS
    <3> QED
      BY <2>1, <3>1, EchoesFacts
  <2> QED
    BY <2>2, EchoTypes DEF EchoInv, NotCounted
<1> QED
  BY <1>1, <1>2, <1>3, EchoStep, JoinStep, InitTypes, NextTypes, PTL DEF Spec
==============================================================================
