----------------------------- MODULE ArpProofs ------------------------------
(***************************************************************************)
(* Proofs about module Arp, for every number of workers, queues and        *)
(* destinations, every ring and pool size and all other traffic.           *)
(***************************************************************************)
EXTENDS Arp, CommonLemmas, TLAPS

Macs   == {Mac[d] : d \in Servers}
Frames == Noise \cup Replies
Sent   == Requests \cup {OwnReply(m) : m \in Noise}

\* The assumption on the constants, one by one.
LEMMA ConstantTypes ==
  /\ NumWorkers \in Nat /\ NumWorkers > 0 /\ CountQueue \in Nat /\ CountQueue > 0
  /\ BURST \in Nat /\ RX_RING \in Nat /\ TX_RING \in Nat /\ NUM_MBUFS \in Nat
  /\ Len(Dsts) \in Nat /\ Len(Dsts) > 0 /\ DOMAIN Dsts = 1..Len(Dsts)
  /\ Dsts \in Seq(Servers) /\ RxQueues \subseteq Queues /\ NoMac \notin Macs
  BY ArpAssumption DEF Macs

\* The queues get_dst_mac polls exist, whatever worker it runs on.
LEMMA PolledQueueExists ==
  ASSUME NEW q \in 0..(CountQueue - 1)
  PROVE  q \in Queues
<1>1. 0 \in 0..(NumWorkers - 1) /\ CountQueue \in Nat \ {0}
      /\ NumWorkers \in Nat \ {0}
  BY ConstantTypes
<1>2. 0 * CountQueue + q \in 0..(NumWorkers * CountQueue - 1)
  BY <1>1, IndexInRange
<1>3. 0 * CountQueue + q = q
  BY <1>1
<1> QED
  BY <1>2, <1>3 DEF Queues

\* The part of a ring that a poll takes and the part it leaves.
LEMMA PollTypes ==
  ASSUME NEW S, NEW q \in Queues, rxq[q] \in Seq(S)
  PROVE  Taken(q) \in Seq(S) /\ Rest(q) \in Seq(S)
<1> DEFINE k == Lesser(BURST, Len(rxq[q]))
<1>1. k \in Nat /\ k <= Len(rxq[q]) /\ Len(rxq[q]) \in Nat
  BY ConstantTypes DEF Lesser
<1>2. SubSeq(rxq[q], 1, k) \in Seq(S)
  BY <1>1, SubSeqType
<1>3. SubSeq(rxq[q], k + 1, Len(rxq[q])) \in Seq(S)
  BY <1>1, SubSeqType
<1> QED
  BY <1>2, <1>3 DEF Taken, Rest

\* The only frames get_dst_mac takes for an answer are replies of the servers.
LEMMA AnswerIsReply ==
  ASSUME NEW m \in Frames, IsReply(m)
  PROVE  m \in Replies /\ m.sha \in Macs
<1>1. m \notin Noise
  BY ArpAssumption DEF IsReply
<1>2. PICK d \in Servers : m = Reply(d)
  BY <1>1 DEF Frames, Replies
<1>3. m.sha = Mac[d]
  BY <1>2 DEF Reply
<1> QED
  BY <1>2, <1>3 DEF Macs, Replies

\* send_arp puts a frame into the ring, or changes nothing.
LEMMA SendArpTypes ==
  ASSUME NEW m \in Sent, TypeOK, tx_free > 0, SendArp(m)
  PROVE  /\ txq' \in Seq(Sent)
         /\ tx_free' \in Nat
         /\ tx_free' + Len(txq') = tx_free + Len(txq)
<1>1. txq \in Seq(Sent) /\ tx_free \in Nat
  BY DEF TypeOK, Sent
<1>2. CASE txq' = Append(txq, m) /\ tx_free' = tx_free - 1
  <2>1. Len(Append(txq, m)) = Len(txq) + 1 /\ Len(txq) \in Nat
    BY <1>1
  <2>2. Append(txq, m) \in Seq(Sent)
    BY <1>1
  <2>3. (tx_free - 1) + (Len(txq) + 1) = tx_free + Len(txq)
    BY <1>1, <2>1
  <2> QED
    BY <1>1, <1>2, <2>1, <2>2, <2>3
<1>3. CASE UNCHANGED <<txq, tx_free>>
  BY <1>1, <1>3
<1> QED
  BY <1>2, <1>3 DEF SendArp

-----------------------------------------------------------------------------
(* Every step keeps the types and the mbufs of the tx pool.                 *)

Kept == TypeOK' /\ tx_free' + Len(txq') = tx_free + Len(txq)

\* The steps of get_dst_mac and of its caller.
LEMMA ResolveTypes ==
  ASSUME TypeOK, NEW w \in Workers, Resolve(w)
  PROVE  Kept
<1> USE ConstantTypes
<1>1. CASE Send(w)
  <2>1. Dsts[dst[w]] \in Servers
    BY DEF TypeOK, Servers
  <2>2. Request(Dsts[dst[w]]) \in Sent
    BY <2>1 DEF Sent, Requests
  <2>3. \/ tx_free > 0 /\ SendArp(Request(Dsts[dst[w]]))
        \/ UNCHANGED <<txq, tx_free>>
    BY <1>1 DEF Send
  <2>4. /\ txq' \in Seq(Sent) /\ tx_free' \in Nat
        /\ tx_free' + Len(txq') = tx_free + Len(txq)
    <3>1. txq \in Seq(Sent) /\ tx_free \in Nat
      BY DEF TypeOK, Sent
    <3> QED
      BY <2>2, <2>3, <3>1, SendArpTypes
  <2>5. pc' \in [Workers -> {"send", "poll", "run"}]
        /\ rx_q' \in [Workers -> 0..CountQueue]
    BY <1>1 DEF TypeOK, Send
  <2> QED
    BY <1>1, <2>4, <2>5 DEF Kept, TypeOK, Send, Sent
<1>2. ASSUME Poll(w)
      PROVE  /\ rx_q[w] \in 0..(CountQueue - 1)
             /\ rx_q[w] \in Queues
             /\ Taken(rx_q[w]) \in Seq(Frames)
             /\ rxq' \in [Queues -> Seq(Frames)]
  <2>1. rx_q[w] \in 0..(CountQueue - 1)
    BY <1>2 DEF TypeOK, Poll, MoreQueues
  <2>2. rx_q[w] \in Queues
    BY <2>1, PolledQueueExists
  <2>3. rxq[rx_q[w]] \in Seq(Frames)
    BY <2>2 DEF TypeOK, Frames
  <2>4. Taken(rx_q[w]) \in Seq(Frames) /\ Rest(rx_q[w]) \in Seq(Frames)
    BY <2>2, <2>3, PollTypes
  <2> QED
    BY <1>2, <2>1, <2>2, <2>4 DEF TypeOK, Poll, Frames
<1>3. CASE NotFound(w)
  <2>1. Poll(w)
    BY <1>3 DEF NotFound
  <2>2. rx_q' \in [Workers -> 0..CountQueue]
    BY <1>2, <1>3, <2>1 DEF TypeOK, NotFound
  <2> QED
    BY <1>2, <1>3, <2>1, <2>2 DEF Kept, TypeOK, NotFound, Poll, Frames
<1>4. CASE Found(w)
  <2>1. Poll(w)
    BY <1>4 DEF Found
  <2>2. PICK i \in Answers(Taken(rx_q[w])) :
          server_eth' =
            [server_eth EXCEPT ![w][dst[w]] = Taken(rx_q[w])[i].sha]
    BY <1>4 DEF Found
  <2>3. Taken(rx_q[w])[i] \in Frames /\ IsReply(Taken(rx_q[w])[i])
    BY <1>2, <2>1, <2>2 DEF Answers
  <2>4. Taken(rx_q[w])[i].sha \in Macs
    BY <2>3, AnswerIsReply
  <2>5. server_eth' \in [Workers -> [DOMAIN Dsts -> Macs \cup {NoMac}]]
    BY <2>2, <2>4 DEF TypeOK, Macs
  <2>6. dst' \in [Workers -> DOMAIN Dsts]
        /\ pc' \in [Workers -> {"send", "poll", "run"}]
    <3>1. CASE dst[w] < Len(Dsts)
      <4>1. dst[w] + 1 \in DOMAIN Dsts
        BY <3>1 DEF TypeOK
      <4>2. dst' = [dst EXCEPT ![w] = dst[w] + 1]
            /\ pc' = [pc EXCEPT ![w] = "send"]
        BY <1>4, <3>1 DEF Found
      <4> QED
        BY <4>1, <4>2 DEF TypeOK
    <3>2. CASE ~(dst[w] < Len(Dsts))
      BY <1>4, <3>2 DEF TypeOK, Found
    <3> QED
      BY <3>1, <3>2
  <2> QED
    BY <1>2, <1>4, <2>1, <2>5, <2>6 DEF Kept, TypeOK, Found, Poll, Frames, Macs
<1>5. CASE Retry(w)
  BY <1>5 DEF Kept, TypeOK, Retry
<1> QED
  BY <1>1, <1>3, <1>4, <1>5 DEF Resolve

\* The steps of the receiver threads.
LEMMA ReceiveTypes ==
  ASSUME TypeOK, NEW w \in Workers, Receive(w)
  PROVE  Kept
<1>1. PICK q \in Queues :
        /\ rxq[q] # <<>>
        /\ rxq' = [rxq EXCEPT ![q] = Tail(@)]
        /\ IF Asks(Head(rxq[q])) /\ tx_free > 0
           THEN SendArp(OwnReply(Head(rxq[q])))
           ELSE UNCHANGED <<txq, tx_free>>
  BY DEF Receive
<1>2. rxq[q] \in Seq(Frames)
  BY DEF TypeOK, Frames
<1>3. Head(rxq[q]) \in Frames /\ Tail(rxq[q]) \in Seq(Frames)
  BY <1>1, <1>2
<1>4. rxq' \in [Queues -> Seq(Frames)]
  BY <1>1, <1>3 DEF TypeOK, Frames
<1>5. ASSUME Asks(Head(rxq[q]))
      PROVE  OwnReply(Head(rxq[q])) \in Sent
  <2>1. Head(rxq[q]) \notin Replies
    BY <1>5 DEF Asks, Replies, Reply
  <2> QED
    BY <1>3, <2>1 DEF Frames, Sent
<1>6. /\ txq' \in Seq(Sent) /\ tx_free' \in Nat
      /\ tx_free' + Len(txq') = tx_free + Len(txq)
  <2>1. txq \in Seq(Sent) /\ tx_free \in Nat
    BY DEF TypeOK, Sent
  <2> QED
    BY <1>1, <1>5, <2>1, SendArpTypes
<1> QED
  BY <1>4, <1>6 DEF Kept, TypeOK, Receive, Frames, Sent

\* The steps of the NIC, the network and the servers.
LEMMA EnvironmentTypes ==
  ASSUME TypeOK,
         \/ Transmit
         \/ \E d \in Servers : Answer(d) \/ Deliver(d)
         \/ \E m \in net : Lose(m)
         \/ OtherTraffic
  PROVE  Kept
<1>1. CASE Transmit
  <2>1. txq \in Seq(Sent) /\ txq # <<>> /\ tx_free \in Nat
    BY <1>1 DEF TypeOK, Transmit, Sent
  <2>2. Tail(txq) \in Seq(Sent) /\ Len(Tail(txq)) = Len(txq) - 1
        /\ Len(txq) \in Nat
    BY <2>1
  <2>3. (tx_free + 1) + (Len(txq) - 1) = tx_free + Len(txq)
    BY <2>1, <2>2
  <2>4. net' \subseteq Requests \cup Replies
    BY <1>1 DEF TypeOK, Transmit
  <2> QED
    BY <1>1, <2>1, <2>2, <2>3, <2>4 DEF Kept, TypeOK, Transmit, Sent
<1>2. ASSUME NEW d \in Servers, Answer(d)
      PROVE  Kept
  <2>1. net' \subseteq Requests \cup Replies
    BY <1>2 DEF TypeOK, Answer, Replies
  <2> QED
    BY <1>2, <2>1 DEF Kept, TypeOK, Answer
<1>3. ASSUME NEW m \in Frames, NEW q \in RxQueues, Arrive(m, q)
      PROVE  rxq' \in [Queues -> Seq(Frames)]
  <2>1. q \in Queues
    BY ConstantTypes
  <2>2. rxq[q] \in Seq(Frames)
    BY <2>1 DEF TypeOK, Frames
  <2>3. Append(rxq[q], m) \in Seq(Frames)
    BY <2>2
  <2> QED
    BY <1>3, <2>3 DEF TypeOK, Arrive, Frames
<1>4. ASSUME NEW d \in Servers, Deliver(d)
      PROVE  Kept
  <2>1. PICK q \in RxQueues : Arrive(Reply(d), q)
    BY <1>4 DEF Deliver
  <2>2. Reply(d) \in Frames
    BY DEF Frames, Replies
  <2>3. rxq' \in [Queues -> Seq(Frames)]
    BY <1>3, <2>1, <2>2
  <2>4. net' \subseteq Requests \cup Replies
    BY <1>4 DEF TypeOK, Deliver
  <2> QED
    BY <2>1, <2>3, <2>4 DEF Kept, TypeOK, Arrive, Frames
<1>5. CASE \E m \in net : Lose(m)
  BY <1>5 DEF Kept, TypeOK, Lose
<1>6. CASE OtherTraffic
  <2>1. PICK m \in Noise, q \in RxQueues : Arrive(m, q)
    BY <1>6 DEF OtherTraffic
  <2>2. rxq' \in [Queues -> Seq(Frames)]
    BY <1>3, <2>1 DEF Frames
  <2> QED
    BY <1>6, <2>1, <2>2 DEF Kept, TypeOK, Arrive, OtherTraffic, Frames
<1> QED
  BY <1>1, <1>2, <1>4, <1>5, <1>6

\* All steps together.
LEMMA NextTypes ==
  ASSUME TypeOK, [Next]_vars
  PROVE  Kept
<1>1. CASE UNCHANGED vars
  BY <1>1 DEF vars, TypeOK, Kept
<1> QED
  BY <1>1, ResolveTypes, ReceiveTypes, EnvironmentTypes DEF Next

\* Type correctness: get_dst_mac never polls a queue that does not exist, and
\* an address it stores is that of one of the servers.
THEOREM TypeCorrect == Spec => []TypeOK
<1>1. Init => TypeOK
  BY ConstantTypes DEF Init, TypeOK
<1>2. TypeOK /\ [Next]_vars => TypeOK'
  BY NextTypes DEF Kept
<1> QED
  BY <1>1, <1>2, PTL DEF Spec

\* send_arp neither leaks nor invents an mbuf, in get_dst_mac and in the answers
\* of the receiver threads, whichever call fails.
THEOREM TxConserved == Spec => []TxConservation
<1>1. Init => TxConservation
  BY ConstantTypes DEF Init, TxConservation
<1>2. TypeOK /\ TxConservation /\ [Next]_vars => TxConservation'
  BY NextTypes DEF Kept, TxConservation
<1> QED
  BY <1>1, <1>2, TypeCorrect, PTL DEF Spec

-----------------------------------------------------------------------------
(* The addresses.                                                           *)

\* An address is known for exactly the destinations asked for before the
\* current one, and for all of them when the worker starts to send.
THEOREM KnownHolds == Spec => []AddressesKnown
<1> USE ConstantTypes
<1>1. Init => AddressesKnown
  BY DEF Init, AddressesKnown
<1>2. TypeOK /\ AddressesKnown /\ [Next]_vars => AddressesKnown'
  <2> SUFFICES ASSUME TypeOK, AddressesKnown, [Next]_vars
               PROVE  AddressesKnown'
    OBVIOUS
  <2>1. ASSUME NEW w \in Workers, Found(w)
        PROVE  AddressesKnown'
    <3>1. PICK i \in Answers(Taken(rx_q[w])) :
            server_eth' =
              [server_eth EXCEPT ![w][dst[w]] = Taken(rx_q[w])[i].sha]
      BY <2>1 DEF Found
    <3>2. Taken(rx_q[w])[i].sha \in Macs
      <4>1. rx_q[w] \in 0..(CountQueue - 1)
        BY <2>1 DEF TypeOK, Found, Poll, MoreQueues
      <4>2. Taken(rx_q[w]) \in Seq(Frames)
        BY <4>1, PolledQueueExists, PollTypes DEF TypeOK, Frames
      <4>3. Taken(rx_q[w])[i] \in Frames /\ IsReply(Taken(rx_q[w])[i])
        BY <3>1, <4>2 DEF Answers
      <4> QED
        BY <4>3, AnswerIsReply
    <3>3. pc[w] # "run"
      BY <2>1 DEF Found, Poll
    <3> SUFFICES ASSUME NEW v \in Workers, NEW j \in DOMAIN Dsts
                 PROVE  server_eth'[v][j] # NoMac
                          <=> pc'[v] = "run" \/ j < dst'[v]
      BY DEF AddressesKnown
    <3>4. server_eth[v][j] # NoMac <=> pc[v] = "run" \/ j < dst[v]
      BY DEF AddressesKnown
    <3>5. CASE v # w
      <4>1. pc'[v] = pc[v] /\ dst'[v] = dst[v]
        BY <2>1, <3>5 DEF TypeOK, Found
      <4>2. server_eth'[v] = server_eth[v]
        BY <3>1, <3>5 DEF TypeOK
      <4> QED
        BY <3>4, <4>1, <4>2
    <3>6. CASE v = w
      <4>1. server_eth'[w][j] # NoMac <=> j <= dst[w]
        <5>1. server_eth'[w][j] = IF j = dst[w] THEN Taken(rx_q[w])[i].sha
                                               ELSE server_eth[w][j]
          BY <3>1 DEF TypeOK
        <5>2. j \in Nat /\ dst[w] \in Nat
          BY DEF TypeOK
        <5> QED
          BY <3>2, <3>3, <3>4, <3>6, <5>1, <5>2
      <4>2. CASE dst[w] < Len(Dsts)
        BY <2>1, <3>6, <4>1, <4>2 DEF TypeOK, Found
      <4>3. CASE ~(dst[w] < Len(Dsts))
        BY <2>1, <3>6, <4>1, <4>3 DEF TypeOK, Found
      <4> QED
        BY <4>2, <4>3
    <3> QED
      BY <3>5, <3>6
  <2>2. ASSUME NEW w \in Workers, pc[w] # "run", UNCHANGED <<dst, server_eth>>,
               \/ pc' = [pc EXCEPT ![w] = "send"]
               \/ pc' = [pc EXCEPT ![w] = "poll"]
        PROVE  AddressesKnown'
    BY <2>2 DEF TypeOK, AddressesKnown
  <2>3. ASSUME UNCHANGED <<pc, dst, server_eth>>
        PROVE  AddressesKnown'
    BY <2>3 DEF AddressesKnown
  <2>4. ASSUME NEW w \in Workers, Resolve(w)
        PROVE  AddressesKnown'
    <3>1. CASE Send(w)
      BY <2>2, <3>1 DEF Send
    <3>2. CASE Retry(w)
      BY <2>2, <3>2 DEF Retry
    <3>3. CASE NotFound(w)
      BY <2>3, <3>3 DEF NotFound
    <3> QED
      BY <2>1, <2>4, <3>1, <3>2, <3>3 DEF Resolve
  <2>5. ASSUME \/ \E w \in Workers : Receive(w)
               \/ Transmit
               \/ \E d \in Servers : Answer(d) \/ Deliver(d)
               \/ \E m \in net : Lose(m)
               \/ OtherTraffic
               \/ UNCHANGED vars
        PROVE  AddressesKnown'
    BY <2>3, <2>5 DEF Receive, Transmit, Answer, Deliver, Lose, OtherTraffic,
                      Arrive, vars
  <2> QED
    BY <2>4, <2>5 DEF Next
<1> QED
  BY <1>1, <1>2, TypeCorrect, PTL DEF Spec

-----------------------------------------------------------------------------
(* Whose address it is.  Every frame under way stems from a request for a   *)
(* destination that was asked for, so an answer can name no other host.     *)

AskedRequests == {Request(d) : d \in asked}
AskedReplies  == {Reply(d) : d \in asked}
OwnReplies    == {OwnReply(m) : m \in Noise}

AskedInv ==
  /\ txq \in Seq(AskedRequests \cup OwnReplies)
  /\ net \subseteq AskedRequests \cup AskedReplies
  /\ rxq \in [Queues -> Seq(Noise \cup AskedReplies)]
  /\ OnlyAsked

\* A sequence keeps its type when the type grows.
LEMMA SeqGrows ==
  ASSUME NEW S, NEW T, S \subseteq T, NEW s \in Seq(S)
  PROVE  s \in Seq(T)
<1>1. Len(s) \in Nat /\ s \in [1..Len(s) -> S]
  OBVIOUS
<1>2. s \in [1..Len(s) -> T]
  BY <1>1
<1> QED
  BY <1>1, <1>2


\* A frame in the network names the server it goes to or comes from.
LEMMA NetNames ==
  ASSUME AskedInv, NEW d
  PROVE  Request(d) \in net \/ Reply(d) \in net => d \in asked
<1>1. ASSUME NEW e, Request(d) = Request(e) \/ Reply(d) = Reply(e)
      PROVE  d = e
  <2>1. Request(d).tip = d /\ Request(e).tip = e
    BY DEF Request
  <2>2. Reply(d).sip = d /\ Reply(e).sip = e
    BY DEF Reply
  <2> QED
    BY <1>1, <2>1, <2>2
<1>2. \A e : Request(d) # Reply(e) /\ Reply(d) # Request(e)
  <2>1. \A e : Request(e).op = "request" /\ Reply(e).op = "reply"
    BY DEF Request, Reply
  <2> QED
    BY <2>1
<1> QED
  BY <1>1, <1>2 DEF AskedInv, AskedRequests, AskedReplies

\* send_arp with a request, after which more is asked for, or with an answer.
LEMMA SendArpAsked ==
  ASSUME AskedInv, asked \subseteq asked',
         NEW m \in AskedRequests' \cup OwnReplies, SendArp(m)
  PROVE  txq' \in Seq(AskedRequests' \cup OwnReplies)
<1>1. AskedRequests \cup OwnReplies \subseteq AskedRequests' \cup OwnReplies
  BY DEF AskedRequests, OwnReplies
<1>2. txq \in Seq(AskedRequests' \cup OwnReplies)
  BY <1>1, SeqGrows DEF AskedInv
<1> QED
  BY <1>2 DEF SendArp

\* The steps of get_dst_mac.
LEMMA ResolveAsked ==
  ASSUME TypeOK, AskedInv, NEW w \in Workers, Resolve(w)
  PROVE  AskedInv'
<1> USE ConstantTypes
<1>1. CASE Send(w)
  <2>1. asked \subseteq asked' /\ Dsts[dst[w]] \in asked'
    BY <1>1 DEF Send
  <2>2. /\ AskedRequests \subseteq AskedRequests'
        /\ AskedReplies \subseteq AskedReplies'
    BY <2>1 DEF AskedRequests, AskedReplies
  <2>3. Request(Dsts[dst[w]]) \in AskedRequests'
    BY <2>1 DEF AskedRequests
  <2>4. txq' \in Seq(AskedRequests' \cup OwnReplies)
    <3>1. CASE UNCHANGED txq
      BY <2>2, <3>1, SeqGrows DEF AskedInv
    <3>2. CASE SendArp(Request(Dsts[dst[w]]))
      BY <2>1, <2>3, <3>2, SendArpAsked
    <3> QED
      BY <1>1, <3>1, <3>2 DEF Send
  <2>5. net' \subseteq AskedRequests' \cup AskedReplies'
    BY <1>1, <2>2 DEF Send, AskedInv
  <2>6. rxq' \in [Queues -> Seq(Noise \cup AskedReplies')]
    <3>1. \A q \in Queues : rxq[q] \in Seq(Noise \cup AskedReplies')
      BY <2>2, SeqGrows DEF AskedInv
    <3> QED
      BY <1>1, <3>1 DEF Send, AskedInv
  <2>7. OnlyAsked'
    BY <1>1, <2>1, SMTT(60) DEF Send, AskedInv, OnlyAsked
  <2> QED
    BY <2>4, <2>5, <2>6, <2>7 DEF AskedInv, OwnReplies
<1>2. ASSUME Poll(w)
      PROVE  /\ Taken(rx_q[w]) \in Seq(Noise \cup AskedReplies)
             /\ rxq' \in [Queues -> Seq(Noise \cup AskedReplies)]
             /\ UNCHANGED <<txq, net, asked>>
  <2>1. rx_q[w] \in 0..(CountQueue - 1)
    BY <1>2 DEF TypeOK, Poll, MoreQueues
  <2>2. rx_q[w] \in Queues
    BY <2>1, PolledQueueExists
  <2>3. /\ Taken(rx_q[w]) \in Seq(Noise \cup AskedReplies)
        /\ Rest(rx_q[w]) \in Seq(Noise \cup AskedReplies)
    BY <2>2, PollTypes DEF AskedInv
  <2> QED
    BY <1>2, <2>2, <2>3 DEF Poll, AskedInv
<1>3. CASE NotFound(w)
  BY <1>2, <1>3 DEF NotFound, AskedInv, OnlyAsked, AskedRequests, AskedReplies
<1>4. CASE Found(w)
  <2>1. Poll(w)
    BY <1>4 DEF Found
  <2>2. PICK i \in Answers(Taken(rx_q[w])) :
          server_eth' =
            [server_eth EXCEPT ![w][dst[w]] = Taken(rx_q[w])[i].sha]
    BY <1>4 DEF Found
  <2> DEFINE m == Taken(rx_q[w])[i]
  <2>3. m \in Noise \cup AskedReplies /\ IsReply(m)
    BY <1>2, <2>1, <2>2 DEF Answers
  <2>4. m \notin Noise
    BY <2>3, ArpAssumption DEF IsReply
  <2>5. PICK d \in asked : m = Reply(d)
    BY <2>3, <2>4 DEF AskedReplies
  <2>6. m.sha = Mac[d]
    BY <2>5 DEF Reply
  <2>7. OnlyAsked'
    BY <1>2, <2>1, <2>2, <2>6 DEF TypeOK, AskedInv, OnlyAsked
  <2> QED
    BY <1>2, <2>1, <2>7 DEF AskedInv, AskedRequests, AskedReplies
<1>5. CASE Retry(w)
  BY <1>5 DEF Retry, AskedInv, OnlyAsked, AskedRequests, AskedReplies
<1> QED
  BY <1>1, <1>3, <1>4, <1>5 DEF Resolve

\* The steps of the receiver threads.
LEMMA ReceiveAsked ==
  ASSUME TypeOK, AskedInv, NEW w \in Workers, Receive(w)
  PROVE  AskedInv'
<1>1. PICK q \in Queues :
        /\ rxq[q] # <<>>
        /\ rxq' = [rxq EXCEPT ![q] = Tail(@)]
        /\ IF Asks(Head(rxq[q])) /\ tx_free > 0
           THEN SendArp(OwnReply(Head(rxq[q])))
           ELSE UNCHANGED <<txq, tx_free>>
  BY DEF Receive
<1>2. UNCHANGED <<asked, net, server_eth>>
  BY DEF Receive
<1>3. rxq[q] \in Seq(Noise \cup AskedReplies)
  BY DEF AskedInv
<1>4. /\ Head(rxq[q]) \in Noise \cup AskedReplies
      /\ Tail(rxq[q]) \in Seq(Noise \cup AskedReplies)
  BY <1>1, <1>3
<1>5. rxq' \in [Queues -> Seq(Noise \cup AskedReplies)]
  BY <1>1, <1>4 DEF AskedInv
<1>6. txq' \in Seq(AskedRequests \cup OwnReplies)
  <2>1. CASE UNCHANGED txq
    BY <2>1 DEF AskedInv
  <2>2. ASSUME Asks(Head(rxq[q])), SendArp(OwnReply(Head(rxq[q])))
        PROVE  txq' \in Seq(AskedRequests \cup OwnReplies)
    <3>1. Head(rxq[q]) \notin AskedReplies
      BY <2>2 DEF Asks, AskedReplies, Reply
    <3>2. OwnReply(Head(rxq[q])) \in AskedRequests' \cup OwnReplies
      BY <1>4, <3>1 DEF OwnReplies
    <3>3. AskedRequests' = AskedRequests
      BY <1>2 DEF AskedRequests
    <3> QED
      BY <1>2, <2>2, <3>2, <3>3, SendArpAsked
  <2> QED
    BY <1>1, <2>1, <2>2
<1> QED
  BY <1>2, <1>5, <1>6
     DEF AskedInv, OnlyAsked, AskedRequests, AskedReplies, OwnReplies

\* The steps of the NIC, the network and the servers.
LEMMA EnvironmentAsked ==
  ASSUME TypeOK, AskedInv,
         \/ Transmit
         \/ \E d \in Servers : Answer(d) \/ Deliver(d)
         \/ \E m \in net : Lose(m)
         \/ OtherTraffic
  PROVE  AskedInv'
<1>1. ASSUME UNCHANGED <<asked, server_eth>>,
             txq' \in Seq(AskedRequests \cup OwnReplies),
             net' \subseteq AskedRequests \cup AskedReplies,
             rxq' \in [Queues -> Seq(Noise \cup AskedReplies)]
      PROVE  AskedInv'
  BY <1>1 DEF AskedInv, OnlyAsked, AskedRequests, AskedReplies, OwnReplies
<1>2. CASE Transmit
  <2>1. /\ Head(txq) \in AskedRequests \cup OwnReplies
        /\ Tail(txq) \in Seq(AskedRequests \cup OwnReplies)
    BY <1>2 DEF Transmit, AskedInv
  <2>2. \A m \in OwnReplies : m \notin Requests
    <3>1. \A m \in OwnReplies : m.op = "reply"
      BY DEF OwnReplies, OwnReply
    <3>2. \A m \in Requests : m.op = "request"
      BY DEF Requests, Request
    <3> QED
      BY <3>1, <3>2
  <2>3. net' \subseteq AskedRequests \cup AskedReplies
    BY <1>2, <2>1, <2>2 DEF Transmit, AskedInv
  <2> QED
    BY <1>1, <1>2, <2>1, <2>3 DEF Transmit, AskedInv
<1>3. ASSUME NEW d \in Servers, Answer(d)
      PROVE  AskedInv'
  <2>1. d \in asked
    BY <1>3, NetNames DEF Answer
  <2>2. Reply(d) \in AskedReplies
    BY <2>1 DEF AskedReplies
  <2> QED
    BY <1>1, <1>3, <2>2 DEF Answer, AskedInv
<1>4. ASSUME NEW m \in Noise \cup AskedReplies, NEW q \in RxQueues, Arrive(m, q)
      PROVE  rxq' \in [Queues -> Seq(Noise \cup AskedReplies)]
  <2>1. q \in Queues
    BY ConstantTypes
  <2>2. Append(rxq[q], m) \in Seq(Noise \cup AskedReplies)
    BY <2>1 DEF AskedInv
  <2> QED
    BY <1>4, <2>2 DEF Arrive, AskedInv
<1>5. ASSUME NEW d \in Servers, Deliver(d)
      PROVE  AskedInv'
  <2>1. d \in asked
    BY <1>5, NetNames DEF Deliver
  <2>2. Reply(d) \in AskedReplies
    BY <2>1 DEF AskedReplies
  <2>3. PICK q \in RxQueues : Arrive(Reply(d), q)
    BY <1>5 DEF Deliver
  <2>4. rxq' \in [Queues -> Seq(Noise \cup AskedReplies)]
    BY <1>4, <2>2, <2>3
  <2> QED
    BY <1>1, <1>5, <2>3, <2>4 DEF Deliver, Arrive, AskedInv
<1>6. CASE \E m \in net : Lose(m)
  BY <1>1, <1>6 DEF Lose, AskedInv
<1>7. CASE OtherTraffic
  <2>1. PICK m \in Noise, q \in RxQueues : Arrive(m, q)
    BY <1>7 DEF OtherTraffic
  <2>2. rxq' \in [Queues -> Seq(Noise \cup AskedReplies)]
    BY <1>4, <2>1
  <2> QED
    BY <1>1, <1>7, <2>1, <2>2 DEF OtherTraffic, Arrive, AskedInv
<1> QED
  BY <1>2, <1>3, <1>5, <1>6, <1>7

\* An address that get_dst_mac stores is that of a destination which a worker of
\* the process has asked for by then, for any number of workers, queues and
\* destinations and however answers are lost, delayed and repeated.  That it
\* may be another destination than the one of the call is all that can go
\* wrong.
THEOREM OnlyAskedHolds == Spec => []OnlyAsked
<1>1. Init => AskedInv
  BY ConstantTypes DEF Init, AskedInv, OnlyAsked
<1>2. TypeOK /\ AskedInv /\ [Next]_vars => AskedInv'
  <2> SUFFICES ASSUME TypeOK, AskedInv, [Next]_vars
               PROVE  AskedInv'
    OBVIOUS
  <2>1. CASE UNCHANGED vars
    BY <2>1 DEF vars, AskedInv, OnlyAsked, AskedRequests, AskedReplies, OwnReplies
  <2> QED
    BY <2>1, ResolveAsked, ReceiveAsked, EnvironmentAsked DEF Next
<1>3. AskedInv => OnlyAsked
  BY DEF AskedInv
<1> QED
  BY <1>1, <1>2, <1>3, TypeCorrect, PTL DEF Spec
==============================================================================
