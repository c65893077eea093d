-------------------------- MODULE ServerRefinement --------------------------
(***************************************************************************)
(* The server of module Server answers as EchoService says, loses no mbuf, *)
(* finishes what it polled, and stops.                                     *)
(***************************************************************************)
EXTENDS Server, Filters, Functions

Echoed == {p \in Frame : ~IsArp(p)}

\* The packets the server is to answer: none in unidirectional mode.
Requested == {p \in Frame : bidi /\ Valid(p)}

\* The packets worker w has to answer: the echoes it has not sent yet, turned
\* back into the requests they answer, and the rest of the burst.
TurnedBack(buf) == [i \in 1..Len(buf) |-> Echo(buf[i])]
Unanswered(w) == TurnedBack(tx_buf[w]) \o Filter(rx_bufs[w], Requested)

\* The packets of q inside a worker.
InWorker(q) ==
  LET holders == {w \in Workers : qid[w] = q}
  IN IF holders = {} THEN <<>> ELSE Unanswered(CHOOSE w \in holders : TRUE)

ES == INSTANCE EchoService WITH
        Requests <- {[t EXCEPT !.id = i] : t \in {u \in Traffic : Valid(u)},
                                           i \in 1..MaxPkts},
        waiting  <- [q \in Queues |-> InWorker(q) \o Filter(rxq[q], Requested)],
        replied  <- [q \in Queues |-> Filter(wire[q] \o txq[q], Echoed)]

\* do_server implements the echo service: per queue, every answer is the oldest
\* unanswered request with its addresses exchanged, whatever part of a burst
\* the NIC accepts and however ARP frames are mixed in; in unidirectional mode
\* nothing is answered.
Echoes == ES!Spec

-----------------------------------------------------------------------------
\* The mbufs of the rx pool in the rings of q and in the hands of w, and those
\* of the tx pool in the rings of q.
RxInRings(q) == Len(rxq[q]) + NumberOf(txq[q], Echoed)
RxInHands(w) == Len(rx_bufs[w]) + Len(tx_buf[w])
TxInRings(q) == Len(txq[q]) - NumberOf(txq[q], Echoed)

\* Every mbuf of the two pools is free, in a ring or in a worker's hands: a
\* received packet is freed exactly once, by do_server when it discards it or
\* by the NIC when its echo has left; an ARP answer returns to the tx pool.
Conservation ==
  /\ NUM_MBUFS = rx_free + SumFunction([q \in Queues |-> RxInRings(q)])
                         + SumFunction([w \in Workers |-> RxInHands(w)])
  /\ NUM_MBUFS = tx_free + SumFunction([q \in Queues |-> TxInRings(q)])

-----------------------------------------------------------------------------
Holds(s, i) == \E k \in DOMAIN s : s[k].id = i

\* A valid packet that do_server has taken from the ring is put on the wire,
\* also when main asks the worker to stop meanwhile: nb_tx may be smaller than
\* k, even 0, any number of times.
PolledIsAnswered ==
  \A w \in Workers, i \in 1..MaxPkts :
    Holds(Filter(rx_bufs[w], Requested), i)
      ~> \E q \in Queues : Holds(Filter(wire[q], Echoed), i)

\* When the traffic ends the server ends too: the worker on the main core
\* leaves its loop, it stops the others and main returns.
ServerStops == <>(main = "exit")
=============================================================================
