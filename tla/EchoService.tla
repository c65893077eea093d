---------------------------- MODULE EchoService ----------------------------
(***************************************************************************)
(* What the echo server promises a client, per hardware queue: requests    *)
(* are answered in the order in which they arrived, each at most once, and *)
(* an answer is the request with source and destination exchanged at every *)
(* layer (Ethernet, IP, port).  Nothing is said about when an answer       *)
(* leaves, nor how many leave together.                                    *)
(***************************************************************************)
EXTENDS Naturals, Sequences

CONSTANT Queues      \* the hardware queues
CONSTANT Requests    \* the packets a client may send

VARIABLES
  waiting,           \* waiting[q]: requests not answered yet, oldest first
  replied            \* replied[q]: the answers given so far

svars == <<waiting, replied>>

Answer(p) == [p EXCEPT !.eth  = <<p.eth[2],  p.eth[1]>>,
                       !.ip   = <<p.ip[2],   p.ip[1]>>,
                       !.port = <<p.port[2], p.port[1]>>]

Init ==
  /\ waiting = [q \in Queues |-> <<>>]
  /\ replied = [q \in Queues |-> <<>>]

Request(q, p) ==
  /\ waiting' = [waiting EXCEPT ![q] = Append(@, p)]
  /\ UNCHANGED replied

\* The n oldest requests of q are answered together.
Reply(q, n) ==
  /\ waiting' = [waiting EXCEPT ![q] = SubSeq(@, n + 1, Len(@))]
  /\ replied' = [replied EXCEPT
                   ![q] = @ \o [i \in 1..n |-> Answer(waiting[q][i])]]

Next == \E q \in Queues :
          \/ \E p \in Requests : Request(q, p)
          \/ \E n \in 1..Len(waiting[q]) : Reply(q, n)

Spec == Init /\ [][Next]_svars
=============================================================================
