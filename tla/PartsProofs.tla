----------------------------- MODULE PartsProofs -----------------------------
(***************************************************************************)
(* Proofs about the three parts of the load generator that share no state: *)
(* the choice of source addresses (module Zipf), for any number of         *)
(* threads, ranks and ports, every table size, random number generator and *)
(* distribution; the latency histogram (Percentile), for every set of      *)
(* latencies; and the packets (Packet), for every option and payload.      *)
(***************************************************************************)
EXTENDS Zipf, Percentile, Packet, CommonLemmas, TLAPS

\* The assumption on the constants, one by one.
LEMMA ConstantTypes ==
  /\ N \in Nat /\ N > 0
  /\ RAND_MAX \in Nat /\ RAND_MAX > 0
  /\ Sz \in Nat /\ Sz > 0
  /\ A \in Nat /\ C \in Nat /\ M \in Nat /\ M > 0
  /\ CountPort \in Nat /\ CountPort > 0
  /\ U16 \in Nat /\ U32 \in Nat /\ U16 > 0 /\ U32 > 0
  BY ZipfAssumption

-----------------------------------------------------------------------------
(* The cumulated probabilities.                                             *)

\* They are naturals; the first is 0, and no random number exceeds the last.
LEMMA Probs ==
  /\ \A i \in 0..N : c_probs[i] \in Nat
  /\ c_probs[0] = 0
  /\ \A x \in 0..(RAND_MAX - 1) : x <= c_probs[N]
<1> USE ConstantTypes
<1>1. ASSUME NEW i \in 0..N PROVE c_probs[i] \in Nat
  <2>1. CASE i = N
    BY <2>1, ZipfAssumption DEF c_probs
  <2>2. CASE i # N
    <3>1. Harmonic[i] \in Nat /\ Harmonic[N] \in Nat /\ Harmonic[N] > 0
      BY ZipfAssumption
    <3>2. Harmonic[i] * RAND_MAX \in Nat
      BY <3>1
    <3>3. (Harmonic[i] * RAND_MAX) \div Harmonic[N] \in Nat
      BY <3>1, <3>2, DivMod
    <3> QED
      BY <2>2, <3>3 DEF c_probs
  <2> QED
    BY <2>1, <2>2
<1>2. c_probs[0] = 0
  <2>1. Harmonic[0] = 0 /\ Harmonic[N] \in Nat /\ Harmonic[N] > 0
    BY ZipfAssumption
  <2>2. (0 * RAND_MAX) \div Harmonic[N] = 0
    <3>1. 0 * RAND_MAX = 0
      OBVIOUS
    <3>2. 0 \div Harmonic[N] \in Nat /\ 0 \div Harmonic[N] <= 0
      BY <2>1, DivMod
    <3> QED
      BY <3>1, <3>2
  <2> QED
    BY <2>1, <2>2 DEF c_probs
<1>3. c_probs[N] = LastProb
  BY DEF c_probs
<1> QED
  BY <1>1, <1>2, <1>3, ZipfAssumption

-----------------------------------------------------------------------------
(* Type correctness.                                                        *)

\* The middle of a range that is not empty lies in it.
LEMMA MidType ==
  ASSUME ZipfTypeOK, NEW t \in Threads, low[t] <= high[t]
  PROVE  Mid(t) \in 1..N /\ low[t] <= Mid(t) /\ Mid(t) <= high[t]
  BY ConstantTypes DEF ZipfTypeOK, Mid

\* An address made of an address is an address.
LEMMA OffsetType ==
  ASSUME NEW a \in [ip : Nat, port : Nat], NEW r \in -1..N
  PROVE  Offset(a, r) \in [ip : Nat, port : Nat]
<1> USE ConstantTypes
<1>1. SrcIdx(r) \in Nat
  BY DEF SrcIdx
<1>2. SrcIdx(r) \div CountPort \in Nat /\ SrcIdx(r) % CountPort \in Nat
  BY <1>1, DivMod
<1>3. a.ip + (SrcIdx(r) \div CountPort) \in Nat /\ a.port + (SrcIdx(r) % CountPort) \in Nat
  BY <1>2
<1> QED
  BY <1>3, DivMod DEF Offset

\* new_zipfgen and the static variables of zipf.c have the right types.
LEMMA InitTypes == ZipfInit => ZipfTypeOK
  BY ConstantTypes DEF ZipfInit, ZipfTypeOK, Slots, Base

\* A step of myrand keeps the types.
LEMMA RandTypes ==
  ASSUME ZipfTypeOK, NEW t \in Threads,
         \/ CheckInit(t) \/ ClearInit(t) \/ LoadSeed(t) \/ Fill(t)
         \/ StoreSeed(t) \/ LoadPtr(t) \/ ReadTable(t) \/ StorePtr(t)
  PROVE  ZipfTypeOK'
<1> USE ConstantTypes DEF sharedVars, searchVars, addrVars, At, Goto
<1>1. CASE CheckInit(t)
  BY <1>1 DEF ZipfTypeOK, CheckInit
<1>2. CASE ClearInit(t)
  BY <1>2 DEF ZipfTypeOK, ClearInit
<1>3. CASE LoadSeed(t)
  BY <1>3 DEF ZipfTypeOK, LoadSeed
<1>4. CASE Fill(t)
  <2>1. my_seed[t] \in Nat /\ filled[t] \in 0..Sz /\ filled[t] # Sz
    BY <1>4 DEF ZipfTypeOK, Fill, TableFull
  <2>2. NextSeed(my_seed[t]) \in Nat
    <3>1. A * my_seed[t] \in Nat
      BY <2>1
    <3>2. A * my_seed[t] + C \in Nat
      BY <3>1
    <3> QED
      BY <3>2, DivMod DEF NextSeed
  <2>3. my_seed' \in [Threads -> Nat] /\ my_seed'[t] = NextSeed(my_seed[t])
    BY <1>4, <2>2 DEF Fill, ZipfTypeOK
  <2>4. my_seed'[t] % RAND_MAX \in 0..(RAND_MAX - 1)
    BY <2>2, <2>3, DivMod
  <2>5. srendipity' \in [Slots -> 0..(RAND_MAX - 1)]
    BY <1>4, <2>4 DEF Fill, ZipfTypeOK
  <2>6. filled' \in [Threads -> 0..Sz]
    <3>1. filled[t] + 1 \in 0..Sz
      BY <2>1
    <3>2. filled' = [filled EXCEPT ![t] = filled[t] + 1] /\ filled \in [Threads -> 0..Sz]
      BY <1>4 DEF Fill, ZipfTypeOK
    <3> QED
      BY <3>1, <3>2
  <2> QED
    BY <1>4, <2>3, <2>5, <2>6 DEF Fill, ZipfTypeOK
<1>5. CASE StoreSeed(t)
  BY <1>5 DEF ZipfTypeOK, StoreSeed
<1>6. CASE LoadPtr(t)
  BY <1>6 DEF ZipfTypeOK, LoadPtr
<1>7. CASE ReadTable(t)
  BY <1>7 DEF ZipfTypeOK, ReadTable
<1>8. CASE StorePtr(t)
  <2>1. my_ptr[t] + 1 \in Nat
    <3>1. my_ptr[t] \in Slots
      BY DEF ZipfTypeOK
    <3> QED
      BY <3>1 DEF Slots
  <2>2. NextPtr(my_ptr[t]) \in Slots
    BY <2>1, DivMod DEF NextPtr, Slots
  <2> QED
    BY <1>8, <2>2 DEF ZipfTypeOK, StorePtr
<1> QED
  BY <1>1, <1>2, <1>3, <1>4, <1>5, <1>6, <1>7, <1>8

\* So does a step of the search, and the construction of the address.
LEMMA SearchTypes ==
  ASSUME ZipfTypeOK, NEW t \in Threads,
         \/ SearchMore(t) \/ SearchLess(t) \/ SearchHit(t) \/ SearchFail(t)
         \/ Address(t) \/ NextPacket(t)
  PROVE  ZipfTypeOK'
<1> USE ConstantTypes DEF sharedVars, searchVars, addrVars, At, Goto
<1>1. CASE SearchMore(t)
  <2>1. Mid(t) + 1 \in 1..(N + 1)
    BY <1>1, MidType DEF SearchMore, Searching
  <2> QED
    BY <1>1, <2>1 DEF ZipfTypeOK, SearchMore, RaiseLow
<1>2. CASE SearchLess(t)
  <2>1. Mid(t) - 1 \in 0..N
    BY <1>2, MidType DEF SearchLess, Searching
  <2> QED
    BY <1>2, <2>1 DEF ZipfTypeOK, SearchLess
<1>3. CASE SearchHit(t)
  <2>1. Mid(t) \in -1..N
    BY <1>3, MidType DEF SearchHit, Searching
  <2> QED
    BY <1>3, <2>1 DEF ZipfTypeOK, SearchHit, Return
<1>4. CASE SearchFail(t)
  BY <1>4 DEF ZipfTypeOK, SearchFail, Return
<1>5. CASE Address(t)
  <2>1. Offset(info[t], rank[t]) \in [ip : Nat, port : Nat]
    BY OffsetType DEF ZipfTypeOK
  <2>2. hdr' \in [Threads -> [ip : Nat, port : Nat]]
    BY <1>5, <2>1 DEF ZipfTypeOK, Address
  <2>3. info' \in [Threads -> [ip : Nat, port : Nat]]
    BY <1>5 DEF ZipfTypeOK, Address, RestoreInfo, Base
  <2> QED
    BY <1>5, <2>2, <2>3 DEF ZipfTypeOK, Address
<1>6. CASE NextPacket(t)
  BY <1>6 DEF ZipfTypeOK, NextPacket
<1> QED
  BY <1>1, <1>2, <1>3, <1>4, <1>5, <1>6

\* Every step keeps the types.
LEMMA NextTypes == ZipfTypeOK /\ [ZipfNext]_zipfVars => ZipfTypeOK'
<1> SUFFICES ASSUME ZipfTypeOK, [ZipfNext]_zipfVars PROVE ZipfTypeOK'
  OBVIOUS
<1>1. CASE ZipfNext
  BY <1>1, RandTypes, SearchTypes DEF ZipfNext, Thread
<1>2. CASE UNCHANGED zipfVars
  BY <1>2 DEF ZipfTypeOK, zipfVars, sharedVars, searchVars, addrVars
<1> QED
  BY <1>1, <1>2

\* Whatever the threads' timing, the table and the probabilities are only
\* accessed inside their bounds (zipf.c), also where ptr is updated by several.
THEOREM TypeCorrect == ZipfSpec => []ZipfTypeOK
  BY InitTypes, NextTypes, PTL DEF ZipfSpec

-----------------------------------------------------------------------------
(* The binary search.                                                       *)

\* The random number lies between the probabilities at the two ends of the
\* range that is still searched; for the number 0 the lower end never moves.
Enclosed(t) ==
  IF rnd[t] = 0 THEN low[t] = 1
  ELSE c_probs[low[t] - 1] < rnd[t] /\ rnd[t] <= c_probs[high[t]]

\* What holds of a thread from the start of a sample to the next packet.
ThreadInv(t) ==
  /\ zpc[t] \in {"clear", "seed", "fill", "load", "read", "store"}
       => low[t] = 1 /\ high[t] = N
  /\ At(t, "search") => low[t] <= high[t] + 1 /\ Enclosed(t)
  /\ zpc[t] \in {"drawn", "built"} =>
       IF rnd[t] = 0 THEN rank[t] = -1 ELSE IsRankOf(rank[t], rnd[t])

SearchInv == \A t \in Threads : ThreadInv(t)

\* A step of one thread does not touch the search of another one.
LEMMA OthersKept ==
  ASSUME ZipfTypeOK, NEW t \in Threads, NEW v \in Threads, v # t, Thread(t)
  PROVE  /\ zpc'[v] = zpc[v] /\ rnd'[v] = rnd[v] /\ low'[v] = low[v]
         /\ high'[v] = high[v] /\ rank'[v] = rank[v] /\ info'[v] = info[v]
         /\ hdr'[v] = hdr[v]
<1> USE DEF ZipfTypeOK, sharedVars, searchVars, addrVars, Goto
<1>1. CASE CheckInit(t) \/ ClearInit(t) \/ LoadSeed(t) \/ Fill(t) \/ StoreSeed(t)
  BY <1>1 DEF CheckInit, ClearInit, LoadSeed, Fill, StoreSeed
<1>2. CASE LoadPtr(t) \/ ReadTable(t) \/ StorePtr(t) \/ NextPacket(t)
  BY <1>2 DEF LoadPtr, ReadTable, StorePtr, NextPacket
<1>3. CASE SearchMore(t) \/ SearchLess(t) \/ SearchHit(t) \/ SearchFail(t)
  BY <1>3 DEF SearchMore, RaiseLow, SearchLess, SearchHit, SearchFail, Return
<1>4. CASE Address(t)
  BY <1>4 DEF Address, RestoreInfo
<1> QED
  BY <1>1, <1>2, <1>3, <1>4 DEF Thread

\* Up to the search the range is the whole one.
LEMMA RandSearch ==
  ASSUME ZipfTypeOK, NEW t \in Threads, ThreadInv(t),
         \/ CheckInit(t) \/ ClearInit(t) \/ LoadSeed(t) \/ Fill(t)
         \/ StoreSeed(t) \/ LoadPtr(t) \/ ReadTable(t)
  PROVE  ThreadInv(t)'
<1> USE DEF ThreadInv, ZipfTypeOK, sharedVars, searchVars, addrVars, At, Goto
<1>1. CASE CheckInit(t) \/ ClearInit(t) \/ LoadSeed(t)
  BY <1>1 DEF CheckInit, ClearInit, LoadSeed
<1>2. CASE Fill(t) \/ StoreSeed(t) \/ LoadPtr(t) \/ ReadTable(t)
  BY <1>2 DEF Fill, StoreSeed, LoadPtr, ReadTable
<1> QED
  BY <1>1, <1>2

\* The whole range encloses every number.
LEMMA StartSearch ==
  ASSUME ZipfTypeOK, NEW t \in Threads, ThreadInv(t), StorePtr(t)
  PROVE  ThreadInv(t)'
<1> USE ConstantTypes
<1>1. /\ zpc'[t] = "search" /\ low[t] = 1 /\ high[t] = N
      /\ low' = low /\ high' = high /\ rnd' = rnd
  BY DEF ThreadInv, StorePtr, searchVars, At, Goto, ZipfTypeOK
<1>2. rnd[t] \in 0..(RAND_MAX - 1)
  BY DEF ZipfTypeOK
<1>3. Enclosed(t)'
  BY <1>1, <1>2, Probs DEF Enclosed
<1> QED
  BY <1>1, <1>3 DEF ThreadInv, At

\* A round halves the range and keeps the number enclosed.
LEMMA RoundSearch ==
  ASSUME ZipfTypeOK, NEW t \in Threads, ThreadInv(t),
         SearchMore(t) \/ SearchLess(t)
  PROVE  ThreadInv(t)'
<1> USE ConstantTypes
<1>1. /\ zpc'[t] = "search" /\ rnd'[t] = rnd[t] /\ rnd[t] \in Nat
      /\ low[t] <= high[t] /\ Enclosed(t)
      /\ low[t] \in 1..(N + 1) /\ high[t] \in 0..N
  BY DEF ThreadInv, SearchMore, SearchLess, Searching, At, ZipfTypeOK
<1>2. Mid(t) \in 1..N /\ low[t] <= Mid(t) /\ Mid(t) <= high[t]
  BY <1>1, MidType
<1>3. c_probs[Mid(t)] \in Nat /\ c_probs[Mid(t) - 1] \in Nat
  BY <1>2, Probs
<1>4. CASE SearchMore(t)
  <2>1. low'[t] = Mid(t) + 1 /\ high'[t] = high[t] /\ c_probs[Mid(t)] < rnd[t]
    BY <1>4 DEF SearchMore, RaiseLow, IsMore, ZipfTypeOK
  <2>2. low'[t] - 1 = Mid(t) /\ low'[t] <= high'[t] + 1
    BY <1>1, <1>2, <2>1
  <2>3. Enclosed(t)'
    BY <1>1, <1>3, <2>1, <2>2 DEF Enclosed
  <2> QED
    BY <1>1, <2>2, <2>3 DEF ThreadInv, At
<1>5. CASE SearchLess(t)
  <2>1. high'[t] = Mid(t) - 1 /\ low'[t] = low[t] /\ rnd[t] <= c_probs[Mid(t) - 1]
    BY <1>5 DEF SearchLess, IsLess, ZipfTypeOK
  <2>2. low'[t] <= high'[t] + 1
    BY <1>1, <1>2, <2>1
  <2>3. Enclosed(t)'
    BY <1>1, <1>3, <2>1 DEF Enclosed
  <2> QED
    BY <1>1, <2>2, <2>3 DEF ThreadInv, At
<1> QED
  BY <1>4, <1>5

\* The search ends at the number's rank, or with an empty range, which encloses
\* no number but 0.
LEMMA EndSearch ==
  ASSUME ZipfTypeOK, NEW t \in Threads, ThreadInv(t),
         SearchHit(t) \/ SearchFail(t)
  PROVE  ThreadInv(t)'
<1> USE ConstantTypes
<1>1. /\ zpc'[t] = "drawn" /\ rnd'[t] = rnd[t] /\ rnd[t] \in Nat
      /\ low[t] <= high[t] + 1 /\ Enclosed(t)
      /\ low[t] \in 1..(N + 1) /\ high[t] \in 0..N
  BY DEF ThreadInv, SearchHit, SearchFail, Searching, Return, Goto, At, ZipfTypeOK
<1>2. CASE SearchHit(t)
  <2>1. Mid(t) \in 1..N
    BY <1>2, MidType DEF SearchHit, Searching
  <2>2. c_probs[Mid(t)] \in Nat /\ c_probs[Mid(t) - 1] \in Nat
    BY <2>1, Probs
  <2>3. /\ rank'[t] = Mid(t)
        /\ ~(c_probs[Mid(t)] < rnd[t]) /\ ~(rnd[t] <= c_probs[Mid(t) - 1])
    BY <1>2 DEF SearchHit, Return, IsMore, IsLess, ZipfTypeOK
  <2>4. rnd[t] # 0 /\ IsRankOf(Mid(t), rnd[t])
    BY <1>1, <2>1, <2>2, <2>3 DEF IsRankOf
  <2> QED
    BY <1>1, <2>3, <2>4 DEF ThreadInv, At
<1>3. CASE SearchFail(t)
  <2>1. low[t] = high[t] + 1 /\ rank'[t] = -1
    BY <1>1, <1>3 DEF SearchFail, Return, ZipfTypeOK
  <2>2. low[t] - 1 = high[t] /\ c_probs[high[t]] \in Nat
    BY <1>1, <2>1, Probs
  <2>3. rnd[t] = 0
    BY <1>1, <2>2 DEF Enclosed
  <2> QED
    BY <1>1, <2>1, <2>3 DEF ThreadInv, At
<1> QED
  BY <1>2, <1>3

\* A sample that has been drawn is not touched until the next packet.
LEMMA KeepSample ==
  ASSUME ZipfTypeOK, NEW t \in Threads, ThreadInv(t), Address(t) \/ NextPacket(t)
  PROVE  ThreadInv(t)'
  BY DEF ThreadInv, Address, NextPacket, searchVars, At, Goto, ZipfTypeOK

\* Every step of every thread keeps all this.
LEMMA SearchStep == ZipfTypeOK /\ SearchInv /\ [ZipfNext]_zipfVars => SearchInv'
<1> SUFFICES ASSUME ZipfTypeOK, SearchInv, [ZipfNext]_zipfVars, NEW v \in Threads
             PROVE  ThreadInv(v)'
  BY DEF SearchInv
<1>1. ASSUME NEW t \in Threads, Thread(t) PROVE ThreadInv(v)'
  <2>1. CASE v = t
    BY <1>1, <2>1, RandSearch, StartSearch, RoundSearch, EndSearch, KeepSample
    DEF Thread, SearchInv
  <2>2. CASE v # t
    BY <1>1, <2>2, OthersKept DEF SearchInv, ThreadInv, Enclosed, At
  <2> QED
    BY <2>1, <2>2
<1>2. CASE UNCHANGED zipfVars
  BY <1>2 DEF zipfVars, searchVars, SearchInv, ThreadInv, Enclosed, At
<1> QED
  BY <1>1, <1>2 DEF ZipfNext

\* No thread has begun a sample in the initial state.
LEMMA SearchInit == ZipfInit => SearchInv
  BY DEF ZipfInit, SearchInv, ThreadInv, At

\* For every distribution, table and timing, the search returns the rank whose
\* interval holds the random number, and -1 for the number 0 and no other.
THEOREM RightRankHolds == ZipfSpec => []RightRank
<1>1. SearchInv => RightRank
  BY DEF SearchInv, ThreadInv, RightRank, At
<1> QED
  BY <1>1, SearchInit, SearchStep, InitTypes, NextTypes, PTL DEF ZipfSpec

-----------------------------------------------------------------------------
(* The address made of a sample.                                            *)

AddressRight(t) ==
  /\ hdr[t].ip * CountPort <= rank[t] - 1
  /\ rank[t] - 1 < (hdr[t].ip + 1) * CountPort
  /\ CountPort <= U16 => hdr[t].ip * CountPort + hdr[t].port = rank[t] - 1

AddressInv ==
  \A t \in Threads :
    /\ info[t] = Base
    /\ At(t, "built") /\ rnd[t] > 0 => AddressRight(t)

\* From the base address, rank r gives the r-th address, its port modulo 2^16.
LEMMA OffsetOfRank ==
  ASSUME NEW r \in 1..N
  PROVE  LET a == Offset(Base, r)
         IN  /\ a.ip * CountPort <= r - 1
             /\ r - 1 < (a.ip + 1) * CountPort
             /\ CountPort <= U16 => a.ip * CountPort + a.port = r - 1
<1> USE ConstantTypes
<1> DEFINE x == r - 1
<1>1. x \in Nat /\ x < U32
  BY ZipfAssumption
<1>2. SrcIdx(r) = x
  BY <1>1, SmallMod DEF SrcIdx
<1> HIDE DEF x
<1> DEFINE d == x \div CountPort
           m == x % CountPort
<1>3. /\ d \in Nat /\ m \in Nat /\ m < CountPort /\ d <= x
      /\ x = d * CountPort + m
  BY <1>1, DivMod
<1>4. Offset(Base, r) = [ip |-> (0 + d) % U32, port |-> (0 + m) % U16]
  BY <1>2 DEF Offset, Base
<1> HIDE DEF d, m
<1>5. (0 + d) % U32 = d
  BY <1>1, <1>3, SmallMod
<1>6. CountPort <= U16 => (0 + m) % U16 = m
  BY <1>3, SmallMod
<1>7. (d + 1) * CountPort = d * CountPort + CountPort /\ d * CountPort \in Nat
  BY <1>3
<1>8. d * CountPort <= x /\ x < (d + 1) * CountPort
  BY <1>3, <1>7
<1>9. Offset(Base, r).ip = d /\ (CountPort <= U16 => Offset(Base, r).port = m)
  BY <1>4, <1>5, <1>6
<1> QED
  BY <1>3, <1>8, <1>9 DEF x

\* Every packet starts from the base address.
LEMMA AddressStep ==
  ZipfTypeOK /\ SearchInv /\ AddressInv /\ [ZipfNext]_zipfVars => AddressInv'
<1> SUFFICES ASSUME ZipfTypeOK, SearchInv, AddressInv, [ZipfNext]_zipfVars,
                    NEW v \in Threads
             PROVE  /\ info'[v] = Base
                    /\ At(v, "built")' /\ rnd'[v] > 0 => AddressRight(v)'
  BY DEF AddressInv
<1> USE DEF At
<1>1. ASSUME NEW t \in Threads, Thread(t), v # t
      PROVE  /\ info'[v] = Base
             /\ At(v, "built")' /\ rnd'[v] > 0 => AddressRight(v)'
  BY <1>1, OthersKept DEF AddressInv, AddressRight
<1>2. CASE Address(v)
  <2>1. /\ info'[v] = Base /\ rnd'[v] = rnd[v] /\ rank'[v] = rank[v]
        /\ hdr'[v] = Offset(Base, rank[v])
    BY <1>2 DEF Address, RestoreInfo, searchVars, AddressInv, ZipfTypeOK
  <2>2. rnd[v] > 0 => rank[v] \in 1..N
    BY <1>2 DEF Address, SearchInv, ThreadInv, IsRankOf, ZipfTypeOK
  <2> QED
    BY <2>1, <2>2, OffsetOfRank DEF AddressRight
<1>3. ASSUME Thread(v), ~Address(v)
      PROVE  info'[v] = Base /\ ~At(v, "built")'
  BY <1>3 DEF AddressInv, Thread, CheckInit, ClearInit, LoadSeed, Fill,
              StoreSeed, LoadPtr, ReadTable, StorePtr, SearchMore, SearchLess,
              SearchHit, SearchFail, Searching, Return, NextPacket, Goto,
              addrVars, ZipfTypeOK
<1>4. CASE UNCHANGED zipfVars
  BY <1>4 DEF zipfVars, searchVars, addrVars, AddressInv, AddressRight
<1> QED
  BY <1>1, <1>2, <1>3, <1>4 DEF ZipfNext

\* Every packet made of a good sample carries the IP address of its rank, and its
\* port if the ports fit into 16 bits: nothing of the packets before it is left
\* in pkt_info (_prepare_eth_vlan_ip, do_client).
THEOREM AddressHolds == ZipfSpec => []AddressOfRank
<1>1. ZipfInit => AddressInv
  BY DEF ZipfInit, AddressInv, At
<1>2. AddressInv => AddressOfRank
  BY DEF AddressInv, AddressOfRank, AddressRight
<1> QED
  BY <1>1, <1>2, AddressStep, SearchInit, SearchStep, InitTypes, NextTypes, PTL
  DEF ZipfSpec

-----------------------------------------------------------------------------
(* The table of random numbers.                                             *)

\* x is the k-th seed that __myrand computes from the first one.
Drawn(k, x) ==
  \E s \in [0..k -> Nat] :
    /\ s[0] = 1 /\ s[k] = x
    /\ \A i \in 1..k : s[i] = NextSeed(s[i - 1])

\* None of the numbers that make up as many tables as there are threads is 0.
\* It is a fact about the generator's constants alone.
NoZeroDrawn ==
  \A k \in 1..(Cardinality(Threads) * Sz), x \in Nat :
    Drawn(k, x) => x % RAND_MAX # 0

\* The threads that have filled the table.
Finished == {t \in Threads : filled[t] = Sz /\ zpc[t] # "fill"}

\* How many seeds can have been computed before the shared one.
Stored == Cardinality(Finished) * Sz

\* Who fills the table, and when.
WhoFills ==
  /\ \A t \in Threads : zpc[t] \in {"clear", "seed"} => filled[t] = 0
  /\ need_init => \A t \in Threads : filled[t] = 0 /\ zpc[t] \notin {"seed", "fill"}
  /\ ~need_init => \E t \in Threads : zpc[t] \in {"seed", "fill"} \/ t \in Finished

\* Where the shared seed and the threads' copies are in the generator's sequence.
SeedsDrawn ==
  /\ \E k \in 0..Stored : Drawn(k, seed)
  /\ \A t \in Threads : zpc[t] = "fill" =>
       \E k \in 0..(Stored + filled[t]) : Drawn(k, my_seed[t])

\* What has been written is not 0.
NonZero ==
  /\ \A t \in Threads : zpc[t] = "fill" =>
       \A i \in Slots : i < filled[t] => srendipity[i] # 0
  /\ Finished # {} => \A i \in Slots : srendipity[i] # 0

FillInv == WhoFills /\ SeedsDrawn /\ NonZero

\* The generator starts from 1 and goes on from every seed it has computed.
LEMMA DrawnFacts ==
  /\ Drawn(0, 1)
  /\ \A k \in Nat, x \in Nat : Drawn(k, x) => Drawn(k + 1, NextSeed(x))
<1>1. Drawn(0, 1)
  <2> DEFINE s == [i \in 0..0 |-> 1]
  <2>1. s \in [0..0 -> Nat] /\ s[0] = 1 /\ \A i \in 1..0 : s[i] = NextSeed(s[i - 1])
    OBVIOUS
  <2> HIDE DEF s
  <2> QED
    BY <2>1 DEF Drawn
<1>2. ASSUME NEW k \in Nat, NEW x \in Nat, Drawn(k, x) PROVE Drawn(k + 1, NextSeed(x))
  <2>1. PICK s \in [0..k -> Nat] : /\ s[0] = 1 /\ s[k] = x
                                   /\ \A i \in 1..k : s[i] = NextSeed(s[i - 1])
    BY <1>2 DEF Drawn
  <2> DEFINE y == NextSeed(x)
             r == [i \in 0..(k + 1) |-> IF i = k + 1 THEN y ELSE s[i]]
  <2>2. y \in Nat
    <3>1. A * x \in Nat
      BY ConstantTypes
    <3>2. A * x + C \in Nat
      BY <3>1, ConstantTypes
    <3> QED
      BY <3>2, ConstantTypes, DivMod DEF NextSeed
  <2> HIDE DEF y
  <2>3. r \in [0..(k + 1) -> Nat] /\ r[0] = 1 /\ r[k + 1] = y
    BY <2>1, <2>2
  <2>4. ASSUME NEW i \in 1..(k + 1) PROVE r[i] = NextSeed(r[i - 1])
    <3>1. CASE i = k + 1
      <4>1. r[i] = y /\ r[i - 1] = x
        BY <2>1, <3>1
      <4> QED
        BY <4>1 DEF y
    <3>2. CASE i # k + 1
      <4>1. i \in 1..k /\ r[i] = s[i] /\ r[i - 1] = s[i - 1]
        BY <3>2
      <4> QED
        BY <2>1, <4>1
    <3> QED
      BY <3>1, <3>2
  <2> HIDE DEF r
  <2> QED
    BY <2>3, <2>4 DEF Drawn, y
<1> QED
  BY <1>1, <1>2

\* There are at most as many finished threads as threads, and one less while a
\* thread is filling.
LEMMA FinishedCount ==
  ASSUME ZipfTypeOK
  PROVE  /\ IsFiniteSet(Finished) /\ Cardinality(Finished) \in Nat /\ Stored \in Nat
         /\ \A t \in Threads \ Finished : Stored + Sz <= Cardinality(Threads) * Sz
<1>1. /\ IsFiniteSet(Threads) /\ Finished \subseteq Threads
      /\ IsFiniteSet(Finished) /\ Cardinality(Finished) \in Nat /\ Cardinality(Threads) \in Nat
  <2>1. IsFiniteSet(Threads) /\ Finished \subseteq Threads
    BY ZipfAssumption DEF Finished
  <2> QED
    BY <2>1, FS_Subset, FS_CardinalityType
<1>2. Stored \in Nat
  BY <1>1, ConstantTypes DEF Stored
<1>3. ASSUME NEW t \in Threads \ Finished PROVE Stored + Sz <= Cardinality(Threads) * Sz
  <2>1. Cardinality(Finished \cup {t}) = Cardinality(Finished) + 1
    BY <1>1, FS_AddElement
  <2>2. Cardinality(Finished \cup {t}) <= Cardinality(Threads)
    <3>1. Finished \cup {t} \subseteq Threads
      BY <1>1
    <3> QED
      BY <1>1, <3>1, FS_Subset
  <2>3. PICK c \in Nat, d \in Nat : c = Cardinality(Finished) /\ d = Cardinality(Threads)
    BY <1>1
  <2>4. c + 1 <= d
    BY <2>1, <2>2, <2>3
  <2>5. Sz * (c + 1) <= Sz * d
    BY <2>4, ConstantTypes, MulMono
  <2>6. Sz * (c + 1) = c * Sz + Sz /\ Sz * d = d * Sz
    BY ConstantTypes
  <2> QED
    BY <2>3, <2>5, <2>6 DEF Stored
<1> QED
  BY <1>1, <1>2, <1>3

\* The places of a thread that has nothing to do with the table's contents.
Calm == {"idle", "load", "read", "store", "search", "drawn", "built"}

\* A step from one such place to another one.
LEMMA CalmFill ==
  ASSUME ZipfTypeOK, FillInv, NEW t \in Threads, NEW place \in Calm,
         zpc[t] \in Calm, zpc' = [zpc EXCEPT ![t] = place],
         UNCHANGED <<srendipity, need_init, seed, filled, my_seed>>
  PROVE  FillInv'
<1>1. \A v \in Threads : zpc'[v] = IF v = t THEN place ELSE zpc[v]
  BY DEF ZipfTypeOK
<1>2. Finished' = Finished
  BY <1>1 DEF Finished, Calm
<1>3. WhoFills'
  BY <1>1, <1>2 DEF FillInv, WhoFills, Calm
<1>4. SeedsDrawn'
  BY <1>1, <1>2 DEF FillInv, SeedsDrawn, Stored, Calm
<1>5. NonZero'
  BY <1>1, <1>2 DEF FillInv, NonZero, Calm
<1> QED
  BY <1>3, <1>4, <1>5 DEF FillInv

\* A thread that finds the table not initialised, and begins to fill it.
LEMMA BeginFill ==
  ASSUME ZipfTypeOK, FillInv, NEW t \in Threads,
         (CheckInit(t) /\ need_init) \/ ClearInit(t) \/ LoadSeed(t)
  PROVE  FillInv'
<1> USE ConstantTypes DEF sharedVars, At, Goto
<1>1. /\ filled[t] = 0 /\ zpc[t] # "fill"
      /\ \A v \in Threads : filled'[v] = filled[v]
      /\ UNCHANGED <<srendipity, seed>>
  BY DEF CheckInit, ClearInit, LoadSeed, FillInv, WhoFills, ZipfTypeOK
<1>2. \A v \in Threads : v # t => zpc'[v] = zpc[v] /\ my_seed'[v] = my_seed[v]
  BY DEF CheckInit, ClearInit, LoadSeed, ZipfTypeOK
<1>3. Finished' = Finished /\ t \notin Finished
  <2>1. Sz # 0
    OBVIOUS
  <2> QED
    BY <1>1, <1>2, <2>1 DEF Finished
<1>4. CASE CheckInit(t) /\ need_init
  <2>1. zpc'[t] = "clear" /\ need_init' = need_init
    BY <1>4 DEF CheckInit, ZipfTypeOK
  <2>2. WhoFills'
    BY <1>1, <1>2, <1>3, <1>4, <2>1 DEF FillInv, WhoFills
  <2>3. SeedsDrawn' /\ NonZero'
    BY <1>1, <1>2, <1>3, <2>1 DEF FillInv, SeedsDrawn, NonZero, Stored
  <2> QED
    BY <2>2, <2>3 DEF FillInv
<1>5. CASE ClearInit(t)
  <2>1. zpc'[t] = "seed" /\ need_init' = FALSE
    BY <1>5 DEF ClearInit, ZipfTypeOK
  <2>2. WhoFills'
    BY <1>1, <1>2, <1>3, <2>1 DEF FillInv, WhoFills
  <2>3. SeedsDrawn' /\ NonZero'
    BY <1>1, <1>2, <1>3, <2>1 DEF FillInv, SeedsDrawn, NonZero, Stored
  <2> QED
    BY <2>2, <2>3 DEF FillInv
<1>6. CASE LoadSeed(t)
  <2>1. zpc'[t] = "fill" /\ my_seed'[t] = seed /\ need_init' = need_init /\ zpc[t] = "seed"
    BY <1>6 DEF LoadSeed, ZipfTypeOK
  <2>2. WhoFills'
    BY <1>1, <1>2, <1>3, <2>1 DEF FillInv, WhoFills
  <2>3. SeedsDrawn'
    <3>1. Stored' = Stored /\ Stored \in Nat
      BY <1>3, FinishedCount DEF Stored
    <3>2. Stored + filled'[t] = Stored
      BY <1>1, <3>1
    <3> QED
      BY <1>1, <1>2, <2>1, <3>1, <3>2 DEF FillInv, SeedsDrawn
  <2>4. NonZero'
    BY <1>1, <1>2, <1>3, <2>1 DEF FillInv, NonZero, Slots
  <2> QED
    BY <2>2, <2>3, <2>4 DEF FillInv
<1> QED
  BY <1>4, <1>5, <1>6

\* A number that is written into the table.
LEMMA WriteFill ==
  ASSUME NoZeroDrawn, ZipfTypeOK, FillInv, NEW t \in Threads, Fill(t)
  PROVE  FillInv'
<1> USE ConstantTypes DEF At
<1> DEFINE y == NextSeed(my_seed[t])
<1>1. /\ zpc[t] = "fill" /\ filled[t] \in 0..(Sz - 1) /\ filled'[t] = filled[t] + 1
      /\ my_seed'[t] = y /\ srendipity' = [srendipity EXCEPT ![filled[t]] = y % RAND_MAX]
      /\ UNCHANGED <<need_init, seed, zpc>> /\ my_seed[t] \in Nat
      /\ \A v \in Threads : v # t => filled'[v] = filled[v] /\ my_seed'[v] = my_seed[v]
  <2>1. filled[t] \in 0..Sz /\ filled[t] # Sz /\ my_seed[t] \in Nat
    BY DEF Fill, TableFull, ZipfTypeOK
  <2>2. my_seed'[t] = y
    BY DEF Fill, ZipfTypeOK
  <2>3. srendipity' = [srendipity EXCEPT ![filled[t]] = y % RAND_MAX]
    BY <2>2 DEF Fill
  <2>4. /\ zpc[t] = "fill" /\ filled'[t] = filled[t] + 1
        /\ UNCHANGED <<need_init, seed, zpc>>
        /\ \A v \in Threads : v # t => filled'[v] = filled[v] /\ my_seed'[v] = my_seed[v]
    BY DEF Fill, ZipfTypeOK
  <2> HIDE DEF y
  <2> QED
    BY <2>1, <2>2, <2>3, <2>4
<1>2. Finished' = Finished /\ t \notin Finished
  BY <1>1 DEF Finished
<1>3. Stored \in Nat /\ Stored' = Stored /\ Stored + Sz <= Cardinality(Threads) * Sz
  BY <1>2, FinishedCount DEF Stored
<1>4. PICK k \in 0..(Stored + filled[t]) : Drawn(k, my_seed[t])
  BY <1>1 DEF FillInv, SeedsDrawn
<1>5. k + 1 \in 1..(Stored + filled[t] + 1) /\ k + 1 \in 1..(Stored + Sz) /\ k \in Nat
  BY <1>1, <1>3
<1>6. Drawn(k + 1, y)
  BY <1>1, <1>4, <1>5, DrawnFacts
<1>7. y \in Nat
  <2>1. A * my_seed[t] \in Nat
    BY <1>1
  <2>2. A * my_seed[t] + C \in Nat
    BY <2>1
  <2> QED
    BY <2>2, DivMod DEF NextSeed
<1> HIDE DEF y
<1>8. y % RAND_MAX # 0
  <2>1. Cardinality(Threads) * Sz \in Nat
    BY ZipfAssumption, FS_CardinalityType
  <2>2. k + 1 \in 1..(Cardinality(Threads) * Sz)
    BY <1>3, <1>5, <2>1
  <2> QED
    BY <1>6, <1>7, <2>2 DEF NoZeroDrawn
<1>9. WhoFills'
  BY <1>1, <1>2 DEF FillInv, WhoFills
<1>10. SeedsDrawn'
  <2>1. \E j \in 0..(Stored + filled'[t]) : Drawn(j, my_seed'[t])
    <3>1. k + 1 \in 0..(Stored + filled'[t])
      BY <1>1, <1>3, <1>5
    <3> QED
      BY <1>1, <1>6, <3>1
  <2> QED
    BY <1>1, <1>3, <2>1 DEF FillInv, SeedsDrawn
<1>11. NonZero'
  <2>1. srendipity \in [Slots -> 0..(RAND_MAX - 1)]
    BY DEF ZipfTypeOK
  <2>2. \A i \in Slots : srendipity[i] # 0 => srendipity'[i] # 0
    BY <1>1, <1>8, <2>1
  <2>3. \A i \in Slots : i < filled'[t] => srendipity'[i] # 0
    <3> SUFFICES ASSUME NEW i \in Slots, i < filled'[t] PROVE srendipity'[i] # 0
      OBVIOUS
    <3>1. CASE i = filled[t]
      BY <1>1, <1>8, <2>1, <3>1
    <3>2. CASE i # filled[t]
      <4>1. i < filled[t]
        BY <1>1, <3>2 DEF Slots
      <4> QED
        BY <1>1, <2>2, <4>1 DEF FillInv, NonZero
    <3> QED
      BY <3>1, <3>2
  <2> QED
    BY <1>1, <1>2, <2>2, <2>3 DEF FillInv, NonZero
<1> QED
  BY <1>9, <1>10, <1>11 DEF FillInv

\* A thread that has filled the table stores the seed.
LEMMA EndFill ==
  ASSUME ZipfTypeOK, FillInv, NEW t \in Threads, StoreSeed(t)
  PROVE  FillInv'
<1> USE ConstantTypes DEF At, Goto
<1>1. /\ zpc[t] = "fill" /\ filled[t] = Sz /\ seed' = my_seed[t] /\ zpc'[t] = "load"
      /\ UNCHANGED <<srendipity, need_init, filled, my_seed>>
      /\ \A v \in Threads : v # t => zpc'[v] = zpc[v]
  BY DEF StoreSeed, TableFull, ZipfTypeOK
<1>2. Finished' = Finished \cup {t} /\ t \notin Finished
  BY <1>1 DEF Finished
<1>3. Stored' = Stored + Sz /\ Stored \in Nat
  <2>1. IsFiniteSet(Finished) /\ Cardinality(Finished) \in Nat
    BY FinishedCount
  <2>2. Cardinality(Finished \cup {t}) = Cardinality(Finished) + 1
    BY <1>2, <2>1, FS_AddElement
  <2>3. PICK c \in Nat : c = Cardinality(Finished)
    BY <2>1
  <2>4. (c + 1) * Sz = c * Sz + Sz /\ c * Sz \in Nat
    OBVIOUS
  <2> QED
    BY <1>2, <2>2, <2>3, <2>4 DEF Stored
<1>4. WhoFills'
  BY <1>1, <1>2 DEF FillInv, WhoFills
<1>5. SeedsDrawn'
  <2>1. PICK k \in 0..(Stored + Sz) : Drawn(k, seed')
    BY <1>1 DEF FillInv, SeedsDrawn
  <2>2. ASSUME NEW v \in Threads, zpc'[v] = "fill"
        PROVE  \E j \in 0..(Stored' + filled'[v]) : Drawn(j, my_seed'[v])
    <3>1. v # t /\ zpc[v] = "fill"
      BY <1>1, <2>2
    <3>2. PICK j \in 0..(Stored + filled[v]) : Drawn(j, my_seed[v])
      BY <3>1 DEF FillInv, SeedsDrawn
    <3>3. j \in 0..(Stored' + filled'[v])
      BY <1>1, <1>3, <3>2 DEF ZipfTypeOK
    <3> QED
      BY <1>1, <3>2, <3>3
  <2> QED
    BY <1>3, <2>1, <2>2 DEF SeedsDrawn
<1>6. NonZero'
  <2>1. \A i \in Slots : srendipity[i] # 0
    <3>1. \A i \in Slots : i < filled[t]
      BY <1>1 DEF Slots
    <3> QED
      BY <1>1, <3>1 DEF FillInv, NonZero
  <2> QED
    BY <1>1, <2>1 DEF NonZero
<1> QED
  BY <1>4, <1>5, <1>6 DEF FillInv

\* Every step of every thread.
LEMMA FillStep == NoZeroDrawn /\ ZipfTypeOK /\ FillInv /\ [ZipfNext]_zipfVars => FillInv'
<1> SUFFICES ASSUME NoZeroDrawn, ZipfTypeOK, FillInv, [ZipfNext]_zipfVars PROVE FillInv'
  OBVIOUS
<1>1. ASSUME NEW t \in Threads, Thread(t) PROVE FillInv'
  <2>1. CASE CheckInit(t) /\ ~need_init
    <3>1. /\ zpc[t] \in Calm /\ zpc' = [zpc EXCEPT ![t] = "load"]
          /\ UNCHANGED <<srendipity, need_init, seed, filled, my_seed>>
      BY <2>1 DEF CheckInit, At, Goto, sharedVars, Calm
    <3>2. "load" \in Calm
      BY DEF Calm
    <3> QED
      BY <3>1, <3>2, CalmFill
  <2>2. CASE LoadPtr(t) \/ ReadTable(t) \/ StorePtr(t) \/ SearchHit(t) \/ SearchFail(t)
             \/ Address(t) \/ NextPacket(t)
    <3>1. PICK place \in Calm : zpc' = [zpc EXCEPT ![t] = place]
      BY <2>2 DEF LoadPtr, ReadTable, StorePtr, SearchHit, SearchFail, Return,
                  Address, NextPacket, Goto, Calm
    <3>2. zpc[t] \in Calm /\ UNCHANGED <<srendipity, need_init, seed, filled, my_seed>>
      BY <2>2 DEF LoadPtr, ReadTable, StorePtr, SearchHit, SearchFail, Searching,
                  Return, Address, NextPacket, At, sharedVars, Calm
    <3> QED
      BY <3>1, <3>2, CalmFill
  <2>3. CASE SearchMore(t) \/ SearchLess(t)
    <3>1. /\ zpc[t] \in Calm /\ zpc' = zpc
          /\ UNCHANGED <<srendipity, need_init, seed, filled, my_seed>>
      BY <2>3 DEF SearchMore, SearchLess, Searching, At, sharedVars, Calm
    <3>2. zpc' = [zpc EXCEPT ![t] = zpc[t]]
      BY <3>1 DEF ZipfTypeOK
    <3> QED
      BY <3>1, <3>2, CalmFill
  <2> QED
    BY <1>1, <2>1, <2>2, <2>3, BeginFill, WriteFill, EndFill DEF Thread
<1>2. CASE UNCHANGED zipfVars
  BY <1>2 DEF zipfVars, sharedVars, FillInv, WhoFills, SeedsDrawn, NonZero, Stored,
              Finished
<1> QED
  BY <1>1, <1>2 DEF ZipfNext

\* The seed is 1 and nobody has begun.
LEMMA FillInit == ZipfInit => FillInv
<1> SUFFICES ASSUME ZipfInit PROVE FillInv
  OBVIOUS
<1>1. Finished = {}
  BY ConstantTypes DEF ZipfInit, Finished
<1>2. Stored \in Nat
  BY InitTypes, FinishedCount
<1>3. WhoFills /\ NonZero
  BY <1>1 DEF ZipfInit, WhoFills, NonZero
<1>4. SeedsDrawn
  <2>1. 0 \in 0..Stored /\ seed = 1
    BY <1>2 DEF ZipfInit
  <2>2. \A t \in Threads : zpc[t] # "fill"
    BY DEF ZipfInit
  <2> QED
    BY <2>1, <2>2, DrawnFacts DEF SeedsDrawn
<1> QED
  BY <1>3, <1>4 DEF FillInv

\* Although every thread that finds _need_init set fills the table, and each may
\* go on from the seed another one has stored, the table holds no 0 once nobody
\* is filling it, for every table size and timing: it is enough that none of the
\* first |Threads| * _sz numbers of __myrand is 0.
THEOREM ZerosHold == NoZeroDrawn => (ZipfSpec => []ZerosOnlyWhileFilling)
<1> SUFFICES ASSUME NoZeroDrawn PROVE ZipfSpec => []ZerosOnlyWhileFilling
  OBVIOUS
<1>1. FillInv => ZerosOnlyWhileFilling
  BY DEF FillInv, WhoFills, NonZero, ZerosOnlyWhileFilling
<1>2. ZipfTypeOK /\ FillInv /\ [ZipfNext]_zipfVars => FillInv'
  BY FillStep
<1> QED
  BY <1>1, <1>2, FillInit, InitTypes, NextTypes, PTL DEF ZipfSpec

-----------------------------------------------------------------------------
(* The bucket of a latency.                                                 *)

\* k holds the first powers of two, up to the n-th.
PowersTo(k, n) ==
  /\ k \in [0..n -> Nat]
  /\ k[0] = 1
  /\ \A i \in 1..n : k[i] = 2 * k[i - 1]

\* They exist, however many are asked for.
LEMMA SomePowers == \A n \in Nat : \E k : PowersTo(k, n)
<1> DEFINE P(n) == \E k : PowersTo(k, n)
           G == {n \in Nat : P(n)}
<1>1. P(0)
  <2> DEFINE k == [i \in 0..0 |-> 1]
  <2>1. PowersTo(k, 0)
    BY DEF PowersTo
  <2> HIDE DEF k
  <2> QED
    BY <2>1
<1>2. ASSUME NEW n \in Nat, P(n) PROVE P(n + 1)
  <2>1. PICK k : PowersTo(k, n)
    BY <1>2
  <2> DEFINE h == [i \in 0..(n + 1) |-> IF i = n + 1 THEN 2 * k[n] ELSE k[i]]
  <2>2. k[n] \in Nat /\ \A i \in 0..n : k[i] \in Nat
    BY <2>1 DEF PowersTo
  <2>3. h \in [0..(n + 1) -> Nat] /\ h[0] = 1
    BY <2>1, <2>2 DEF PowersTo
  <2>4. ASSUME NEW i \in 1..(n + 1) PROVE h[i] = 2 * h[i - 1]
    <3>1. CASE i = n + 1
      BY <3>1
    <3>2. CASE i # n + 1
      <4>1. i \in 1..n /\ h[i] = k[i] /\ h[i - 1] = k[i - 1]
        BY <3>2
      <4> QED
        BY <2>1, <4>1 DEF PowersTo
    <3> QED
      BY <3>1, <3>2
  <2> HIDE DEF h
  <2>5. PowersTo(h, n + 1)
    BY <2>3, <2>4 DEF PowersTo
  <2> QED
    BY <2>5
<1>3. Nat \subseteq G
  <2> HIDE DEF P
  <2>1. 0 \in G /\ \A n \in Nat : n \in G => n + 1 \in G
    BY <1>1, <1>2
  <2> HIDE DEF G
  <2> QED
    BY <2>1, NatInd
<1> QED
  BY <1>3

\* Two tables of powers agree as far as both of them go.
LEMMA SamePowers ==
  \A n \in Nat : \A a, b \in Nat : n <= a /\ n <= b =>
    \A k, l : PowersTo(k, a) /\ PowersTo(l, b) => k[n] = l[n]
<1> DEFINE P(n) == \A a, b \in Nat : n <= a /\ n <= b =>
                     \A k, l : PowersTo(k, a) /\ PowersTo(l, b) => k[n] = l[n]
           G == {n \in Nat : P(n)}
<1>1. P(0)
  BY DEF PowersTo
<1>2. ASSUME NEW n \in Nat, P(n) PROVE P(n + 1)
  <2> SUFFICES ASSUME NEW a \in Nat, NEW b \in Nat, n + 1 <= a, n + 1 <= b,
                      NEW k, NEW l, PowersTo(k, a), PowersTo(l, b)
               PROVE  k[n + 1] = l[n + 1]
    OBVIOUS
  <2>1. k[n] = l[n]
    BY <1>2
  <2>2. k[n + 1] = 2 * k[n]
    <3>1. n + 1 \in 1..a /\ (n + 1) - 1 = n
      OBVIOUS
    <3> QED
      BY <3>1 DEF PowersTo
  <2>3. l[n + 1] = 2 * l[n]
    <3>1. n + 1 \in 1..b /\ (n + 1) - 1 = n
      OBVIOUS
    <3> QED
      BY <3>1 DEF PowersTo
  <2> QED
    BY <2>1, <2>2, <2>3
<1>3. Nat \subseteq G
  <2> HIDE DEF P
  <2>1. 0 \in G /\ \A n \in Nat : n \in G => n + 1 \in G
    BY <1>1, <1>2
  <2> HIDE DEF G
  <2> QED
    BY <2>1, NatInd
<1> QED
  BY <1>3

\* Pow2 is what its recursion says.
LEMMA Powers ==
  /\ Pow2 \in [Nat -> Nat]
  /\ Pow2[0] = 1
  /\ \A n \in Nat : Pow2[n + 1] = 2 * Pow2[n]
<1> DEFINE c(n) == CHOOSE k : PowersTo(k, n)
           p == [n \in Nat |-> c(n)[n]]
<1>1. \A n \in Nat : PowersTo(c(n), n)
  BY SomePowers
<1> HIDE DEF c
<1>2. c(0)[0] = 1
  BY <1>1 DEF PowersTo
<1>3. ASSUME NEW n \in Nat PROVE c(n + 1)[n + 1] = 2 * c(n)[n]
  <2>1. PowersTo(c(n), n) /\ PowersTo(c(n + 1), n + 1)
    BY <1>1
  <2>2. c(n + 1)[n] = c(n)[n]
    BY <2>1, SamePowers
  <2>3. c(n + 1)[n + 1] = 2 * c(n + 1)[n]
    <3>1. n + 1 \in 1..(n + 1) /\ (n + 1) - 1 = n
      OBVIOUS
    <3> QED
      BY <2>1, <3>1 DEF PowersTo
  <2> QED
    BY <2>2, <2>3
<1>4. ASSUME NEW n \in Nat PROVE c(n)[n] = IF n = 0 THEN 1 ELSE 2 * p[n - 1]
  <2>1. CASE n = 0
    BY <1>2, <2>1
  <2>2. CASE n # 0
    <3>1. n - 1 \in Nat /\ (n - 1) + 1 = n
      BY <2>2
    <3>2. c(n)[n] = 2 * c(n - 1)[n - 1]
      BY <1>3, <3>1
    <3> QED
      BY <2>2, <3>1, <3>2
  <2> QED
    BY <2>1, <2>2
<1>5. p = [n \in Nat |-> IF n = 0 THEN 1 ELSE 2 * p[n - 1]]
  BY <1>4
<1> HIDE DEF p
<1>6. Pow2 = [n \in Nat |-> IF n = 0 THEN 1 ELSE 2 * Pow2[n - 1]]
  BY <1>5 DEF Pow2
<1>7. Pow2[0] = 1
  BY <1>6
<1>8. ASSUME NEW n \in Nat PROVE Pow2[n + 1] = 2 * Pow2[n]
  <2>1. n + 1 \in Nat /\ n + 1 # 0 /\ (n + 1) - 1 = n
    OBVIOUS
  <2> QED
    BY <1>6, <2>1
<1> DEFINE G == {n \in Nat : Pow2[n] \in Nat}
<1>9. 0 \in G /\ \A n \in Nat : n \in G => n + 1 \in G
  BY <1>7, <1>8
<1>10. Nat \subseteq G
  <2> HIDE DEF G
  <2> QED
    BY <1>9, NatInd
<1>11. Pow2 \in [Nat -> Nat]
  BY <1>6, <1>10
<1> QED
  BY <1>7, <1>8, <1>11

\* The powers of two grow.
LEMMA PowersGrow ==
  \A m, n \in Nat : m <= n => Pow2[m] <= Pow2[n]
<1> SUFFICES ASSUME NEW m \in Nat
             PROVE  \A n \in Nat : Pow2[m] <= Pow2[m + n]
  <2>1. \A m, n \in Nat : m <= n => n - m \in Nat /\ m + (n - m) = n
    OBVIOUS
  <2> QED
    BY <2>1
<1> DEFINE G == {n \in Nat : Pow2[m] <= Pow2[m + n]}
<1>1. 0 \in G
  BY Powers
<1>2. ASSUME NEW n \in Nat, n \in G PROVE n + 1 \in G
  <2>1. Pow2[m] \in Nat /\ Pow2[m + n] \in Nat /\ Pow2[m] <= Pow2[m + n]
    BY <1>2, Powers
  <2>2. m + n \in Nat /\ (m + n) + 1 = m + (n + 1)
    OBVIOUS
  <2>3. Pow2[m + (n + 1)] = 2 * Pow2[m + n]
    BY <2>2, Powers
  <2>4. Pow2[m] <= Pow2[m + (n + 1)]
    BY <2>1, <2>3
  <2> QED
    BY <2>4
<1>3. Nat \subseteq G
  <2> HIDE DEF G
  <2> QED
    BY <1>1, <1>2, NatInd
<1> QED
  BY <1>3

\* A square is smaller than the power of two that the search for its logarithm
\* ends at.
LEMMA SquareBelowPower == \A v \in Nat : v * v < Pow2[2 * v]
<1> DEFINE G == {v \in Nat : v * v < Pow2[2 * v]}
<1>1. 0 \in G
  BY Powers
<1>2. ASSUME NEW v \in Nat, v \in G PROVE v + 1 \in G
  <2>1. PICK a \in Nat : a = Pow2[2 * v]
    BY Powers
  <2>2. v * v < a
    BY <1>2, <2>1
  <2>3. Pow2[2 * (v + 1)] = 4 * a
    <3>1. 2 * v \in Nat /\ 2 * v + 1 \in Nat /\ (2 * v + 1) + 1 = 2 * (v + 1)
      OBVIOUS
    <3>2. Pow2[2 * v + 1] = 2 * a
      BY <2>1, <3>1, Powers
    <3>3. Pow2[2 * (v + 1)] = 2 * (2 * a)
      BY <3>1, <3>2, Powers
    <3> QED
      BY <3>3
  <2>4. (v + 1) * (v + 1) < 4 * a
    <3>1. CASE v = 0
      BY <2>2, <3>1
    <3>2. CASE v # 0
      <4>1. (v + 1) * (v + 1) = v * v + 2 * v + 1
        OBVIOUS
      <4>2. v * 1 <= v * v
        BY <3>2, MulMono
      <4>3. PICK q \in Nat : q = v * v
        OBVIOUS
      <4> QED
        BY <2>2, <3>2, <4>1, <4>2, <4>3
    <3> QED
      BY <3>1, <3>2
  <2>5. (v + 1) * (v + 1) < Pow2[2 * (v + 1)]
    BY <2>3, <2>4
  <2> QED
    BY <2>5
<1>3. Nat \subseteq G
  <2> HIDE DEF G
  <2> QED
    BY <1>1, <1>2, NatInd
<1> QED
  BY <1>3

\* LogIndex is twice the logarithm to the base two, rounded down.
LEMMA LogIndexIs ==
  ASSUME NEW v \in Nat, v > 0
  PROVE  /\ LogIndex(v) \in Nat
         /\ Pow2[LogIndex(v)] <= v * v
         /\ v * v < Pow2[LogIndex(v) + 1]
<1>0. PICK q \in Nat : q = v * v
  OBVIOUS
<1> DEFINE T == {i \in Nat : q < Pow2[i + 1]}
<1>1. 2 * v \in T
  <2>1. q < Pow2[2 * v]
    BY <1>0, SquareBelowPower
  <2>2. Pow2[2 * v] <= Pow2[2 * v + 1] /\ Pow2[2 * v] \in Nat /\ Pow2[2 * v + 1] \in Nat
    BY PowersGrow, Powers
  <2>3. q < Pow2[2 * v + 1]
    BY <2>1, <2>2
  <2> QED
    BY <2>3
<1>2. PICK m \in T : \A n \in T : m <= n
  <2>1. T \subseteq Nat /\ T # {}
    BY <1>1
  <2> HIDE DEF T
  <2> QED
    BY <2>1, LeastNat
<1>3. m \in 0..(2 * v) /\ q < Pow2[m + 1]
  BY <1>1, <1>2
<1>4. Pow2[m] <= q
  <2>1. CASE m = 0
    <3>1. 1 <= q
      <4>1. v * 1 <= v * v
        BY MulMono
      <4> QED
        BY <1>0, <4>1
    <3> QED
      BY <2>1, <3>1, Powers
  <2>2. CASE m # 0
    <3>1. m - 1 \in Nat /\ (m - 1) + 1 = m /\ m - 1 \notin T
      BY <1>2, <2>2
    <3>2. ~(q < Pow2[m])
      BY <3>1
    <3>3. Pow2[m] \in Nat
      BY <1>3, Powers
    <3> QED
      BY <3>2, <3>3
  <2> QED
    BY <2>1, <2>2
<1>5. \E i \in 0..(2 * v) : Pow2[i] <= v * v /\ v * v < Pow2[i + 1]
  BY <1>0, <1>3, <1>4
<1>6. /\ LogIndex(v) \in 0..(2 * v)
      /\ Pow2[LogIndex(v)] <= v * v /\ v * v < Pow2[LogIndex(v) + 1]
  BY <1>5 DEF LogIndex
<1> QED
  BY <1>6

\* A larger number has no smaller logarithm.
LEMMA LogIndexGrows ==
  ASSUME NEW v \in Nat, NEW w \in Nat, v > 0, v <= w
  PROVE  LogIndex(v) <= LogIndex(w)
<1>1. PICK i \in Nat : i = LogIndex(v)
  BY LogIndexIs
<1>2. PICK j \in Nat : j = LogIndex(w)
  BY LogIndexIs
<1>3. Pow2[i] <= v * v /\ w * w < Pow2[j + 1]
  BY <1>1, <1>2, LogIndexIs
<1>4. v * v <= w * w
  <2>1. v * v <= v * w /\ w * v <= w * w
    BY MulMono
  <2>2. v * v \in Nat /\ v * w \in Nat /\ w * w \in Nat /\ w * v = v * w
    OBVIOUS
  <2> QED
    BY <2>1, <2>2
<1>5. v * v \in Nat /\ w * w \in Nat /\ Pow2[i] \in Nat /\ Pow2[j + 1] \in Nat
  BY Powers
<1>6. Pow2[i] < Pow2[j + 1]
  BY <1>3, <1>4, <1>5
<1>7. ~(j + 1 <= i)
  BY <1>5, <1>6, PowersGrow
<1> QED
  BY <1>1, <1>2, <1>7

\* Min is the least element of a set of naturals.
LEMMA MinIsLeast ==
  ASSUME NEW T, T \subseteq Nat, T # {}
  PROVE  Min(T) \in T /\ \A n \in T : Min(T) <= n
<1>1. PICK m \in T : \A n \in T : m <= n
  BY LeastNat
<1> QED
  BY <1>1 DEF Min

\* Every latency has a bucket, and a larger one no smaller bucket.
LEMMA IndexGrows ==
  /\ count_bucket \in Nat /\ count_bucket > 0
  /\ \A v \in Nat : Index(v) \in BucketIds
  /\ \A v, w \in Nat : v <= w => Index(v) <= Index(w)
<1>1. MaxLatency \in Nat /\ MaxLatency > 0
  BY PercentileAssumption
<1>2. count_bucket \in Nat /\ count_bucket > 0
  BY <1>1, LogIndexIs DEF count_bucket
<1>3. PICK l \in Nat : l = count_bucket - 1
  BY <1>2
<1>4. ASSUME NEW v \in Nat, v >= 2
      PROVE  /\ Index(v) \in Nat /\ Index(v) <= l /\ Index(v) <= LogIndex(v)
             /\ Index(v) = l \/ Index(v) = LogIndex(v)
  <2>1. LogIndex(v) \in Nat
    BY <1>4, LogIndexIs
  <2>2. {LogIndex(v), l} \subseteq Nat /\ {LogIndex(v), l} # {}
    BY <2>1
  <2>3. /\ Min({LogIndex(v), l}) \in {LogIndex(v), l}
        /\ \A n \in {LogIndex(v), l} : Min({LogIndex(v), l}) <= n
    BY <2>2, MinIsLeast
  <2>4. Index(v) = Min({LogIndex(v), l})
    BY <1>3, <1>4 DEF Index
  <2> QED
    BY <2>1, <2>3, <2>4
<1>5. \A v \in Nat : v < 2 => Index(v) = 0
  BY DEF Index
<1>6. ASSUME NEW v \in Nat PROVE Index(v) \in 0..l
  BY <1>4, <1>5
<1>7. ASSUME NEW v \in Nat, NEW w \in Nat, v <= w PROVE Index(v) <= Index(w)
  <2>1. CASE v < 2
    BY <1>5, <1>6, <2>1
  <2>2. CASE v >= 2
    <3>1. LogIndex(v) <= LogIndex(w) /\ LogIndex(v) \in Nat /\ LogIndex(w) \in Nat
      BY <1>7, <2>2, LogIndexGrows, LogIndexIs
    <3>2. /\ Index(v) \in Nat /\ Index(v) <= l /\ Index(v) <= LogIndex(v)
          /\ Index(w) = l \/ Index(w) = LogIndex(w)
      BY <1>4, <1>7, <2>2
    <3> QED
      BY <3>1, <3>2
  <2> QED
    BY <2>1, <2>2
<1> QED
  BY <1>2, <1>3, <1>6, <1>7 DEF BucketIds

-----------------------------------------------------------------------------
(* The bucket that get_percentile stops at.                                 *)

\* How many of the latencies recorded belong into the buckets up to i.
InBuckets(i) ==
  SumFunction([u \in Latencies |-> IF Index(u) <= i THEN recorded[u] ELSE 0])

\* The inductive invariant: the counters of the histogram are those of the
\* latencies recorded.
CountInv ==
  /\ buckets \in [BucketIds -> Nat]
  /\ recorded \in [Latencies -> Nat]
  /\ count_values = SumFunction(recorded)
  /\ \A i \in BucketIds : Cumulative(i) = InBuckets(i)

\* The latencies and the buckets are finitely many.
LEMMA HistSets ==
  /\ Latencies \subseteq Nat /\ IsFiniteSet(Latencies)
  /\ BucketIds \subseteq Nat /\ IsFiniteSet(BucketIds)
  /\ \A v \in Latencies : Index(v) \in BucketIds
<1>1. BucketIds \subseteq Nat /\ IsFiniteSet(BucketIds)
  <2>1. 0 \in Int /\ count_bucket - 1 \in Int
    BY IndexGrows
  <2> QED
    BY <2>1, FS_Interval DEF BucketIds
<1> QED
  BY <1>1, IndexGrows, PercentileAssumption

\* The counters of an empty histogram.
LEMMA CountInit == HistInit => CountInv
<1> SUFFICES ASSUME HistInit PROVE CountInv
  OBVIOUS
<1>1. buckets \in [BucketIds -> Nat] /\ recorded \in [Latencies -> Nat]
  BY DEF HistInit
<1>2. SumFunction(recorded) = 0
  BY <1>1, SumOfNats, HistSets DEF HistInit
<1>3. ASSUME NEW i \in BucketIds PROVE Cumulative(i) = 0
  <2> DEFINE f == [j \in BucketIds |-> IF j <= i THEN buckets[j] ELSE 0]
  <2>1. f \in [BucketIds -> Nat] /\ \A j \in BucketIds : f[j] = 0
    BY DEF HistInit
  <2> HIDE DEF f
  <2>2. SumFunction(f) = 0
    BY <2>1, SumOfNats, HistSets
  <2> QED
    BY <2>2 DEF Cumulative, f
<1>4. ASSUME NEW i \in BucketIds PROVE InBuckets(i) = 0
  <2> DEFINE f == [u \in Latencies |-> IF Index(u) <= i THEN recorded[u] ELSE 0]
  <2>1. f \in [Latencies -> Nat] /\ \A u \in Latencies : f[u] = 0
    BY DEF HistInit
  <2> HIDE DEF f
  <2>2. SumFunction(f) = 0
    BY <2>1, SumOfNats, HistSets
  <2> QED
    BY <2>2 DEF InBuckets, f
<1> QED
  BY <1>1, <1>2, <1>3, <1>4 DEF CountInv, HistInit

\* A latency is counted in its bucket and in all sums that reach that bucket.
LEMMA CountAdd ==
  ASSUME CountInv, NEW v \in Latencies, AddNumber(v)
  PROVE  CountInv'
<1> USE HistSets
<1>0. Index(v) \in BucketIds /\ Index(v) \in Nat
  OBVIOUS
<1>1. buckets \in [BucketIds -> Nat] /\ recorded \in [Latencies -> Nat]
  BY DEF CountInv
<1>2. buckets' = [buckets EXCEPT ![Index(v)] = @ + 1] /\ recorded' = [recorded EXCEPT ![v] = @ + 1]
  BY DEF AddNumber
<1>3. buckets' \in [BucketIds -> Nat] /\ recorded' \in [Latencies -> Nat]
  BY <1>0, <1>1, <1>2
<1>4. count_values' = SumFunction(recorded')
  <2>1. \A u \in Latencies \ {v} : recorded'[u] = recorded[u]
    BY <1>1, <1>2
  <2>2. recorded'[v] - recorded[v] = 1
    BY <1>1, <1>2
  <2>3. recorded \in [Latencies -> Int] /\ recorded' \in [Latencies -> Int]
    BY <1>1, <1>3
  <2>4. SumFunction(recorded') = SumFunction(recorded) + (recorded'[v] - recorded[v])
    BY <2>1, <2>3, SumUpdate
  <2> QED
    BY <2>2, <2>4 DEF CountInv, AddNumber
<1>5. ASSUME NEW i \in BucketIds PROVE Cumulative(i)' = InBuckets(i)'
  <2> DEFINE d == IF Index(v) <= i THEN 1 ELSE 0
             b(g) == [j \in BucketIds |-> IF j <= i THEN g[j] ELSE 0]
             r(g) == [u \in Latencies |-> IF Index(u) <= i THEN g[u] ELSE 0]
  <2>1. SumFunction(b(buckets')) = SumFunction(b(buckets)) + d
    <3>1. b(buckets) \in [BucketIds -> Int] /\ b(buckets') \in [BucketIds -> Int]
      BY <1>1, <1>3
    <3>2. \A j \in BucketIds \ {Index(v)} : b(buckets')[j] = b(buckets)[j]
      BY <1>1, <1>2
    <3>3. b(buckets')[Index(v)] - b(buckets)[Index(v)] = d
      BY <1>0, <1>1, <1>2
    <3> HIDE DEF b, d
    <3>4. SumFunction(b(buckets')) =
            SumFunction(b(buckets)) + (b(buckets')[Index(v)] - b(buckets)[Index(v)])
      BY <1>0, <3>1, <3>2, SumUpdate
    <3> QED
      BY <3>3, <3>4
  <2>2. SumFunction(r(recorded')) = SumFunction(r(recorded)) + d
    <3>1. r(recorded) \in [Latencies -> Int] /\ r(recorded') \in [Latencies -> Int]
      BY <1>1, <1>3
    <3>2. \A u \in Latencies \ {v} : r(recorded')[u] = r(recorded)[u]
      BY <1>1, <1>2
    <3>3. r(recorded')[v] - r(recorded)[v] = d
      BY <1>0, <1>1, <1>2
    <3> HIDE DEF r, d
    <3>4. SumFunction(r(recorded')) = SumFunction(r(recorded)) + (r(recorded')[v] - r(recorded)[v])
      BY <3>1, <3>2, SumUpdate
    <3> QED
      BY <3>3, <3>4
  <2>3. Cumulative(i) = SumFunction(b(buckets)) /\ Cumulative(i)' = SumFunction(b(buckets'))
    BY DEF Cumulative
  <2>4. InBuckets(i) = SumFunction(r(recorded)) /\ InBuckets(i)' = SumFunction(r(recorded'))
    BY DEF InBuckets
  <2>5. Cumulative(i) = InBuckets(i)
    BY DEF CountInv
  <2> HIDE DEF b, r, d
  <2> QED
    BY <2>1, <2>2, <2>3, <2>4, <2>5
<1> QED
  BY <1>3, <1>4, <1>5 DEF CountInv

\* The counters are kept.
LEMMA CountStep == CountInv /\ [HistNext]_histVars => CountInv'
<1>1. CASE UNCHANGED histVars
  BY <1>1 DEF CountInv, histVars, Cumulative, InBuckets
<1>2. CASE HistNext
  BY <1>2, CountAdd DEF HistNext
<1> QED
  BY <1>1, <1>2

\* A set of latencies that is not empty has a largest one.
LEMMA LargestLatency ==
  ASSUME NEW W \in SUBSET Latencies, W # {}
  PROVE  \E w \in W : \A u \in W : u <= w
<1> DEFINE Z == {s \in SUBSET Latencies : s # {} => \E w \in s : \A u \in s : u <= w}
<1>1. {} \in Z
  OBVIOUS
<1>2. ASSUME NEW s \in SUBSET Latencies, s # {}, s \ {Some(s)} \in Z PROVE s \in Z
  <2>1. Some(s) \in s /\ \A u \in s : u \in Nat
    BY <1>2, SomeIn, HistSets
  <2>2. CASE s \ {Some(s)} = {}
    BY <2>1, <2>2
  <2>3. CASE s \ {Some(s)} # {}
    <3>1. PICK w \in s \ {Some(s)} : \A u \in s \ {Some(s)} : u <= w
      BY <1>2, <2>3
    <3>2. CASE Some(s) <= w
      BY <3>1, <3>2
    <3>3. CASE ~(Some(s) <= w)
      <4>1. \A u \in s : u <= Some(s)
        BY <2>1, <3>1, <3>3
      <4> QED
        BY <2>1, <4>1
    <3> QED
      BY <3>2, <3>3
  <2> QED
    BY <2>2, <2>3
<1>3. SUBSET Latencies \subseteq Z
  <2> HIDE DEF Z
  <2> QED
    BY <1>1, <1>2, SubsetInd, HistSets
<1> QED
  BY <1>3

\* Latencies of which one set holds the other are at least as many; and all of
\* them are count_values.
LEMMA Shares ==
  ASSUME CountInv
  PROVE  /\ count_values \in Nat
         /\ \A v \in Latencies : NotLarger(v) \in Nat
         /\ \A i \in BucketIds : InBuckets(i) \in Nat
         /\ \A v \in Latencies : \A i \in BucketIds :
              /\ (\A u \in Latencies : u <= v => Index(u) <= i) => NotLarger(v) <= InBuckets(i)
              /\ (\A u \in Latencies : Index(u) <= i => u <= v) => InBuckets(i) <= NotLarger(v)
         /\ \A v \in Latencies : (\A u \in Latencies : u <= v) => NotLarger(v) = count_values
         /\ \A i \in BucketIds : (\A u \in Latencies : Index(u) > i) => InBuckets(i) = 0
<1> USE HistSets
<1> DEFINE n(v) == [u \in Latencies |-> IF u <= v THEN recorded[u] ELSE 0]
           b(i) == [u \in Latencies |-> IF Index(u) <= i THEN recorded[u] ELSE 0]
<1>1. recorded \in [Latencies -> Nat]
  BY DEF CountInv
<1>2. /\ \A v \in Latencies : NotLarger(v) = SumFunction(n(v))
      /\ \A i \in BucketIds : InBuckets(i) = SumFunction(b(i))
  BY DEF NotLarger, InBuckets
<1>3. /\ \A v \in Latencies : n(v) \in [Latencies -> Nat]
      /\ \A i \in BucketIds : b(i) \in [Latencies -> Nat]
  BY <1>1
<1>4. /\ \A v \in Latencies : n(v) \in [Latencies -> Int]
      /\ \A i \in BucketIds : b(i) \in [Latencies -> Int]
  BY <1>1
<1>5. ASSUME NEW v \in Latencies, NEW i \in BucketIds,
             \A u \in Latencies : u <= v => Index(u) <= i
      PROVE  NotLarger(v) <= InBuckets(i)
  <2>1. \A u \in Latencies : n(v)[u] <= b(i)[u]
    BY <1>1, <1>5
  <2> HIDE DEF n, b
  <2> QED
    BY <1>2, <1>4, <2>1, SumMono
<1>6. ASSUME NEW v \in Latencies, NEW i \in BucketIds,
             \A u \in Latencies : Index(u) <= i => u <= v
      PROVE  InBuckets(i) <= NotLarger(v)
  <2>1. \A u \in Latencies : b(i)[u] <= n(v)[u]
    BY <1>1, <1>6
  <2> HIDE DEF n, b
  <2> QED
    BY <1>2, <1>4, <2>1, SumMono
<1>7. ASSUME NEW v \in Latencies, \A u \in Latencies : u <= v
      PROVE  NotLarger(v) = count_values
  <2>1. n(v) = recorded
    BY <1>1, <1>7
  <2> HIDE DEF n
  <2> QED
    BY <1>2, <2>1 DEF CountInv
<1>8. ASSUME NEW i \in BucketIds, \A u \in Latencies : Index(u) > i
      PROVE  InBuckets(i) = 0
  <2>1. \A u \in Latencies : Index(u) \in Nat /\ i \in Nat
    OBVIOUS
  <2>2. \A u \in Latencies : b(i)[u] = 0
    BY <1>8, <2>1
  <2> HIDE DEF b
  <2> QED
    BY <1>2, <1>3, <2>2, SumOfNats
<1>9. count_values \in Nat
  BY <1>1, SumOfNats DEF CountInv
<1>10. /\ \A v \in Latencies : NotLarger(v) \in Nat
       /\ \A i \in BucketIds : InBuckets(i) \in Nat
  <2> HIDE DEF n, b
  <2> QED
    BY <1>2, <1>3, SumOfNats
<1> QED
  BY <1>5, <1>6, <1>7, <1>8, <1>9, <1>10

\* The counters decide the bucket: the buckets up to that of the sample reach
\* the fraction, and if fewer did, a smaller latency would be the sample.
LEMMA StopRight ==
  ASSUME CountInv, count_values > 0, NEW y \in Fractions
  PROVE  /\ Sample(y) \in Latencies /\ Stop(y) \in BucketIds
         /\ Stop(y) = Index(Sample(y))
         /\ Reaches(Stop(y), y)
         /\ \A j \in BucketIds : Reaches(j, y) => Stop(y) <= j
<1> USE HistSets
<1>1. PICK a \in Nat, c \in Nat : a = y[1] /\ c = y[2] /\ a > 0 /\ a < c
  <2>1. y[1] \in Nat /\ y[2] \in Nat /\ y[1] > 0 /\ y[1] < y[2]
    BY PercentileAssumption
  <2> QED
    BY <2>1
<1>2. count_values \in Nat /\ \A v \in Latencies : NotLarger(v) \in Nat
  BY Shares
<1>3. \A i \in BucketIds : Cumulative(i) = InBuckets(i) /\ Cumulative(i) \in Nat
  BY Shares DEF CountInv
<1>4. PICK t \in Nat : t = a * count_values /\ t > 0
  <2>1. a * 1 <= a * count_values
    BY <1>2, MulMono
  <2>2. a * count_values \in Nat
    BY <1>2
  <2> QED
    BY <1>1, <2>1, <2>2
<1> DEFINE T == {v \in Latencies : NotLarger(v) * y[2] >= y[1] * count_values}
           B == {i \in BucketIds : Reaches(i, y)}
<1>5. \A v \in Latencies : v \in T <=> NotLarger(v) * c >= t
  BY <1>1, <1>4
<1>6. \A i \in BucketIds : i \in B <=> Cumulative(i) * c >= t
  BY <1>1, <1>4 DEF Reaches
<1>7. T # {}
  <2>1. Latencies # {}
    <3>1. SUFFICES ASSUME Latencies = {} PROVE FALSE
      OBVIOUS
    <3>2. recorded \in [Latencies -> Nat] /\ \A x \in Latencies : recorded[x] = 0
      BY <3>1 DEF CountInv
    <3>3. SumFunction(recorded) = 0
      BY <3>2, SumOfNats
    <3> QED
      BY <3>3 DEF CountInv
  <2>2. PICK w \in Latencies : \A u \in Latencies : u <= w
    BY <2>1, LargestLatency
  <2>3. NotLarger(w) = count_values
    BY <2>2, Shares
  <2>4. count_values * a <= count_values * c
    BY <1>1, <1>2, MulMono
  <2>5. NotLarger(w) * c >= t
    <3>1. count_values * a = t /\ count_values * a \in Nat /\ count_values * c \in Nat
      BY <1>2, <1>4
    <3> QED
      BY <2>3, <2>4, <3>1
  <2> QED
    BY <1>5, <2>5
<1>8. PICK s \in T : s = Sample(y) /\ \A v \in T : s <= v
  <2>1. T \subseteq Nat
    OBVIOUS
  <2>2. Sample(y) = Min(T)
    BY DEF Sample
  <2> HIDE DEF T
  <2> QED
    BY <1>7, <2>1, <2>2, MinIsLeast
<1>9. s \in Latencies /\ s \in Nat /\ Index(s) \in BucketIds
  BY <1>8
<1>10. Index(s) \in B
  <2>1. \A u \in Latencies : u <= s => Index(u) <= Index(s)
    BY <1>9, IndexGrows
  <2>2. NotLarger(s) <= InBuckets(Index(s))
    BY <1>9, <2>1, Shares
  <2>3. c * NotLarger(s) <= c * Cumulative(Index(s))
    BY <1>2, <1>3, <1>9, <2>2, MulMono
  <2>4. NotLarger(s) * c >= t
    BY <1>5, <1>8, <1>9
  <2>5. Cumulative(Index(s)) * c >= t
    <3>1. PICK m \in Nat, k \in Nat : m = NotLarger(s) /\ k = Cumulative(Index(s))
      BY <1>2, <1>3, <1>9
    <3>2. c * m <= c * k /\ m * c >= t
      BY <2>3, <2>4, <3>1
    <3>3. c * m = m * c /\ c * k = k * c /\ m * c \in Nat /\ k * c \in Nat
      OBVIOUS
    <3>4. k * c >= t
      BY <3>2, <3>3
    <3> QED
      BY <3>1, <3>4
  <2> QED
    BY <1>6, <1>9, <2>5
<1>11. PICK i \in B : i = Stop(y) /\ \A j \in B : i <= j
  <2>1. B \subseteq Nat /\ B # {}
    BY <1>10
  <2>2. Stop(y) = Min(B)
    BY DEF Stop
  <2> HIDE DEF B
  <2> QED
    BY <2>1, <2>2, MinIsLeast
<1>12. i \in BucketIds /\ i \in Nat
  BY <1>11
<1>13. Index(s) <= i
  <2> DEFINE W == {u \in Latencies : Index(u) <= i}
  <2>1. Cumulative(i) * c >= t
    BY <1>6, <1>11, <1>12
  <2>2. W # {}
    <3>1. SUFFICES ASSUME W = {} PROVE FALSE
      OBVIOUS
    <3>2. \A u \in Latencies : Index(u) > i
      <4>1. \A u \in Latencies : Index(u) \in Nat
        OBVIOUS
      <4> QED
        BY <1>12, <3>1, <4>1
    <3>3. Cumulative(i) = 0
      BY <1>3, <1>12, <3>2, Shares
    <3> QED
      BY <1>4, <2>1, <3>3
  <2>3. PICK w \in W : \A u \in W : u <= w
    <3>1. W \in SUBSET Latencies
      OBVIOUS
    <3> HIDE DEF W
    <3> QED
      BY <2>2, <3>1, LargestLatency
  <2>4. w \in Latencies /\ w \in Nat /\ Index(w) <= i
    BY <2>3
  <2>5. Cumulative(i) <= NotLarger(w)
    <3>1. \A u \in Latencies : Index(u) <= i => u <= w
      BY <2>3
    <3>2. InBuckets(i) <= NotLarger(w)
      BY <1>12, <2>4, <3>1, Shares
    <3> QED
      BY <1>3, <1>12, <3>2
  <2>6. NotLarger(w) * c >= t
    <3>1. PICK m \in Nat, k \in Nat : m = NotLarger(w) /\ k = Cumulative(i)
      BY <1>2, <1>3, <1>12, <2>4
    <3>2. k <= m /\ k * c >= t
      BY <2>1, <2>5, <3>1
    <3>3. c * k <= c * m
      BY <3>2, MulMono
    <3>4. c * m = m * c /\ c * k = k * c /\ m * c \in Nat /\ k * c \in Nat
      OBVIOUS
    <3>5. m * c >= t
      BY <3>2, <3>3, <3>4
    <3> QED
      BY <3>1, <3>5
  <2>7. s <= w
    BY <1>5, <1>8, <2>4, <2>6
  <2>8. Index(s) <= Index(w)
    BY <1>9, <2>4, <2>7, IndexGrows
  <2>9. Index(s) \in Nat /\ Index(w) \in Nat
    BY <1>9, <2>4
  <2> QED
    BY <1>12, <2>4, <2>8, <2>9
<1>14. i <= Index(s)
  BY <1>10, <1>11
<1>15. i = Index(s)
  <2>1. Index(s) \in Nat
    BY <1>9
  <2> QED
    BY <1>12, <1>13, <1>14, <2>1
<1> QED
  BY <1>8, <1>9, <1>11, <1>12, <1>15

\* get_percentile stops in the bucket of the sample, for every set of latencies,
\* every number of buckets and every fraction between 0 and 1.
THEOREM RightBucketHolds == HistSpec => []RightBucket
<1>1. HistSpec => []CountInv
  BY CountInit, CountStep, PTL DEF HistSpec
<1> QED
  <2>1. CountInv => RightBucket
    BY StopRight DEF RightBucket
  <2> QED
    BY <1>1, <2>1, PTL

-----------------------------------------------------------------------------
(* The value that get_percentile reports.                                   *)

\* b holds the bounds of the buckets up to the n-th.
BoundsTo(b, n) ==
  /\ b \in [0..n -> Nat]
  /\ b[0] = 1000
  /\ \A i \in 1..n : b[i] = (b[i - 1] * 14142) \div 10000

\* They exist, however many buckets there are.
LEMMA SomeBounds == \A n \in Nat : \E b : BoundsTo(b, n)
<1> DEFINE P(n) == \E b : BoundsTo(b, n)
           G == {n \in Nat : P(n)}
<1>1. P(0)
  <2> DEFINE b == [i \in 0..0 |-> 1000]
  <2>1. BoundsTo(b, 0)
    BY DEF BoundsTo
  <2> HIDE DEF b
  <2> QED
    BY <2>1
<1>2. ASSUME NEW n \in Nat, P(n) PROVE P(n + 1)
  <2>1. PICK b : BoundsTo(b, n)
    BY <1>2
  <2>2. \A i \in 0..n : b[i] \in Nat
    BY <2>1 DEF BoundsTo
  <2>3. PICK x \in Nat : x = (b[n] * 14142) \div 10000
    <3>1. b[n] * 14142 \in Nat
      BY <2>2
    <3> QED
      BY <3>1, DivMod
  <2> DEFINE h == [i \in 0..(n + 1) |-> IF i = n + 1 THEN x ELSE b[i]]
  <2>4. h \in [0..(n + 1) -> Nat] /\ h[0] = 1000
    BY <2>1, <2>2 DEF BoundsTo
  <2>5. ASSUME NEW i \in 1..(n + 1) PROVE h[i] = (h[i - 1] * 14142) \div 10000
    <3>1. CASE i = n + 1
      <4>1. h[i] = x /\ h[i - 1] = b[n]
        BY <3>1
      <4> HIDE DEF h
      <4> QED
        BY <2>3, <4>1
    <3>2. CASE i # n + 1
      <4>1. i \in 1..n /\ h[i] = b[i] /\ h[i - 1] = b[i - 1]
        BY <3>2
      <4> HIDE DEF h
      <4> QED
        BY <2>1, <4>1 DEF BoundsTo
    <3> QED
      BY <3>1, <3>2
  <2> HIDE DEF h
  <2>6. BoundsTo(h, n + 1)
    BY <2>4, <2>5 DEF BoundsTo
  <2> QED
    BY <2>6
<1>3. Nat \subseteq G
  <2> HIDE DEF P
  <2>1. 0 \in G /\ \A n \in Nat : n \in G => n + 1 \in G
    BY <1>1, <1>2
  <2> HIDE DEF G
  <2> QED
    BY <2>1, NatInd
<1> QED
  BY <1>3

\* Bound is what its recursion says.
LEMMA Bounds ==
  /\ \A i \in 0..count_bucket : Bound[i] \in Nat
  /\ Bound[0] = 1000
  /\ \A i \in 1..count_bucket : Bound[i] = (Bound[i - 1] * 14142) \div 10000
<1>0. PICK n \in Nat : n = count_bucket
  BY IndexGrows
<1>1. PICK b : BoundsTo(b, n)
  BY SomeBounds
<1> DEFINE r(g, i) == IF i = 0 THEN 1000 ELSE (g[i - 1] * 14142) \div 10000
<1>2. ASSUME NEW i \in 0..n PROVE b[i] = r(b, i)
  BY <1>1 DEF BoundsTo
<1>3. b = [i \in 0..n |-> b[i]]
  BY <1>1 DEF BoundsTo
<1>4. b = [i \in 0..n |-> r(b, i)]
  <2> HIDE DEF r
  <2> QED
    BY <1>2, <1>3
<1>5. Bound = [i \in 0..n |-> r(Bound, i)]
  <2>1. Bound = CHOOSE g : g = [i \in 0..n |-> r(g, i)]
    BY <1>0 DEF Bound
  <2> HIDE DEF r
  <2> QED
    BY <1>4, <2>1
<1>6. Bound[0] = 1000
  BY <1>5
<1>7. \A i \in 1..n : Bound[i] = (Bound[i - 1] * 14142) \div 10000
  <2>1. \A i \in 1..n : i \in 0..n /\ i # 0
    OBVIOUS
  <2> QED
    BY <1>5, <2>1
<1> DEFINE P(i) == i <= n => Bound[i] \in Nat
           G == {i \in Nat : P(i)}
<1>8. P(0)
  BY <1>6
<1>9. ASSUME NEW i \in Nat, P(i) PROVE P(i + 1)
  <2> SUFFICES ASSUME i + 1 <= n PROVE Bound[i + 1] \in Nat
    OBVIOUS
  <2>1. PICK k \in Nat : k = Bound[i]
    BY <1>9
  <2>2. Bound[i + 1] = (k * 14142) \div 10000
    <3>1. i + 1 \in 1..n /\ (i + 1) - 1 = i
      OBVIOUS
    <3> QED
      BY <1>7, <2>1, <3>1
  <2>3. k * 14142 \in Nat
    OBVIOUS
  <2> QED
    BY <2>2, <2>3, DivMod
<1>10. Nat \subseteq G
  <2> HIDE DEF P
  <2>1. 0 \in G /\ \A i \in Nat : i \in G => i + 1 \in G
    BY <1>8, <1>9
  <2> HIDE DEF G
  <2> QED
    BY <2>1, NatInd
<1> QED
  BY <1>0, <1>6, <1>7, <1>10

\* A bound is between 1.4142 times the one before, and that rounded down.
LEMMA NextBound ==
  ASSUME NEW b \in Nat, NEW c \in Nat, c = (b * 14142) \div 10000
  PROVE  10000 * c <= 14142 * b /\ 14142 * b < 10000 * c + 10000
<1>1. PICK x \in Nat : x = b * 14142
  OBVIOUS
<1>2. x % 10000 \in Nat /\ x % 10000 < 10000 /\ x = (x \div 10000) * 10000 + (x % 10000)
  BY <1>1, DivMod
<1> QED
  BY <1>1, <1>2

\* The squares of the bounds: not above the power of two, and, as long as there
\* are at most 5000 buckets, hardly below it.
LEMMA BoundSquares ==
  \A i \in 0..count_bucket :
    /\ Bound[i] * Bound[i] <= 1000000 * Pow2[i]
    /\ i <= 5000 => /\ Bound[i] >= 1000
                    /\ 994009 * (50000 - i) * Pow2[i] <= 50000 * ((Bound[i] - 3) * (Bound[i] - 3))
<1> DEFINE P(i) == i <= count_bucket =>
                     /\ Bound[i] * Bound[i] <= 1000000 * Pow2[i]
                     /\ i <= 5000 => /\ Bound[i] >= 1000
                                     /\ 994009 * (50000 - i) * Pow2[i] <=
                                          50000 * ((Bound[i] - 3) * (Bound[i] - 3))
           G == {i \in Nat : P(i)}
<1>0. count_bucket \in Nat
  BY IndexGrows
<1>1. P(0)
  BY Bounds, Powers
<1>2. ASSUME NEW i \in Nat, P(i) PROVE P(i + 1)
  <2> SUFFICES ASSUME i + 1 <= count_bucket
               PROVE  /\ Bound[i + 1] * Bound[i + 1] <= 1000000 * Pow2[i + 1]
                      /\ i + 1 <= 5000 =>
                           /\ Bound[i + 1] >= 1000
                           /\ 994009 * (50000 - (i + 1)) * Pow2[i + 1] <=
                                50000 * ((Bound[i + 1] - 3) * (Bound[i + 1] - 3))
    OBVIOUS
  <2>1. PICK b \in Nat : b = Bound[i]
    BY <1>0, Bounds
  <2>2. PICK c \in Nat : c = Bound[i + 1]
    BY <1>0, Bounds
  <2>3. PICK w \in Nat : w = Pow2[i]
    BY Powers
  <2>4. Pow2[i + 1] = 2 * w
    BY <2>3, Powers
  <2>5. 10000 * c <= 14142 * b /\ 14142 * b < 10000 * c + 10000
    <3>1. i + 1 \in 1..count_bucket /\ (i + 1) - 1 = i
      BY <1>0
    <3>2. c = (b * 14142) \div 10000
      BY <2>1, <2>2, <3>1, Bounds
    <3> QED
      BY <3>2, NextBound
  <2>6. c * c <= 1000000 * (2 * w)
    <3>1. b * b <= 1000000 * w
      BY <1>2, <1>0, <2>1, <2>3
    <3>2. (10000 * c) * (10000 * c) <= (14142 * b) * (14142 * b)
      <4>1. PICK x \in Nat, y \in Nat : x = 10000 * c /\ y = 14142 * b /\ x <= y
        BY <2>5
      <4>2. x * x <= x * y /\ y * x <= y * y
        BY <4>1, MulMono
      <4>3. x * y = y * x /\ x * x \in Nat /\ x * y \in Nat /\ y * y \in Nat
        OBVIOUS
      <4>4. x * x <= y * y
        BY <4>2, <4>3
      <4> QED
        BY <4>1, <4>4
    <3>3. PICK p \in Nat, q \in Nat : p = c * c /\ q = b * b
      OBVIOUS
    <3>4. 100000000 * p <= 199996164 * q
      BY <3>2, <3>3
    <3> QED
      BY <3>1, <3>3, <3>4
  <2>7. ASSUME i + 1 <= 5000
        PROVE  /\ c >= 1000
               /\ 994009 * (50000 - (i + 1)) * (2 * w) <= 50000 * ((c - 3) * (c - 3))
    <3>1. b >= 1000 /\ 994009 * (50000 - i) * w <= 50000 * ((b - 3) * (b - 3))
      BY <1>0, <1>2, <2>1, <2>3, <2>7
    <3>2. c >= 1000
      BY <2>5, <3>1
    <3>3. PICK x \in Nat, y \in Nat : x = b - 3 /\ y = c - 3
      BY <3>1, <3>2
    <3>4. 14142 * x <= 10000 * y
      BY <2>5, <3>1, <3>3
    <3>5. (14142 * x) * (14142 * x) <= (10000 * y) * (10000 * y)
      <4>1. PICK k \in Nat, l \in Nat : k = 14142 * x /\ l = 10000 * y /\ k <= l
        BY <3>4
      <4>2. k * k <= k * l /\ l * k <= l * l
        BY <4>1, MulMono
      <4>3. k * l = l * k /\ k * k \in Nat /\ k * l \in Nat /\ l * l \in Nat
        OBVIOUS
      <4>4. k * k <= l * l
        BY <4>2, <4>3
      <4> QED
        BY <4>1, <4>4
    <3>6. PICK p \in Nat, q \in Nat : p = x * x /\ q = y * y
      OBVIOUS
    <3>7. 199996164 * p <= 100000000 * q
      BY <3>5, <3>6
    <3>8. PICK m \in Nat : m = 50000 - i /\ m <= 50000
      BY <2>7
    <3>9. PICK z \in Nat : z = m * w
      OBVIOUS
    <3>10. 994009 * z <= 50000 * p
      <4>1. 994009 * m * w = 994009 * z
        BY <3>9
      <4> QED
        BY <3>1, <3>3, <3>6, <3>8, <4>1
    <3>11. (m - 1) * w = z - w
      BY <3>9
    <3>12. z <= 50000 * w
      <4>1. w * m <= w * 50000
        BY <3>8, MulMono
      <4> QED
        BY <3>9, <4>1
    <3>13. 994009 * (2 * (z - w)) <= 50000 * q
      BY <3>7, <3>10, <3>12
    <3>14. 994009 * (50000 - (i + 1)) * (2 * w) = 994009 * (2 * (z - w))
      <4>1. 50000 - (i + 1) = m - 1
        BY <3>8
      <4>2. 994009 * (m - 1) * (2 * w) = 994009 * (2 * ((m - 1) * w))
        OBVIOUS
      <4> QED
        BY <3>11, <4>1, <4>2
    <3> QED
      BY <3>2, <3>3, <3>6, <3>13, <3>14
  <2> QED
    BY <2>2, <2>4, <2>6, <2>7
<1>3. Nat \subseteq G
  <2> HIDE DEF P
  <2>1. 0 \in G /\ \A i \in Nat : i \in G => i + 1 \in G
    BY <1>1, <1>2
  <2> HIDE DEF G
  <2> QED
    BY <2>1, NatInd
<1> QED
  BY <1>0, <1>3

\* Each bucket adds its own latencies.
LEMMA CumulativeNext ==
  ASSUME CountInv, NEW i \in BucketIds, i > 0
  PROVE  /\ i - 1 \in BucketIds /\ buckets[i] \in Nat
         /\ Cumulative(i) \in Nat /\ Cumulative(i - 1) \in Nat
         /\ Cumulative(i) = Cumulative(i - 1) + buckets[i]
<1>1. buckets \in [BucketIds -> Nat] /\ i \in Nat /\ i - 1 \in BucketIds
  <2>1. count_bucket \in Nat
    BY IndexGrows
  <2>2. i \in Nat /\ i - 1 \in BucketIds
    BY <2>1 DEF BucketIds
  <2> QED
    BY <2>2 DEF CountInv
<1> DEFINE f == [j \in BucketIds |-> IF j <= i - 1 THEN buckets[j] ELSE 0]
           e == [j \in BucketIds |-> IF j <= i THEN buckets[j] ELSE 0]
<1>2. f \in [BucketIds -> Int] /\ e \in [BucketIds -> Int]
  BY <1>1
<1>3. \A j \in BucketIds \ {i} : e[j] = f[j]
  <2>1. \A j \in BucketIds : j \in Nat
    BY HistSets
  <2>2. \A j \in BucketIds \ {i} : j <= i <=> j <= i - 1
    BY <1>1, <2>1
  <2> QED
    BY <2>2
<1>4. e[i] - f[i] = buckets[i]
  BY <1>1
<1>5. Cumulative(i) = SumFunction(e) /\ Cumulative(i - 1) = SumFunction(f)
  BY DEF Cumulative
<1>6. \A j \in BucketIds : Cumulative(j) \in Nat
  BY Shares DEF CountInv
<1> HIDE DEF e, f
<1>7. SumFunction(e) = SumFunction(f) + (e[i] - f[i])
  BY <1>2, <1>3, HistSets, SumUpdate
<1> QED
  BY <1>1, <1>4, <1>5, <1>6, <1>7

\* The interpolation stays between the bounds it starts from.
LEMMA Interpolated ==
  ASSUME NEW l \in Nat, NEW u \in Nat, l <= u, NEW x \in Nat, NEW z \in Nat, x <= z, z > 0
  PROVE  l <= l + ((u - l) * x) \div z /\ l + ((u - l) * x) \div z <= u
<1>1. PICK d \in Nat : d = u - l
  OBVIOUS
<1>2. PICK m \in Nat : m = d * x
  OBVIOUS
<1>3. PICK q \in Nat, r \in Nat : q = m \div z /\ r = m % z /\ m = q * z + r
  BY DivMod
<1>4. q <= d
  <2>1. SUFFICES ASSUME d < q PROVE FALSE
    BY <1>3
  <2>2. d * x <= d * z
    BY MulMono
  <2>3. z * (d + 1) <= z * q
    BY <2>1, MulMono
  <2>4. PICK k \in Nat, n \in Nat : k = d * z /\ n = q * z
    OBVIOUS
  <2>5. z * (d + 1) = k + z /\ z * q = n
    BY <2>4
  <2> QED
    BY <1>2, <1>3, <2>2, <2>3, <2>4, <2>5
<1> QED
  BY <1>1, <1>2, <1>3, <1>4

\* The percentile reported is in the bucket that get_percentile stops at, unless
\* the bound of the bucket is cut off.
LEMMA PercentileInBucket ==
  ASSUME CountInv, count_values > 0, NEW y \in Fractions, Stop(y) > 0,
         ~(Bound[Stop(y) + 1] > count_values * 1000)
  PROVE  /\ get_percentile(y) \in Nat
         /\ Bound[Stop(y)] <= get_percentile(y) /\ get_percentile(y) <= Bound[Stop(y) + 1]
<1>1. PICK i \in BucketIds : i = Stop(y)
  BY StopRight
<1>2. /\ i > 0 /\ i \in Nat /\ i <= count_bucket - 1 /\ count_bucket \in Nat
      /\ i \in 0..count_bucket /\ i + 1 \in 1..count_bucket
  BY <1>1, IndexGrows DEF BucketIds
<1>3. PICK b \in Nat, u \in Nat : b = Bound[i] /\ u = Bound[i + 1]
  BY <1>2, Bounds
<1>4. b <= u
  <2>1. b >= 1000
    BY <1>2, <1>3, BoundSquares, BucketsAssumption
  <2>2. u = (b * 14142) \div 10000
    <3>1. (i + 1) - 1 = i
      BY <1>2
    <3> QED
      BY <1>2, <1>3, <3>1, Bounds
  <2>3. 14142 * b < 10000 * u + 10000
    BY <2>2, NextBound
  <2> QED
    BY <2>1, <2>3
<1>5. PICK V \in Nat : V = count_values /\ V > 0
  BY Shares
<1>6. PICK a \in Nat, c \in Nat : a = y[1] /\ c = y[2] /\ a > 0 /\ a < c
  <2>1. y[1] \in Nat /\ y[2] \in Nat /\ y[1] > 0 /\ y[1] < y[2]
    BY PercentileAssumption
  <2> QED
    BY <2>1
<1>7. PICK k \in Nat, g \in Nat :
        /\ k = buckets[i] /\ g = Cumulative(i - 1) /\ Cumulative(i) = g + k
        /\ i - 1 \in BucketIds
  BY <1>2, CumulativeNext
<1>8. (g + k) * c >= a * V
  <2>1. Reaches(i, y)
    BY <1>1, StopRight
  <2> QED
    BY <2>1, <1>5, <1>6, <1>7 DEF Reaches
<1>9. g * c < a * V
  <2>1. ~Reaches(i - 1, y)
    <3>1. Reaches(i - 1, y) => i <= i - 1
      BY <1>1, <1>7, StopRight
    <3> QED
      BY <1>2, <3>1
  <2>2. ~(g * c >= a * V)
    BY <2>1, <1>5, <1>6, <1>7 DEF Reaches
  <2>3. g * c \in Nat /\ a * V \in Nat
    OBVIOUS
  <2> QED
    BY <2>2, <2>3
<1>10. PICK x \in Nat : x = a * V - g * c /\ x > 0
  <2>1. PICK m \in Nat, n \in Nat : m = a * V /\ n = g * c
    OBVIOUS
  <2> QED
    BY <1>9, <2>1
<1>11. PICK z \in Nat : z = c * k
  OBVIOUS
<1>12. x <= z
  <2>1. (g + k) * c = g * c + c * k
    OBVIOUS
  <2>2. PICK m \in Nat, n \in Nat : m = a * V /\ n = g * c
    OBVIOUS
  <2> QED
    BY <1>8, <1>10, <1>11, <2>1, <2>2
<1>13. Lower(i) = b /\ Upper(i) = u
  <2>1. Lower(i) = b
    BY <1>2, <1>3 DEF Lower
  <2>2. u <= V * 1000 /\ V * 1000 \in Nat
    BY <1>1, <1>3, <1>5
  <2>3. PICK t \in Nat : t = V * 1000
    BY <2>2
  <2>4. Upper(i) = Min({u, t})
    BY <1>3, <1>5, <2>3 DEF Upper
  <2>5. {u, t} \subseteq Nat /\ {u, t} # {}
    OBVIOUS
  <2>6. Min({u, t}) \in {u, t} /\ \A n \in {u, t} : Min({u, t}) <= n
    BY <2>5, MinIsLeast
  <2>7. Min({u, t}) = u
    BY <2>2, <2>3, <2>6
  <2> QED
    BY <2>1, <2>4, <2>7
<1>14. get_percentile(y) = b + ((u - b) * x) \div z
  BY <1>1, <1>2, <1>5, <1>6, <1>7, <1>10, <1>11, <1>13 DEF get_percentile
<1>15. z > 0
  BY <1>10, <1>12
<1>16. b <= b + ((u - b) * x) \div z /\ b + ((u - b) * x) \div z <= u
  BY <1>4, <1>12, <1>15, Interpolated
<1>17. b + ((u - b) * x) \div z \in Nat
  <2>1. (u - b) * x \in Nat
    BY <1>4
  <2> QED
    BY <2>1, <1>15, DivMod
<1> QED
  BY <1>1, <1>3, <1>14, <1>16, <1>17

\* Squares are ordered as their roots.
LEMMA Roots ==
  ASSUME NEW x \in Nat, NEW y \in Nat, x * x <= y * y
  PROVE  x <= y
<1>1. SUFFICES ASSUME y < x PROVE FALSE
  OBVIOUS
<1>2. x * (y + 1) <= x * x /\ (y + 1) * y <= (y + 1) * x
  BY <1>1, MulMono
<1>3. PICK p \in Nat, q \in Nat, r \in Nat : p = x * x /\ q = y * y /\ r = x * y
  OBVIOUS
<1>4. x * (y + 1) = r + x /\ (y + 1) * y = q + y /\ (y + 1) * x = r + x
  BY <1>3
<1> QED
  BY <1>1, <1>2, <1>3, <1>4

\* A value in the bucket of a latency is the latency up to a factor of 3/2.
LEMMA BucketNarrow ==
  ASSUME NEW v \in Nat, v >= 2, v <= MaxLatency, NEW p \in Nat,
         Bound[Index(v)] <= p, p <= Bound[Index(v) + 1]
  PROVE  2 * p <= 3 * 1000 * v /\ 2 * 1000 * v <= 3 * p
<1>1. PICK i \in Nat : i = LogIndex(v) /\ i = Index(v) /\ i + 1 <= count_bucket
  <2>1. MaxLatency \in Nat
    BY PercentileAssumption
  <2>2. LogIndex(v) <= LogIndex(MaxLatency) /\ LogIndex(v) \in Nat /\ LogIndex(MaxLatency) \in Nat
    BY <2>1, LogIndexGrows, LogIndexIs
  <2>3. PICK l \in Nat, m \in Nat : l = LogIndex(v) /\ m = count_bucket - 1 /\ l <= m
    BY <2>2 DEF count_bucket
  <2>4. Index(v) = Min({l, m})
    BY <2>3 DEF Index
  <2>5. {l, m} \subseteq Nat /\ {l, m} # {}
    OBVIOUS
  <2>6. Min({l, m}) \in {l, m} /\ \A n \in {l, m} : Min({l, m}) <= n
    BY <2>5, MinIsLeast
  <2>7. Min({l, m}) = l
    BY <2>3, <2>6
  <2> QED
    BY <2>3, <2>4, <2>7, IndexGrows
<1>2. PICK w \in Nat : w = Pow2[i]
  BY Powers
<1>3. Pow2[i + 1] = 2 * w
  BY <1>2, Powers
<1>4. PICK q \in Nat : q = v * v /\ w <= q /\ q < 2 * w
  <2>1. PICK s \in Nat : s = v * v
    OBVIOUS
  <2>2. Pow2[LogIndex(v)] <= v * v /\ v * v < Pow2[LogIndex(v) + 1]
    BY LogIndexIs
  <2> QED
    BY <1>1, <1>2, <1>3, <2>1, <2>2
<1>5. count_bucket \in Nat /\ i \in 0..count_bucket /\ i + 1 \in 0..count_bucket /\ i <= 5000
  BY <1>1, IndexGrows, BucketsAssumption
<1>6. PICK b \in Nat, u \in Nat : b = Bound[i] /\ u = Bound[i + 1] /\ b <= p /\ p <= u
  BY <1>1, <1>5, Bounds
<1>7. 2 * u <= 3000 * v
  <2>1. u * u <= 1000000 * (2 * w)
    BY <1>3, <1>5, <1>6, BoundSquares
  <2>2. PICK s \in Nat : s = u * u
    OBVIOUS
  <2>3. (2 * u) * (2 * u) = 4 * s /\ (3000 * v) * (3000 * v) = 9000000 * q
    BY <1>4, <2>2
  <2>4. (2 * u) * (2 * u) <= (3000 * v) * (3000 * v)
    BY <1>4, <2>1, <2>2, <2>3
  <2>5. 2 * u \in Nat /\ 3000 * v \in Nat
    OBVIOUS
  <2> QED
    BY <2>4, <2>5, Roots
<1>8. 2000 * v <= 3 * b
  <2>1. b >= 1000 /\ 994009 * (50000 - i) * w <= 50000 * ((b - 3) * (b - 3))
    BY <1>2, <1>5, <1>6, BoundSquares
  <2>2. PICK x \in Nat : x = b - 3
    BY <2>1
  <2>3. PICK s \in Nat : s = x * x
    OBVIOUS
  <2>4. 894608 * w <= s
    <3>1. PICK m \in Nat : m = 50000 - i /\ 45000 <= m
      BY <1>5
    <3>2. w * 45000 <= w * m
      BY <3>1, MulMono
    <3>3. PICK z \in Nat : z = m * w
      OBVIOUS
    <3>4. 994009 * m * w = 994009 * z
      BY <3>3
    <3>5. 994009 * z <= 50000 * s
      BY <2>1, <2>2, <2>3, <3>1, <3>4
    <3> QED
      BY <3>2, <3>3, <3>5
  <2>5. (2000 * v) * (2000 * v) = 4000000 * q /\ (3 * x) * (3 * x) = 9 * s
    BY <1>4, <2>3
  <2>6. (2000 * v) * (2000 * v) <= (3 * x) * (3 * x)
    BY <1>4, <2>4, <2>5
  <2>7. 2000 * v <= 3 * x
    <3>1. 2000 * v \in Nat /\ 3 * x \in Nat
      OBVIOUS
    <3> QED
      BY <2>6, <3>1, Roots
  <2> QED
    BY <2>2, <2>7
<1> QED
  BY <1>6, <1>7, <1>8

\* The counters of the histogram are enough to report a percentile that is near
\* the sample.
LEMMA CountsNear == CountInv => PercentileNear
<1> SUFFICES ASSUME CountInv, NEW y \in Fractions, count_values > 0,
                    ~(Sample(y) < 2), ~(Sample(y) > MaxLatency),
                    ~(Bound[Stop(y) + 1] > count_values * 1000)
             PROVE  /\ 2 * get_percentile(y) <= 3 * 1000 * Sample(y)
                    /\ 2 * 1000 * Sample(y) <= 3 * get_percentile(y)
  BY DEF PercentileNear
<1>1. PICK v \in Nat : v = Sample(y) /\ v \in Latencies
  BY StopRight, HistSets
<1>2. v >= 2 /\ v <= MaxLatency
  BY <1>1, PercentileAssumption
<1>3. Stop(y) = Index(v)
  BY <1>1, StopRight
<1>4. Index(v) > 0
  <2>1. MaxLatency \in Nat
    BY PercentileAssumption
  <2>2. Index(2) <= Index(v) /\ Index(v) \in Nat
    BY <1>2, IndexGrows DEF BucketIds
  <2>3. LogIndex(2) <= LogIndex(MaxLatency) /\ LogIndex(2) \in Nat /\ LogIndex(MaxLatency) \in Nat
    BY <1>2, <2>1, LogIndexGrows, LogIndexIs
  <2>4. LogIndex(2) # 0
    <3>1. 2 * 2 < Pow2[LogIndex(2) + 1]
      BY LogIndexIs
    <3>2. Pow2[0 + 1] = 2
      BY Powers
    <3> QED
      BY <3>1, <3>2
  <2>5. PICK l \in Nat, m \in Nat : l = LogIndex(2) /\ m = count_bucket - 1 /\ l <= m /\ l > 0
    BY <2>3, <2>4 DEF count_bucket
  <2>6. Index(2) = Min({l, m})
    BY <2>5 DEF Index
  <2>7. {l, m} \subseteq Nat /\ {l, m} # {}
    OBVIOUS
  <2>8. Min({l, m}) \in {l, m}
    BY <2>7, MinIsLeast
  <2> QED
    BY <2>2, <2>5, <2>6, <2>8
<1>5. PICK p \in Nat : p = get_percentile(y) /\ Bound[Index(v)] <= p /\ p <= Bound[Index(v) + 1]
  BY <1>3, <1>4, PercentileInBucket
<1>6. 2 * p <= 3 * 1000 * v /\ 2 * 1000 * v <= 3 * p
  BY <1>2, <1>5, BucketNarrow
<1> QED
  BY <1>1, <1>5, <1>6

\* The percentile reported is the sample up to a factor of 3/2, where the sample
\* is in the range of the histogram, for every set of latencies, every fraction
\* and every largest latency that a float can hold.
THEOREM PercentileNearHolds == HistSpec => []PercentileNear
<1>1. HistSpec => []CountInv
  BY CountInit, CountStep, PTL DEF HistSpec
<1> QED
  BY <1>1, CountsNear, PTL

-----------------------------------------------------------------------------
(* The bytes of a frame.                                                    *)

\* A piece is a name and a length.
Pieces ==
  {"eth", "ip", "udp", "tcp", "nops", "opt", "stamp", "text"} \X Nat

\* The bytes of the first n pieces.
Before(s, n) == Length(SubSeq(s, 1, n))

\* A piece that is appended adds its bytes.
LEMMA LengthAppend ==
  /\ Length(<<>>) = 0
  /\ \A s \in Seq(Pieces) : Length(s) \in Nat
  /\ \A s \in Seq(Pieces) : \A e \in Pieces : Length(Append(s, e)) = Length(s) + e[2]
<1> DEFINE l(s) == [i \in 1..Len(s) |-> s[i][2]]
<1>1. \A s : Length(s) = SumFunction(l(s))
  BY DEF Length
<1>2. ASSUME NEW s \in Seq(Pieces)
      PROVE  /\ Len(s) \in Nat /\ IsFiniteSet(1..Len(s))
             /\ l(s) \in [1..Len(s) -> Nat] /\ l(s) \in [1..Len(s) -> Int]
  <2>1. Len(s) \in Nat /\ \A i \in 1..Len(s) : s[i] \in Pieces
    BY LenProperties, ElementOfSeq
  <2>2. \A i \in 1..Len(s) : s[i][2] \in Nat
    BY <2>1 DEF Pieces
  <2>3. IsFiniteSet(1..Len(s))
    BY <2>1, FS_Interval
  <2> QED
    BY <2>1, <2>2, <2>3
<1>3. ASSUME NEW s \in Seq(Pieces) PROVE Length(s) \in Nat
  <2> HIDE DEF l
  <2> QED
    BY <1>1, <1>2, SumOfNats
<1>4. Length(<<>>) = 0
  <2>1. <<>> \in Seq(Pieces) /\ Len(<<>>) = 0
    BY EmptySeq
  <2>2. \A x \in 1..Len(<<>>) : l(<<>>)[x] = 0
    BY <2>1
  <2> HIDE DEF l
  <2> QED
    BY <1>1, <1>2, <2>1, <2>2, SumOfNats
<1>5. ASSUME NEW s \in Seq(Pieces), NEW e \in Pieces
      PROVE  Length(Append(s, e)) = Length(s) + e[2]
  <2>1. PICK t : t = Append(s, e) /\ t \in Seq(Pieces)
    BY AppendProperties
  <2>2. PICK n \in Nat : n = Len(s)
    BY LenProperties
  <2>3. Len(t) = n + 1 /\ t[n + 1] = e /\ \A i \in 1..n : t[i] = s[i]
    BY <2>1, <2>2, AppendProperties
  <2>4. l(s) \in [1..n -> Int] /\ l(t) \in [1..(n + 1) -> Int]
    <3> HIDE DEF l
    <3> QED
      BY <1>2, <2>1, <2>2, <2>3
  <2>5. (\A x \in 1..n : l(s)[x] = l(t)[x]) /\ l(t)[n + 1] = e[2]
    BY <2>2, <2>3
  <2> HIDE DEF l
  <2>6. SumFunction(l(t)) = SumFunction(l(s)) + l(t)[n + 1]
    BY <2>4, <2>5, SumLast
  <2> QED
    BY <1>1, <2>1, <2>5, <2>6
<1> QED
  BY <1>3, <1>4, <1>5

\* The bytes of two frames one after the other.
LEMMA LengthConcat ==
  ASSUME NEW s \in Seq(Pieces), NEW t \in Seq(Pieces)
  PROVE  Length(s \o t) = Length(s) + Length(t)
<1> DEFINE Z == {u \in Seq(Pieces) : Length(s \o u) = Length(s) + Length(u)}
<1>1. <<>> \in Z
  <2>1. s \o <<>> = s /\ <<>> \in Seq(Pieces)
    BY ConcatEmptySeq, EmptySeq
  <2>2. Length(s \o <<>>) = Length(s) + Length(<<>>)
    BY <2>1, LengthAppend
  <2> QED
    BY <2>1, <2>2
<1>2. ASSUME NEW u \in Seq(Pieces), u \in Z, NEW e \in Pieces PROVE Append(u, e) \in Z
  <2>1. s \o u \in Seq(Pieces) /\ Append(u, e) \in Seq(Pieces)
    BY ConcatProperties, AppendProperties
  <2>2. s \o Append(u, e) = Append(s \o u, e)
    BY ConcatAppend
  <2>3. Length(Append(s \o u, e)) = Length(s \o u) + e[2]
    BY <2>1, LengthAppend
  <2>4. Length(Append(u, e)) = Length(u) + e[2]
    BY LengthAppend
  <2>5. Length(s \o u) = Length(s) + Length(u)
    BY <1>2
  <2>6. Length(s) \in Nat /\ Length(u) \in Nat /\ e[2] \in Nat
    BY LengthAppend DEF Pieces
  <2>7. Length(s \o Append(u, e)) = Length(s) + Length(Append(u, e))
    BY <2>2, <2>3, <2>4, <2>5, <2>6
  <2> QED
    BY <2>1, <2>7
<1>3. Seq(Pieces) \subseteq Z
  <2> HIDE DEF Z
  <2> QED
    BY <1>1, <1>2, SeqInd
<1> QED
  BY <1>3

\* The bytes before a piece, one piece after the other, and those from a piece
\* to the end.
LEMMA BeforeNext ==
  ASSUME NEW s \in Seq(Pieces)
  PROVE  /\ Before(s, 0) = 0
         /\ \A n \in 0..Len(s) : Before(s, n) \in Nat
         /\ \A n \in 0..(Len(s) - 1) : Before(s, n + 1) = Before(s, n) + s[n + 1][2]
         /\ Before(s, Len(s)) = Length(s)
         /\ \A n \in 0..Len(s) : Length(SubSeq(s, n + 1, Len(s))) = Length(s) - Before(s, n)
<1>0. Len(s) \in Nat
  BY LenProperties
<1>1. Before(s, 0) = 0
  <2>1. Len(SubSeq(s, 1, 0)) = 0 /\ SubSeq(s, 1, 0) \in Seq(Pieces)
    BY <1>0, Cut
  <2>2. SubSeq(s, 1, 0) = <<>>
    BY <2>1, EmptySeq
  <2> QED
    BY <2>2, LengthAppend DEF Before
<1>2. ASSUME NEW n \in 0..Len(s) PROVE Before(s, n) \in Nat
  BY Cut, LengthAppend DEF Before
<1>3. ASSUME NEW n \in 0..(Len(s) - 1) PROVE Before(s, n + 1) = Before(s, n) + s[n + 1][2]
  <2>1. SubSeq(s, 1, n) \in Seq(Pieces) /\ Len(SubSeq(s, 1, n)) = n
    BY <1>0, Cut
  <2>2. s[n + 1] \in Pieces
    BY <1>0, ElementOfSeq
  <2>3. SubSeq(s, 1, n + 1) = Append(SubSeq(s, 1, n), s[n + 1])
    BY <1>0
  <2> QED
    BY <2>1, <2>2, <2>3, LengthAppend DEF Before
<1>4. ASSUME NEW n \in 0..Len(s)
      PROVE  Length(SubSeq(s, n + 1, Len(s))) = Length(s) - Before(s, n)
  <2> DEFINE a == SubSeq(s, 1, n)
             b == SubSeq(s, n + 1, Len(s))
  <2>1. a \in Seq(Pieces) /\ b \in Seq(Pieces) /\ s = a \o b
    BY Cut
  <2> HIDE DEF a, b
  <2>2. Length(s) = Length(a) + Length(b)
    BY <2>1, LengthConcat
  <2>3. Length(a) \in Nat /\ Length(b) \in Nat
    BY <2>1, LengthAppend
  <2>4. Length(b) = Length(s) - Length(a)
    BY <2>2, <2>3
  <2> QED
    BY <2>4 DEF Before, a, b
<1>5. Before(s, Len(s)) = Length(s)
  <2>1. SubSeq(s, 1, Len(s)) = s
    BY <1>0
  <2> QED
    BY <2>1 DEF Before
<1> QED
  BY <1>1, <1>2, <1>3, <1>4, <1>5

-----------------------------------------------------------------------------
(* The frames that are built.                                               *)

\* The headers of the three kinds of packets.
Headers ==
  IF ~tcp THEN <<<<"eth", 14>>, <<"ip", 20>>, <<"udp", 8>>>>
  ELSE IF katran > 0
  THEN <<<<"eth", 14>>, <<"ip", 20>>, <<"tcp", 20>>, <<"nops", 2>>, <<"opt", 6>>>>
  ELSE <<<<"eth", 14>>, <<"ip", 20>>, <<"tcp", 20>>>>

\* The bytes of the headers after the IPv4 header.
Transport == IF ~tcp THEN 8 ELSE IF katran > 0 THEN 28 ELSE 20

\* What the length fields hold.
FieldsRight ==
  /\ total_length = 20 + Transport + info_length
  /\ ~tcp => dgram_len = 8 + info_length
  /\ tcp => data_off * 4 = Transport
  /\ tcp /\ katran > 0 => srv_id > 0

\* Offsets of three pieces.
LEMMA ThreeOffsets ==
  ASSUME NEW p1 \in Pieces,
         NEW p2 \in Pieces,
         NEW p3 \in Pieces
  PROVE  LET s == <<p1, p2, p3>>
         IN /\ s \in Seq(Pieces) /\ Len(s) = 3
            /\ Before(s, 0) = 0
            /\ Before(s, 1) = p1[2]
            /\ Before(s, 2) = p1[2] + p2[2]
            /\ Length(s) = p1[2] + p2[2] + p3[2]
<1> DEFINE s == <<p1, p2, p3>>
<1>1. s \in Seq(Pieces) /\ Len(s) = 3
  OBVIOUS
<1>2. /\ s[1] = p1 /\ p1[2] \in Nat
      /\ s[2] = p2 /\ p2[2] \in Nat
      /\ s[3] = p3 /\ p3[2] \in Nat
  BY DEF Pieces
<1> HIDE DEF s
<1>3. /\ Before(s, 0) = 0
      /\ \A n \in 0..2 : Before(s, n + 1) = Before(s, n) + s[n + 1][2]
      /\ Before(s, 3) = Length(s)
  <2>1. /\ Before(s, 0) = 0
        /\ \A n \in 0..(Len(s) - 1) : Before(s, n + 1) = Before(s, n) + s[n + 1][2]
        /\ Before(s, Len(s)) = Length(s)
    BY <1>1, BeforeNext
  <2> QED
    BY <1>1, <2>1
<1>4. Before(s, 1) = p1[2]
  <2>1. Before(s, 0 + 1) = Before(s, 0) + s[0 + 1][2]
    BY <1>3
  <2> QED
    BY <1>2, <1>3, <2>1
<1>5. Before(s, 2) = p1[2] + p2[2]
  <2>1. Before(s, 1 + 1) = Before(s, 1) + s[1 + 1][2]
    BY <1>3
  <2> QED
    BY <1>2, <1>4, <2>1
<1>6. Before(s, 3) = p1[2] + p2[2] + p3[2]
  <2>1. Before(s, 2 + 1) = Before(s, 2) + s[2 + 1][2]
    BY <1>3
  <2> QED
    BY <1>2, <1>5, <2>1
<1> QED
  BY <1>1, <1>3, <1>4, <1>5, <1>6 DEF s

\* Offsets of three headers and the two pieces of a payload.
LEMMA FiveOffsets ==
  ASSUME NEW p1 \in Pieces,
         NEW p2 \in Pieces,
         NEW p3 \in Pieces,
         NEW p4 \in Pieces,
         NEW p5 \in Pieces
  PROVE  LET s == <<p1, p2, p3, p4, p5>>
         IN /\ s \in Seq(Pieces) /\ Len(s) = 5
            /\ Before(s, 0) = 0
            /\ Before(s, 1) = p1[2]
            /\ Before(s, 2) = p1[2] + p2[2]
            /\ Before(s, 3) = p1[2] + p2[2] + p3[2]
            /\ Before(s, 4) = p1[2] + p2[2] + p3[2] + p4[2]
            /\ Length(s) = p1[2] + p2[2] + p3[2] + p4[2] + p5[2]
<1> DEFINE s == <<p1, p2, p3, p4, p5>>
<1>1. s \in Seq(Pieces) /\ Len(s) = 5
  OBVIOUS
<1>2. /\ s[1] = p1 /\ p1[2] \in Nat
      /\ s[2] = p2 /\ p2[2] \in Nat
      /\ s[3] = p3 /\ p3[2] \in Nat
      /\ s[4] = p4 /\ p4[2] \in Nat
      /\ s[5] = p5 /\ p5[2] \in Nat
  BY DEF Pieces
<1> HIDE DEF s
<1>3. /\ Before(s, 0) = 0
      /\ \A n \in 0..4 : Before(s, n + 1) = Before(s, n) + s[n + 1][2]
      /\ Before(s, 5) = Length(s)
  <2>1. /\ Before(s, 0) = 0
        /\ \A n \in 0..(Len(s) - 1) : Before(s, n + 1) = Before(s, n) + s[n + 1][2]
        /\ Before(s, Len(s)) = Length(s)
    BY <1>1, BeforeNext
  <2> QED
    BY <1>1, <2>1
<1>4. Before(s, 1) = p1[2]
  <2>1. Before(s, 0 + 1) = Before(s, 0) + s[0 + 1][2]
    BY <1>3
  <2> QED
    BY <1>2, <1>3, <2>1
<1>5. Before(s, 2) = p1[2] + p2[2]
  <2>1. Before(s, 1 + 1) = Before(s, 1) + s[1 + 1][2]
    BY <1>3
  <2> QED
    BY <1>2, <1>4, <2>1
<1>6. Before(s, 3) = p1[2] + p2[2] + p3[2]
  <2>1. Before(s, 2 + 1) = Before(s, 2) + s[2 + 1][2]
    BY <1>3
  <2> QED
    BY <1>2, <1>5, <2>1
<1>7. Before(s, 4) = p1[2] + p2[2] + p3[2] + p4[2]
  <2>1. Before(s, 3 + 1) = Before(s, 3) + s[3 + 1][2]
    BY <1>3
  <2> QED
    BY <1>2, <1>6, <2>1
<1>8. Before(s, 5) = p1[2] + p2[2] + p3[2] + p4[2] + p5[2]
  <2>1. Before(s, 4 + 1) = Before(s, 4) + s[4 + 1][2]
    BY <1>3
  <2> QED
    BY <1>2, <1>7, <2>1
<1> QED
  BY <1>1, <1>3, <1>4, <1>5, <1>6, <1>7, <1>8 DEF s

\* Offsets of the headers with the Katran option and of a payload.
LEMMA SevenOffsets ==
  ASSUME NEW s \in Seq(Pieces), Len(s) = 7
  PROVE  /\ Before(s, 0) = 0
         /\ Before(s, 1) = s[1][2]
         /\ Before(s, 2) = s[1][2] + s[2][2]
         /\ Before(s, 3) = s[1][2] + s[2][2] + s[3][2]
         /\ Before(s, 4) = s[1][2] + s[2][2] + s[3][2] + s[4][2]
         /\ Before(s, 5) = s[1][2] + s[2][2] + s[3][2] + s[4][2] + s[5][2]
         /\ Before(s, 6) = s[1][2] + s[2][2] + s[3][2] + s[4][2] + s[5][2] + s[6][2]
         /\ Length(s) = s[1][2] + s[2][2] + s[3][2] + s[4][2] + s[5][2] + s[6][2] + s[7][2]
<1>1. /\ s[1][2] \in Nat /\ s[2][2] \in Nat /\ s[3][2] \in Nat /\ s[4][2] \in Nat
      /\ s[5][2] \in Nat /\ s[6][2] \in Nat /\ s[7][2] \in Nat
  <2>1. \A i \in 1..7 : s[i] \in Pieces
    BY ElementOfSeq
  <2>2. \A i \in 1..7 : s[i][2] \in Nat
    BY <2>1 DEF Pieces
  <2> QED
    BY <2>2
<1>2. /\ Before(s, 0) = 0
      /\ \A n \in 0..6 : Before(s, n + 1) = Before(s, n) + s[n + 1][2]
      /\ Before(s, 7) = Length(s)
  <2>1. /\ Before(s, 0) = 0
        /\ \A n \in 0..(Len(s) - 1) : Before(s, n + 1) = Before(s, n) + s[n + 1][2]
        /\ Before(s, Len(s)) = Length(s)
    BY BeforeNext
  <2> QED
    BY <2>1
<1>3. Before(s, 1) = s[1][2]
  <2>1. Before(s, 0 + 1) = Before(s, 0) + s[0 + 1][2]
    BY <1>2
  <2> QED
    BY <1>1, <1>2, <2>1
<1>4. Before(s, 2) = s[1][2] + s[2][2]
  <2>1. Before(s, 1 + 1) = Before(s, 1) + s[1 + 1][2]
    BY <1>2
  <2> QED
    BY <1>1, <1>3, <2>1
<1>5. Before(s, 3) = s[1][2] + s[2][2] + s[3][2]
  <2>1. Before(s, 2 + 1) = Before(s, 2) + s[2 + 1][2]
    BY <1>2
  <2> QED
    BY <1>1, <1>4, <2>1
<1>6. Before(s, 4) = s[1][2] + s[2][2] + s[3][2] + s[4][2]
  <2>1. Before(s, 3 + 1) = Before(s, 3) + s[3 + 1][2]
    BY <1>2
  <2> QED
    BY <1>1, <1>5, <2>1
<1>7. Before(s, 5) = s[1][2] + s[2][2] + s[3][2] + s[4][2] + s[5][2]
  <2>1. Before(s, 4 + 1) = Before(s, 4) + s[4 + 1][2]
    BY <1>2
  <2> QED
    BY <1>1, <1>6, <2>1
<1>8. Before(s, 6) = s[1][2] + s[2][2] + s[3][2] + s[4][2] + s[5][2] + s[6][2]
  <2>1. Before(s, 5 + 1) = Before(s, 5) + s[5 + 1][2]
    BY <1>2
  <2> QED
    BY <1>1, <1>7, <2>1
<1>9. Before(s, 7) = s[1][2] + s[2][2] + s[3][2] + s[4][2] + s[5][2] + s[6][2] + s[7][2]
  <2>1. Before(s, 6 + 1) = Before(s, 6) + s[6 + 1][2]
    BY <1>2
  <2> QED
    BY <1>1, <1>8, <2>1
<1> QED
  BY <1>2, <1>3, <1>4, <1>5, <1>6, <1>7, <1>8, <1>9

\* The pieces of the headers are pieces.
LEMMA HeaderPieces ==
  /\ <<"eth", 14>> \in Pieces
  /\ <<"ip", 20>> \in Pieces
  /\ <<"udp", 8>> \in Pieces
  /\ <<"tcp", 20>> \in Pieces
  /\ <<"nops", 2>> \in Pieces
  /\ <<"opt", 6>> \in Pieces
  /\ <<"stamp", 8>> \in Pieces
  /\ \A n \in Nat : <<"text", n>> \in Pieces
  BY DEF Pieces

\* The bytes of the headers.
LEMMA HeaderBytes ==
  ASSUME tcp \in BOOLEAN, katran \in Nat
  PROVE  Length(Headers) = 34 + Transport
<1>1. CASE tcp /\ katran > 0
  <2>1. Length(<<<<"eth", 14>>, <<"ip", 20>>, <<"tcp", 20>>, <<"nops", 2>>, <<"opt", 6>>>>)
          = 14 + 20 + 20 + 2 + 6
    <3>1. PICK p1 \in Pieces, p2 \in Pieces, p3 \in Pieces, p4 \in Pieces, p5 \in Pieces :
            /\ p1 = <<"eth", 14>> /\ p2 = <<"ip", 20>> /\ p3 = <<"tcp", 20>>
            /\ p4 = <<"nops", 2>> /\ p5 = <<"opt", 6>>
      BY HeaderPieces
    <3>2. Length(<<p1, p2, p3, p4, p5>>) = p1[2] + p2[2] + p3[2] + p4[2] + p5[2]
      BY FiveOffsets
    <3> QED
      BY <3>1, <3>2
  <2> QED
    BY <1>1, <2>1 DEF Headers, Transport
<1>2. CASE tcp /\ ~(katran > 0)
  <2>1. Length(<<<<"eth", 14>>, <<"ip", 20>>, <<"tcp", 20>>>>) = 14 + 20 + 20
    BY ThreeOffsets, HeaderPieces
  <2> QED
    BY <1>2, <2>1 DEF Headers, Transport
<1>3. CASE ~tcp
  <2>1. Length(<<<<"eth", 14>>, <<"ip", 20>>, <<"udp", 8>>>>) = 14 + 20 + 8
    BY ThreeOffsets, HeaderPieces
  <2> QED
    BY <1>3, <2>1 DEF Headers, Transport
<1> QED
  BY <1>1, <1>2, <1>3

\* A piece of a name that no earlier piece has: the bytes from there.
LEMMA FromPiece ==
  ASSUME frame \in Seq(Pieces), NEW m \in 0..(Len(frame) - 1), NEW names,
         frame[m + 1][1] \in names, \A k \in 1..m : frame[k][1] \notin names
  PROVE  BytesFrom(names) = Length(frame) - Before(frame, m)
<1>1. PICK n \in Nat : n = Len(frame)
  BY LenProperties
<1>2. m + 1 \in 1..n /\ m \in 0..n
  BY <1>1
<1>3. ASSUME NEW j \in 1..n, frame[j][1] \in names,
             \A k \in 1..(j - 1) : frame[k][1] \notin names
      PROVE  j = m + 1
  <2>1. ~(j <= m)
    BY <1>3
  <2>2. ~(m + 1 < j)
    BY <1>2, <1>3
  <2> QED
    BY <1>2, <2>1, <2>2
<1>4. (CHOOSE j \in 1..n : frame[j][1] \in names /\
                           \A k \in 1..(j - 1) : frame[k][1] \notin names) = m + 1
  <2>1. \A k \in 1..((m + 1) - 1) : frame[k][1] \notin names
    OBVIOUS
  <2> QED
    BY <1>2, <1>3, <2>1
<1>5. BytesFrom(names) = Length(SubSeq(frame, m + 1, n))
  BY <1>1, <1>4 DEF BytesFrom
<1>6. Length(SubSeq(frame, m + 1, n)) = Length(frame) - Before(frame, m)
  BY <1>1, <1>2, BeforeNext
<1> QED
  BY <1>5, <1>6

\* A packet of the UDP build, or of the TCP build without the Katran option.
Plain(x, h, n) ==
  <<<<"eth", 14>>, <<"ip", 20>>, <<x, h>>, <<"stamp", 8>>, <<"text", n>>>>

\* A packet with the Katran option.
WithKatran(n) ==
  <<<<"eth", 14>>, <<"ip", 20>>, <<"tcp", 20>>, <<"nops", 2>>, <<"opt", 6>>,
    <<"stamp", 8>>, <<"text", n>>>>

\* The packet as it is sent.
Sent ==
  LET n == payload_length - 8
  IN IF ~tcp THEN Plain("udp", 8, n)
     ELSE IF katran > 0 THEN WithKatran(n) ELSE Plain("tcp", 20, n)

\* The inductive invariant: the frame and its length fields in every phase.
BuiltInv ==
  /\ tcp \in BOOLEAN /\ katran \in Nat /\ payload_length \in Nat
  /\ ppc \in {"payload", "sent", "echoed"} =>
       /\ 34 + Transport + info_length <= ROOM
       /\ FieldsRight
  /\ ppc = "payload" => frame = Headers
  /\ ppc \in {"sent", "echoed"} =>
       /\ payload_length >= 8 /\ payload_length = info_length
       /\ frame = Sent
  /\ ppc = "echoed" => stamp = PieceAt(StampOffset)

\* Where the pieces of a packet without the option are.
LEMMA PlainFrame ==
  ASSUME NEW x \in {"udp", "tcp"}, NEW h \in Nat, NEW n \in Nat, NEW s, s = Plain(x, h, n)
  PROVE  /\ s \in Seq(Pieces) /\ Len(s) = 5
         /\ Before(s, 0) = 0 /\ Before(s, 1) = 14 /\ Before(s, 2) = 34
         /\ Before(s, 3) = 34 + h /\ Before(s, 4) = 42 + h /\ Length(s) = 42 + h + n
<1>1. <<x, h>> \in Pieces
  BY DEF Pieces
<1>2. PICK p1, p2, p3, p4, p5 :
        /\ p1 = <<"eth", 14>> /\ p2 = <<"ip", 20>> /\ p3 = <<x, h>>
        /\ p4 = <<"stamp", 8>> /\ p5 = <<"text", n>>
  OBVIOUS
<1>3. s = <<p1, p2, p3, p4, p5>>
  BY <1>2 DEF Plain
<1>4. p1[2] = 14 /\ p2[2] = 20 /\ p3[2] = h /\ p4[2] = 8 /\ p5[2] = n
  BY <1>2
<1>5. p1 \in Pieces /\ p2 \in Pieces /\ p3 \in Pieces /\ p4 \in Pieces /\ p5 \in Pieces
  BY <1>1, <1>2, HeaderPieces
<1> DEFINE t == <<p1, p2, p3, p4, p5>>
<1>6. /\ t \in Seq(Pieces) /\ Len(t) = 5
      /\ Before(t, 0) = 0 /\ Before(t, 1) = p1[2] /\ Before(t, 2) = p1[2] + p2[2]
      /\ Before(t, 3) = p1[2] + p2[2] + p3[2] /\ Before(t, 4) = p1[2] + p2[2] + p3[2] + p4[2]
      /\ Length(t) = p1[2] + p2[2] + p3[2] + p4[2] + p5[2]
  BY <1>5, FiveOffsets
<1>7. s = t
  BY <1>3
<1> HIDE DEF t
<1> QED
  BY <1>4, <1>6, <1>7

\* Where the pieces of a packet with the option are.
LEMMA KatranFrame ==
  ASSUME NEW n \in Nat, NEW s, s = WithKatran(n)
  PROVE  /\ s \in Seq(Pieces) /\ Len(s) = 7
         /\ Before(s, 0) = 0 /\ Before(s, 1) = 14 /\ Before(s, 2) = 34
         /\ Before(s, 3) = 54 /\ Before(s, 4) = 56 /\ Before(s, 5) = 62
         /\ Before(s, 6) = 70 /\ Length(s) = 70 + n
<1>1. PICK p1, p2, p3, p4, p5, p6, p7 :
        /\ p1 = <<"eth", 14>> /\ p2 = <<"ip", 20>> /\ p3 = <<"tcp", 20>>
        /\ p4 = <<"nops", 2>> /\ p5 = <<"opt", 6>>
        /\ p6 = <<"stamp", 8>> /\ p7 = <<"text", n>>
  OBVIOUS
<1> DEFINE t == <<p1, p2, p3, p4, p5, p6, p7>>
<1>2. s = t
  BY <1>1 DEF WithKatran
<1>3. /\ p1[2] = 14 /\ p2[2] = 20 /\ p3[2] = 20 /\ p4[2] = 2 /\ p5[2] = 6
      /\ p6[2] = 8 /\ p7[2] = n
  BY <1>1
<1>4. /\ p1 \in Pieces /\ p2 \in Pieces /\ p3 \in Pieces /\ p4 \in Pieces
      /\ p5 \in Pieces /\ p6 \in Pieces /\ p7 \in Pieces
  BY <1>1, HeaderPieces
<1>5. t \in Seq(Pieces) /\ Len(t) = 7
  BY <1>4
<1>6. /\ t[1] = p1 /\ t[2] = p2 /\ t[3] = p3 /\ t[4] = p4 /\ t[5] = p5
      /\ t[6] = p6 /\ t[7] = p7
  OBVIOUS
<1> HIDE DEF t
<1>7. /\ Before(t, 0) = 0 /\ Before(t, 1) = 14 /\ Before(t, 2) = 34
      /\ Before(t, 3) = 54 /\ Before(t, 4) = 56 /\ Before(t, 5) = 62
      /\ Before(t, 6) = 70 /\ Length(t) = 70 + n
  BY <1>3, <1>5, <1>6, SevenOffsets, SMTT(60)
<1> QED
  BY <1>2, <1>5, <1>7

\* Two pieces more than three.
LEMMA FiveTuple ==
  ASSUME NEW a \in Pieces, NEW b \in Pieces, NEW c \in Pieces, NEW d \in Pieces,
         NEW e \in Pieces
  PROVE  <<a, b, c>> \o <<d, e>> = <<a, b, c, d, e>>
<1> DEFINE s == <<a, b, c>>
           t == <<d, e>>
           u == <<a, b, c, d, e>>
<1>1. s \in Seq(Pieces) /\ t \in Seq(Pieces) /\ u \in Seq(Pieces)
  OBVIOUS
<1>2. Len(s) = 3 /\ Len(t) = 2 /\ Len(u) = 5
  OBVIOUS
<1>3. \A i \in 1..5 : u[i] = IF i <= 3 THEN s[i] ELSE t[i - 3]
  OBVIOUS
<1> HIDE DEF s, t, u
<1>4. /\ s \o t \in Seq(Pieces) /\ Len(s \o t) = Len(s) + Len(t)
      /\ \A i \in 1..(Len(s) + Len(t)) : (s \o t)[i] = IF i <= Len(s) THEN s[i] ELSE t[i - Len(s)]
  BY <1>1, ConcatProperties
<1>5. Len(s \o t) = Len(u) /\ \A i \in 1..5 : (s \o t)[i] = u[i]
  BY <1>2, <1>3, <1>4
<1>6. s \o t = u
  BY <1>1, <1>2, <1>4, <1>5, SeqEqual
<1> QED
  BY <1>6 DEF s, t, u

\* Two pieces more than five.
LEMMA SevenTuple ==
  ASSUME NEW a \in Pieces, NEW b \in Pieces, NEW c \in Pieces, NEW d \in Pieces,
         NEW e \in Pieces, NEW f \in Pieces, NEW g \in Pieces
  PROVE  <<a, b, c, d, e>> \o <<f, g>> = <<a, b, c, d, e, f, g>>
<1> DEFINE s == <<a, b, c, d, e>>
           t == <<f, g>>
           u == <<a, b, c, d, e, f, g>>
<1>1. s \in Seq(Pieces) /\ t \in Seq(Pieces) /\ u \in Seq(Pieces)
  OBVIOUS
<1>2. Len(s) = 5 /\ Len(t) = 2 /\ Len(u) = 7
  OBVIOUS
<1>3. \A i \in 1..7 : u[i] = IF i <= 5 THEN s[i] ELSE t[i - 5]
  OBVIOUS
<1> HIDE DEF s, t, u
<1>4. /\ s \o t \in Seq(Pieces) /\ Len(s \o t) = Len(s) + Len(t)
      /\ \A i \in 1..(Len(s) + Len(t)) : (s \o t)[i] = IF i <= Len(s) THEN s[i] ELSE t[i - Len(s)]
  BY <1>1, ConcatProperties
<1>5. Len(s \o t) = Len(u) /\ \A i \in 1..7 : (s \o t)[i] = u[i]
  BY <1>2, <1>3, <1>4
<1>6. s \o t = u
  BY <1>1, <1>2, <1>4, <1>5, SeqEqual
<1> QED
  BY <1>6 DEF s, t, u

\* The headers with the option, and the packets, put together.
LEMMA Joined ==
  ASSUME NEW n \in Nat
  PROVE  /\ <<<<"eth", 14>>, <<"ip", 20>>, <<"tcp", 20>>>> \o
            <<<<"nops", 2>>, <<"opt", 6>>>> =
              <<<<"eth", 14>>, <<"ip", 20>>, <<"tcp", 20>>, <<"nops", 2>>, <<"opt", 6>>>>
         /\ <<<<"eth", 14>>, <<"ip", 20>>, <<"udp", 8>>>> \o
            <<<<"stamp", 8>>, <<"text", n>>>> = Plain("udp", 8, n)
         /\ <<<<"eth", 14>>, <<"ip", 20>>, <<"tcp", 20>>>> \o
            <<<<"stamp", 8>>, <<"text", n>>>> = Plain("tcp", 20, n)
         /\ <<<<"eth", 14>>, <<"ip", 20>>, <<"tcp", 20>>, <<"nops", 2>>, <<"opt", 6>>>> \o
            <<<<"stamp", 8>>, <<"text", n>>>> = WithKatran(n)
<1>1. <<<<"eth", 14>>, <<"ip", 20>>, <<"tcp", 20>>>> \o
     <<<<"nops", 2>>, <<"opt", 6>>>> =
       <<<<"eth", 14>>, <<"ip", 20>>, <<"tcp", 20>>, <<"nops", 2>>, <<"opt", 6>>>>
  <2>1. PICK a, b, c, d, e :
          /\ a = <<"eth", 14>>
          /\ b = <<"ip", 20>>
          /\ c = <<"tcp", 20>>
          /\ d = <<"nops", 2>>
          /\ e = <<"opt", 6>>
    OBVIOUS
  <2>2. /\ a \in Pieces
        /\ b \in Pieces
        /\ c \in Pieces
        /\ d \in Pieces
        /\ e \in Pieces
    BY <2>1, HeaderPieces
  <2>3. <<a, b, c>> \o <<d, e>> = <<a, b, c, d, e>>
    BY <2>2, FiveTuple
  <2> QED
    BY <2>1, <2>3
<1>2. <<<<"eth", 14>>, <<"ip", 20>>, <<"udp", 8>>>> \o
     <<<<"stamp", 8>>, <<"text", n>>>> = Plain("udp", 8, n)
  <2>1. PICK a, b, c, d, e :
          /\ a = <<"eth", 14>>
          /\ b = <<"ip", 20>>
          /\ c = <<"udp", 8>>
          /\ d = <<"stamp", 8>>
          /\ e = <<"text", n>>
    OBVIOUS
  <2>2. /\ a \in Pieces
        /\ b \in Pieces
        /\ c \in Pieces
        /\ d \in Pieces
        /\ e \in Pieces
    BY <2>1, HeaderPieces
  <2>3. <<a, b, c>> \o <<d, e>> = <<a, b, c, d, e>>
    BY <2>2, FiveTuple
  <2> QED
    BY <2>1, <2>3 DEF Plain
<1>3. <<<<"eth", 14>>, <<"ip", 20>>, <<"tcp", 20>>>> \o
     <<<<"stamp", 8>>, <<"text", n>>>> = Plain("tcp", 20, n)
  <2>1. PICK a, b, c, d, e :
          /\ a = <<"eth", 14>>
          /\ b = <<"ip", 20>>
          /\ c = <<"tcp", 20>>
          /\ d = <<"stamp", 8>>
          /\ e = <<"text", n>>
    OBVIOUS
  <2>2. /\ a \in Pieces
        /\ b \in Pieces
        /\ c \in Pieces
        /\ d \in Pieces
        /\ e \in Pieces
    BY <2>1, HeaderPieces
  <2>3. <<a, b, c>> \o <<d, e>> = <<a, b, c, d, e>>
    BY <2>2, FiveTuple
  <2> QED
    BY <2>1, <2>3 DEF Plain
<1>4. <<<<"eth", 14>>, <<"ip", 20>>, <<"tcp", 20>>, <<"nops", 2>>, <<"opt", 6>>>> \o
     <<<<"stamp", 8>>, <<"text", n>>>> = WithKatran(n)
  <2>1. PICK a, b, c, d, e, f, g :
          /\ a = <<"eth", 14>>
          /\ b = <<"ip", 20>>
          /\ c = <<"tcp", 20>>
          /\ d = <<"nops", 2>>
          /\ e = <<"opt", 6>>
          /\ f = <<"stamp", 8>>
          /\ g = <<"text", n>>
    OBVIOUS
  <2>2. /\ a \in Pieces
        /\ b \in Pieces
        /\ c \in Pieces
        /\ d \in Pieces
        /\ e \in Pieces
        /\ f \in Pieces
        /\ g \in Pieces
    BY <2>1, HeaderPieces
  <2>3. <<a, b, c, d, e>> \o <<f, g>> = <<a, b, c, d, e, f, g>>
    BY <2>2, SevenTuple
  <2> QED
    BY <2>1, <2>3 DEF WithKatran
<1> QED
  BY <1>1, <1>2, <1>3, <1>4

\* The start.
LEMMA BuiltInit == PacketInit => BuiltInv
<1> SUFFICES ASSUME PacketInit PROVE BuiltInv
  OBVIOUS
<1>1. tcp \in BOOLEAN
  BY Zenon DEF PacketInit
<1>2. ppc = "options" /\ katran \in Nat /\ payload_length \in Nat
  BY DEF PacketInit
<1> QED
  BY <1>1, <1>2 DEF BuiltInv

\* The options are chosen.
LEMMA BuiltConfigure ==
  ASSUME BuiltInv, Configure
  PROVE  BuiltInv'
<1>1. katran' \in Nat /\ payload_length' \in Nat /\ tcp' \in BOOLEAN
  BY PacketAssumption DEF Configure
<1>2. ppc' = "headers"
  BY DEF Configure
<1> QED
  BY <1>1, <1>2 DEF BuiltInv

\* The server of the Katran option.
LEMMA ServerIdPositive ==
  ASSUME katran \in Nat, katran > 0, NEW r \in Nat
  PROVE  ServerId(r) > 0
<1>1. r % katran \in Nat
  BY DivMod
<1> QED
  BY <1>1 DEF ServerId

\* The room of an mbuf is a 16-bit number.
LEMMA RoomSize == ROOM \in Nat /\ ROOM < 65536
<1>1. ROOM \in 0..(UINT16 - 1)
  BY PacketAssumption
<1>2. \A n \in Nat : \A x \in 0..(n - 1) : x \in Nat /\ x < n
  OBVIOUS
<1>3. UINT16 \in Nat
  BY DEF UINT16
<1>4. ROOM \in Nat /\ ROOM < UINT16
  BY <1>1, <1>2, <1>3
<1> QED
  BY <1>4 DEF UINT16

\* What pkt_info holds of the length of the payload.
LEMMA InfoLength ==
  ASSUME payload_length \in Nat
  PROVE  info_length \in Nat /\ info_length <= payload_length
<1>1. 65536 \in Nat /\ 65536 > 0
  OBVIOUS
<1> QED
  BY <1>1, DivMod DEF info_length, UINT16

\* The headers and their length fields are written.
LEMMA BuiltPrepare ==
  ASSUME BuiltInv, Prepare
  PROVE  BuiltInv'
<1>0. /\ tcp \in BOOLEAN /\ katran \in Nat /\ payload_length \in Nat
      /\ tcp' = tcp /\ katran' = katran /\ payload_length' = payload_length
  BY DEF BuiltInv, Prepare, optVars
<1>1. /\ tcp \in BOOLEAN /\ katran \in Nat /\ info_length \in Nat
      /\ tcp' = tcp /\ katran' = katran /\ info_length' = info_length
  BY <1>0, InfoLength DEF info_length
<1>2. Headers' = Headers /\ Transport' = Transport
  BY <1>1 DEF Headers, Transport
<1>3. frame' = Headers
  <2>1. CASE PrepareUdp
    BY <2>1 DEF PrepareUdp, Headers, ETHER, IPV4, UDP
  <2>2. CASE PrepareTcp
    <3>1. CASE katran > 0
      <4>1. frame' = <<<<"eth", 14>>, <<"ip", 20>>, <<"tcp", 20>>>> \o
                     <<<<"nops", 2>>, <<"opt", 6>>>>
        BY <2>2, <3>1 DEF PrepareTcp, ETHER, IPV4, TCP, NOPS, KATRAN_OPT
      <4>2. Headers = <<<<"eth", 14>>, <<"ip", 20>>, <<"tcp", 20>>, <<"nops", 2>>, <<"opt", 6>>>>
        BY <2>2, <3>1 DEF PrepareTcp, Headers
      <4> QED
        BY <4>1, <4>2, Joined
    <3>2. CASE ~(katran > 0)
      BY <2>2, <3>2 DEF PrepareTcp, Headers, ETHER, IPV4, TCP
    <3> QED
      BY <3>1, <3>2
  <2> QED
    BY <2>1, <2>2 DEF Prepare
<1>4. Length(frame') = 34 + Transport /\ Transport \in Nat
  BY <1>1, <1>3, HeaderBytes DEF Transport
<1>5. /\ ppc' \in {"payload", "null"}
      /\ ppc' = "payload" => 34 + Transport + info_length <= ROOM
  BY <1>1, <1>4 DEF Prepare
<1>6. ASSUME 34 + Transport + info_length <= ROOM PROVE FieldsRight'
  <2>1. ROOM \in Nat /\ ROOM < 65536
    BY RoomSize
  <2>2. CASE PrepareUdp
    <3>1. ~tcp /\ Transport = 8
      BY <2>2 DEF PrepareUdp, Transport
    <3>2. 8 + info_length \in Nat /\ 8 + info_length < 65536
      BY <1>1, <1>6, <2>1, <3>1
    <3>3. dgram_len' = 8 + info_length
      <4>1. dgram_len' = (8 + info_length) % 65536
        BY <2>2 DEF PrepareUdp, UDP, UINT16
      <4> QED
        BY <3>2, <4>1, SmallMod
    <3>4. 20 + (8 + info_length) \in Nat /\ 20 + (8 + info_length) < 65536
      BY <1>1, <1>6, <2>1, <3>1
    <3>5. total_length' = 20 + (8 + info_length)
      <4>1. total_length' = (20 + dgram_len') % 65536
        BY <2>2 DEF PrepareUdp, IPV4, UINT16
      <4> QED
        BY <3>3, <3>4, <4>1, SmallMod
    <3> QED
      BY <1>1, <1>2, <3>1, <3>3, <3>5 DEF FieldsRight
  <2>3. CASE PrepareTcp
    <3>1. tcp /\ TCP + Opts = Transport /\ Transport \in {20, 28}
      BY <1>1, <2>3 DEF PrepareTcp, Transport, Opts, TCP, KATRAN_OPT, NOPS
    <3>2. 20 + Transport + info_length \in Nat /\ 20 + Transport + info_length < 65536
      BY <1>1, <1>4, <1>6, <2>1
    <3>3. total_length' = 20 + Transport + info_length
      <4>1. Opts \in Nat
        BY DEF Opts, KATRAN_OPT, NOPS
      <4>2. IPV4 + TCP + Opts + info_length = 20 + Transport + info_length
        BY <1>1, <3>1, <4>1 DEF IPV4, TCP
      <4>3. total_length' = (20 + Transport + info_length) % 65536
        BY <2>3, <4>2 DEF PrepareTcp, UINT16
      <4> QED
        BY <3>2, <4>3, SmallMod
    <3>4. data_off' * 4 = Transport
      <4>1. data_off' = (Transport \div 4) % 16
        BY <2>3, <3>1 DEF PrepareTcp
      <4> QED
        BY <3>1, <4>1
    <3>5. katran > 0 => srv_id' > 0
      <4>1. SUFFICES ASSUME katran > 0 PROVE srv_id' > 0
        OBVIOUS
      <4>2. PICK r \in Rands : srv_id' = ServerId(r)
        BY <2>3, <4>1 DEF PrepareTcp
      <4>3. r \in Nat
        BY PacketAssumption
      <4> QED
        BY <1>1, <4>1, <4>2, <4>3, ServerIdPositive
    <3> QED
      BY <1>1, <1>2, <3>1, <3>3, <3>4, <3>5 DEF FieldsRight
  <2> QED
    BY <2>2, <2>3 DEF Prepare
<1> QED
  BY <1>0, <1>1, <1>2, <1>3, <1>5, <1>6 DEF BuiltInv

\* The payload is written.
LEMMA BuiltWrite ==
  ASSUME BuiltInv, WritePayload
  PROVE  BuiltInv'
<1>1. /\ tcp \in BOOLEAN /\ katran \in Nat /\ payload_length \in Nat
      /\ tcp' = tcp /\ katran' = katran /\ payload_length' = payload_length
      /\ total_length' = total_length /\ dgram_len' = dgram_len
      /\ data_off' = data_off /\ srv_id' = srv_id
      /\ ppc = "payload" /\ ppc' = "sent"
  BY DEF BuiltInv, WritePayload, optVars
<1>2. payload_length >= 8 /\ payload_length = info_length
  BY <1>1, InfoLength DEF WritePayload, Overrun, STAMP
<1>3. frame' = Headers \o <<<<"stamp", 8>>, <<"text", payload_length - 8>>>>
  BY <1>1 DEF BuiltInv, WritePayload, STAMP
<1>4. Sent' = Sent /\ Transport' = Transport /\ info_length' = info_length
  BY <1>1 DEF Sent, Transport, info_length
<1>5. frame' = Sent
  <2>0. payload_length - 8 \in Nat
    BY <1>1, <1>2
  <2>1. CASE ~tcp
    <3>1. frame' = <<<<"eth", 14>>, <<"ip", 20>>, <<"udp", 8>>>> \o
                   <<<<"stamp", 8>>, <<"text", payload_length - 8>>>>
      BY <1>3, <2>1 DEF Headers
    <3>2. Sent = Plain("udp", 8, payload_length - 8)
      BY <2>1 DEF Sent
    <3> QED
      BY <2>0, <3>1, <3>2, Joined
  <2>2. CASE tcp /\ katran > 0
    <3>1. frame' = <<<<"eth", 14>>, <<"ip", 20>>, <<"tcp", 20>>, <<"nops", 2>>, <<"opt", 6>>>> \o
                   <<<<"stamp", 8>>, <<"text", payload_length - 8>>>>
      BY <1>3, <2>2 DEF Headers
    <3>2. Sent = WithKatran(payload_length - 8)
      BY <2>2 DEF Sent
    <3> QED
      BY <2>0, <3>1, <3>2, Joined
  <2>3. CASE tcp /\ ~(katran > 0)
    <3>1. frame' = <<<<"eth", 14>>, <<"ip", 20>>, <<"tcp", 20>>>> \o
                   <<<<"stamp", 8>>, <<"text", payload_length - 8>>>>
      BY <1>3, <2>3 DEF Headers
    <3>2. Sent = Plain("tcp", 20, payload_length - 8)
      BY <2>3 DEF Sent
    <3> QED
      BY <2>0, <3>1, <3>2, Joined
  <2> QED
    BY <1>1, <2>1, <2>2, <2>3
<1>6. 34 + Transport + info_length <= ROOM /\ FieldsRight'
  BY <1>1, <1>4 DEF BuiltInv, FieldsRight
<1> QED
  BY <1>1, <1>2, <1>4, <1>5, <1>6 DEF BuiltInv

\* Nothing that a frame consists of changes any more.
LEMMA BuiltAfter ==
  ASSUME BuiltInv, WritePast \/ ReadStamp \/ UNCHANGED packetVars
  PROVE  BuiltInv'
<1>1. /\ tcp' = tcp /\ katran' = katran /\ payload_length' = payload_length
      /\ frame' = frame
      /\ total_length' = total_length /\ dgram_len' = dgram_len
      /\ data_off' = data_off /\ srv_id' = srv_id
  BY DEF WritePast, ReadStamp, packetVars, optVars
<1>2. /\ Sent' = Sent /\ Transport' = Transport /\ FieldsRight' = FieldsRight
      /\ Headers' = Headers /\ info_length' = info_length
  BY <1>1 DEF Sent, Transport, FieldsRight, Headers, info_length
<1>3. PieceAt(StampOffset)' = PieceAt(StampOffset)
  BY <1>1 DEF PieceAt, StampOffset
<1>4. CASE WritePast
  BY <1>1, <1>2, <1>3, <1>4 DEF BuiltInv, WritePast
<1>5. CASE ReadStamp
  BY <1>1, <1>2, <1>3, <1>5 DEF BuiltInv, ReadStamp
<1>6. CASE UNCHANGED packetVars
  BY <1>1, <1>2, <1>3, <1>6 DEF BuiltInv, packetVars
<1> QED
  BY <1>4, <1>5, <1>6

\* Every step keeps the frame and its fields right.
LEMMA BuiltStep == BuiltInv /\ [PacketNext]_packetVars => BuiltInv'
  BY BuiltConfigure, BuiltPrepare, BuiltWrite, BuiltAfter DEF PacketNext

\* The pieces of a packet that is sent, by name.
LEMMA Names ==
  ASSUME NEW x, NEW h, NEW n
  PROVE  LET p == Plain(x, h, n)
             k == WithKatran(n)
         IN /\ p[1][1] = "eth" /\ p[2][1] = "ip" /\ p[3][1] = x /\ p[4][1] = "stamp"
            /\ k[1][1] = "eth" /\ k[2][1] = "ip" /\ k[3][1] = "tcp"
  BY DEF Plain, WithKatran

\* The length fields of a packet of the kind that is built.
LEMMA SentLengths ==
  ASSUME BuiltInv, ppc = "sent"
  PROVE  LengthsRight
<1>1. /\ tcp \in BOOLEAN /\ katran \in Nat /\ payload_length \in Nat
      /\ payload_length >= 8 /\ payload_length = info_length
      /\ frame = Sent /\ FieldsRight
  BY DEF BuiltInv
<1>2. PICK n \in Nat : n = payload_length - 8
  BY <1>1
<1>3. CASE ~tcp
  <2>1. frame = Plain("udp", 8, n)
    BY <1>1, <1>2, <1>3 DEF Sent
  <2>2. /\ frame \in Seq(Pieces) /\ Len(frame) = 5 /\ Before(frame, 1) = 14
        /\ Before(frame, 2) = 34 /\ Length(frame) = 42 + 8 + n
    BY <2>1, PlainFrame
  <2>3. frame[1][1] = "eth" /\ frame[2][1] = "ip" /\ frame[3][1] = "udp"
    BY <2>1, Names
  <2>4. BytesFrom({"ip"}) = Length(frame) - Before(frame, 1)
    <3>1. 1 \in 0..(Len(frame) - 1)
      BY <2>2
    <3>2. frame[1 + 1][1] \in {"ip"} /\ \A k \in 1..1 : frame[k][1] \notin {"ip"}
      BY <2>3
    <3> QED
      BY <2>2, <3>1, <3>2, FromPiece
  <2>5. BytesFrom({"udp"}) = Length(frame) - Before(frame, 2)
    <3>1. 2 \in 0..(Len(frame) - 1)
      BY <2>2
    <3>2. frame[2 + 1][1] \in {"udp"} /\ \A k \in 1..2 : frame[k][1] \notin {"udp"}
      BY <2>3
    <3> QED
      BY <2>2, <3>1, <3>2, FromPiece
  <2> QED
    BY <1>1, <1>2, <1>3, <2>2, <2>4, <2>5 DEF LengthsRight, FieldsRight, Transport
<1>4. CASE tcp
  <2>1. /\ frame \in Seq(Pieces) /\ Len(frame) \in {5, 7}
        /\ Before(frame, 1) = 14 /\ Before(frame, 2) = 34
        /\ Length(frame) = 34 + Transport + payload_length
        /\ frame[1][1] = "eth" /\ frame[2][1] = "ip" /\ frame[3][1] = "tcp"
    <3>1. CASE katran > 0
      <4>1. frame = WithKatran(n)
        BY <1>1, <1>2, <1>4, <3>1 DEF Sent
      <4>2. /\ frame \in Seq(Pieces) /\ Len(frame) = 7 /\ Before(frame, 1) = 14
            /\ Before(frame, 2) = 34 /\ Length(frame) = 70 + n
        BY <4>1, KatranFrame
      <4>3. Transport = 28
        BY <1>4, <3>1 DEF Transport
      <4>4. frame[1][1] = "eth" /\ frame[2][1] = "ip" /\ frame[3][1] = "tcp"
        BY <4>1, Names
      <4> QED
        BY <1>1, <1>2, <4>2, <4>3, <4>4
    <3>2. CASE ~(katran > 0)
      <4>1. frame = Plain("tcp", 20, n)
        BY <1>1, <1>2, <1>4, <3>2 DEF Sent
      <4>2. /\ frame \in Seq(Pieces) /\ Len(frame) = 5 /\ Before(frame, 1) = 14
            /\ Before(frame, 2) = 34 /\ Length(frame) = 42 + 20 + n
        BY <4>1, PlainFrame
      <4>3. Transport = 20
        BY <1>4, <3>2 DEF Transport
      <4>4. frame[1][1] = "eth" /\ frame[2][1] = "ip" /\ frame[3][1] = "tcp"
        BY <4>1, Names
      <4> QED
        BY <1>1, <1>2, <4>2, <4>3, <4>4
    <3> QED
      BY <3>1, <3>2
  <2>2. BytesFrom({"ip"}) = Length(frame) - Before(frame, 1)
    <3>1. 1 \in 0..(Len(frame) - 1)
      BY <2>1
    <3>2. frame[1 + 1][1] \in {"ip"} /\ \A k \in 1..1 : frame[k][1] \notin {"ip"}
      BY <2>1
    <3> QED
      BY <2>1, <3>1, <3>2, FromPiece
  <2>3. BytesFrom({"tcp"}) = Length(frame) - Before(frame, 2)
    <3>1. 2 \in 0..(Len(frame) - 1)
      BY <2>1
    <3>2. frame[2 + 1][1] \in {"tcp"} /\ \A k \in 1..2 : frame[k][1] \notin {"tcp"}
      BY <2>1
    <3> QED
      BY <2>1, <3>1, <3>2, FromPiece
  <2>4. Transport \in Nat
    BY DEF Transport
  <2>5. total_length = BytesFrom({"ip"})
    BY <1>1, <2>1, <2>2, <2>4 DEF FieldsRight
  <2>6. data_off * 4 = BytesFrom({"tcp"}) - payload_length
    BY <1>1, <1>4, <2>1, <2>3, <2>4 DEF FieldsRight
  <2> QED
    BY <1>1, <1>4, <2>5, <2>6 DEF LengthsRight, FieldsRight
<1> QED
  BY <1>1, <1>3, <1>4

\* What the receiver reads in the default build: the stamp after the UDP header.
LEMMA StampRead ==
  ASSUME BuiltInv, ppc = "echoed", ~tcp
  PROVE  stamp = "stamp"
<1>1. /\ tcp \in BOOLEAN /\ katran \in Nat /\ payload_length \in Nat
      /\ payload_length >= 8 /\ frame = Sent /\ stamp = PieceAt(42)
  <2>1. StampOffset = 42
    BY DEF StampOffset, ETHER, IPV4, UDP
  <2> QED
    BY <2>1 DEF BuiltInv
<1>2. PICK n \in Nat : n = payload_length - 8
  BY <1>1
<1> DEFINE Q(i) == Length(SubSeq(frame, 1, i - 1)) = 42
<1>3. \A i \in Nat : Q(i + 1) <=> Before(frame, i) = 42
  BY DEF Before
<1>4. frame = Plain("udp", 8, n)
  BY <1>1, <1>2 DEF Sent
<1>5. /\ Len(frame) = 5 /\ Before(frame, 0) = 0 /\ Before(frame, 1) = 14
      /\ Before(frame, 2) = 34 /\ Before(frame, 3) = 34 + 8 /\ Before(frame, 4) = 42 + 8
  BY <1>4, PlainFrame
<1>6. Q(4) /\ ~Q(1) /\ ~Q(2) /\ ~Q(3) /\ ~Q(5)
  <2>1. /\ Q(0 + 1) <=> Before(frame, 0) = 42
        /\ Q(1 + 1) <=> Before(frame, 1) = 42
        /\ Q(2 + 1) <=> Before(frame, 2) = 42
        /\ Q(3 + 1) <=> Before(frame, 3) = 42
        /\ Q(4 + 1) <=> Before(frame, 4) = 42
    <3> HIDE DEF Q
    <3> QED
      BY <1>3
  <2> HIDE DEF Q
  <2> QED
    BY <1>5, <2>1
<1>7. (CHOOSE i \in 1..Len(frame) : Q(i)) = 4 /\ \E i \in 1..Len(frame) : Q(i)
  <2> HIDE DEF Q
  <2>1. \A i \in 1..5 : Q(i) <=> i = 4
    <3>1. \A i \in 1..5 : i = 1 \/ i = 2 \/ i = 3 \/ i = 4 \/ i = 5
      OBVIOUS
    <3> QED
      BY <1>6, <3>1
  <2> QED
    BY <1>5, <2>1
<1>8. PieceAt(42) = frame[4][1]
  BY <1>7 DEF PieceAt
<1>9. frame[4][1] = "stamp"
  BY <1>4, Names
<1> QED
  BY <1>1, <1>8, <1>9

\* The packets are what their headers say, in both builds and for every option,
\* and the default build's receiver finds the stamp, for every payload that
\* payload_constant_num writes inside its bounds and the mbuf has room for.
THEOREM WellFormedHolds == PacketSpec => []WellFormed
<1>1. BuiltInv => WellFormed
  BY SentLengths, StampRead DEF WellFormed, LengthsRight, StampFound
<1>2. PacketSpec => []BuiltInv
  BY BuiltInit, BuiltStep, PTL DEF PacketSpec
<1> QED
  BY <1>1, <1>2, PTL
==============================================================================
