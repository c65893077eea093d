-------------------------------- MODULE Zipf ---------------------------------
(***************************************************************************)
(* The choice of a packet's source address with --zipf-client-addr: the    *)
(* sampler of utils/zipf.c, used by the sending threads of all cores       *)
(* without synchronisation, and the address that _prepare_eth_vlan_ip      *)
(* makes of a sample.                                                      *)
(*                                                                         *)
(* The steps of a thread are the loads and stores of shared variables that *)
(* the build (-O3) makes: seed is kept in a register while the table is    *)
(* filled, and ptr is stored once, already reduced modulo _sz.             *)
(***************************************************************************)
EXTENDS Integers, FiniteSets

CONSTANTS
  Threads,                   \* the sending threads
  N,                         \* number of ranks (unique_client_addresses)
  Harmonic,                  \* Harmonic[i]: sum of 1 / j^s for j in 1..i, scaled
  LastProb,                  \* c_probs[N], which rounding may put below RAND_MAX
  RAND_MAX,
  Sz,                        \* _sz
  A, C, M,                   \* __myrand: multiplier, increment, modulus
  CountPort,                 \* unique_client_ports
  U16, U32                   \* 2^16 and 2^32

ASSUME ZipfAssumption ==
  /\ IsFiniteSet(Threads)
  /\ {N, RAND_MAX, Sz, A, C, M, CountPort} \subseteq Nat \ {0}
  /\ {U16, U32} \subseteq Nat
  /\ Harmonic \in [0..N -> Nat]
  /\ Harmonic[0] = 0 /\ Harmonic[N] > 0
  /\ LastProb \in {RAND_MAX - 1, RAND_MAX}
  /\ CountPort <= N           \* checked by _parse_zipf_client_addr_arg
  /\ U16 > 0 /\ N <= U32

\* new_zipfgen: the cumulated probabilities as integers
c_probs ==
  [i \in 0..N |-> IF i = N THEN LastProb
                  ELSE (Harmonic[i] * RAND_MAX) \div Harmonic[N]]

VARIABLES
  srendipity,                \* the table of random numbers
  need_init, seed, ptr,
  zpc,                       \* where each thread is
  filled,                    \* entries of the table it has written
  my_seed, my_ptr,           \* its copies of seed and ptr
  rnd, low, high,
  rank,                      \* what number_from_zipf_distribution returns
  info,                      \* src_ip and src_port of pkt_info, less the base
  hdr                        \* source address of the packet, less the base

sharedVars == <<srendipity, need_init, seed, ptr>>
searchVars == <<rnd, low, high, rank>>
addrVars   == <<info, hdr>>
zipfVars == <<sharedVars, zpc, filled, my_seed, my_ptr, searchVars, addrVars>>

Slots == 0..(Sz - 1)
Base  == [ip |-> 0, port |-> 0]

ZipfInit ==
  /\ srendipity = [i \in Slots |-> 0]
  /\ need_init = TRUE
  /\ seed = 1
  /\ ptr = 0
  /\ zpc = [t \in Threads |-> "idle"]
  /\ filled = [t \in Threads |-> 0]
  /\ my_seed = [t \in Threads |-> 0]
  /\ my_ptr = [t \in Threads |-> 0]
  /\ rnd = [t \in Threads |-> 0]
  /\ low = [t \in Threads |-> 1]
  /\ high = [t \in Threads |-> N]
  /\ rank = [t \in Threads |-> 0]
  /\ info = [t \in Threads |-> Base]
  /\ hdr = [t \in Threads |-> Base]

At(t, place) == zpc[t] = place
Goto(t, place) == zpc' = [zpc EXCEPT ![t] = place]

-----------------------------------------------------------------------------
(* myrand                                                                   *)

CheckInit(t) ==
  /\ At(t, "idle")
  /\ low' = [low EXCEPT ![t] = 1]
  /\ high' = [high EXCEPT ![t] = N]
  /\ Goto(t, IF need_init THEN "clear" ELSE "load")
  /\ UNCHANGED <<sharedVars, filled, my_seed, my_ptr, rnd, rank, addrVars>>

\* _need_init = false, before the table is filled
ClearInit(t) ==
  /\ At(t, "clear")
  /\ need_init' = FALSE
  /\ Goto(t, "seed")
  /\ UNCHANGED <<srendipity, seed, ptr, filled, my_seed, my_ptr, searchVars,
                 addrVars>>

LoadSeed(t) ==
  /\ At(t, "seed")
  /\ my_seed' = [my_seed EXCEPT ![t] = seed]
  /\ filled' = [filled EXCEPT ![t] = 0]
  /\ Goto(t, "fill")
  /\ UNCHANGED <<sharedVars, my_ptr, searchVars, addrVars>>

\* __myrand
NextSeed(s) == (A * s + C) % M
TableFullEarly(t) == filled[t] = Sz - 1
TableFull(t) == filled[t] = Sz

Fill(t) ==
  /\ At(t, "fill")
  /\ ~TableFull(t)
  /\ my_seed' = [my_seed EXCEPT ![t] = NextSeed(@)]
  /\ srendipity' = [srendipity EXCEPT ![filled[t]] = my_seed'[t] % RAND_MAX]
  /\ filled' = [filled EXCEPT ![t] = @ + 1]
  /\ UNCHANGED <<need_init, seed, ptr, zpc, my_ptr, searchVars, addrVars>>

StoreSeed(t) ==
  /\ At(t, "fill")
  /\ TableFull(t)
  /\ seed' = my_seed[t]
  /\ Goto(t, "load")
  /\ UNCHANGED <<srendipity, need_init, ptr, filled, my_seed, my_ptr, searchVars,
                 addrVars>>

LoadPtr(t) ==
  /\ At(t, "load")
  /\ my_ptr' = [my_ptr EXCEPT ![t] = ptr]
  /\ Goto(t, "read")
  /\ UNCHANGED <<sharedVars, filled, my_seed, searchVars, addrVars>>

ReadTable(t) ==
  /\ At(t, "read")
  /\ rnd' = [rnd EXCEPT ![t] = srendipity[my_ptr[t]]]
  /\ Goto(t, "store")
  /\ UNCHANGED <<sharedVars, filled, my_seed, my_ptr, low, high, rank, addrVars>>

\* ptr++; ptr %= _sz.  The increments of two threads may become one.
NextPtrPast(p) == (p + 1) % (Sz + 1)
NextPtr(p) == (p + 1) % Sz

StorePtr(t) ==
  /\ At(t, "store")
  /\ ptr' = NextPtr(my_ptr[t])
  /\ Goto(t, "search")
  /\ UNCHANGED <<srendipity, need_init, seed, filled, my_seed, my_ptr,
                 searchVars, addrVars>>

-----------------------------------------------------------------------------
(* number_from_zipf_distribution: one round of the search per step.         *)

Mid(t) == (low[t] + high[t]) \div 2
IsMoreStrict(t) == c_probs[Mid(t)] <= rnd[t]
IsMore(t) == c_probs[Mid(t)] < rnd[t]
IsLess(t) == rnd[t] <= c_probs[Mid(t) - 1]

RaiseLowToMid(t) == low' = [low EXCEPT ![t] = Mid(t)]
RaiseLow(t) == low' = [low EXCEPT ![t] = Mid(t) + 1]

Searching(t) == At(t, "search") /\ low[t] <= high[t]

SearchMore(t) ==
  /\ Searching(t)
  /\ IsMore(t)
  /\ RaiseLow(t)
  /\ UNCHANGED <<sharedVars, zpc, filled, my_seed, my_ptr, rnd, high, rank,
                 addrVars>>

SearchLess(t) ==
  /\ Searching(t)
  /\ ~IsMore(t)
  /\ IsLess(t)
  /\ high' = [high EXCEPT ![t] = Mid(t) - 1]
  /\ UNCHANGED <<sharedVars, zpc, filled, my_seed, my_ptr, rnd, low, rank,
                 addrVars>>

Return(t, r) ==
  /\ rank' = [rank EXCEPT ![t] = r]
  /\ Goto(t, "drawn")
  /\ UNCHANGED <<sharedVars, filled, my_seed, my_ptr, rnd, low, high, addrVars>>

SearchHit(t) == Searching(t) /\ ~IsMore(t) /\ ~IsLess(t) /\ Return(t, Mid(t))

SearchFail(t) == At(t, "search") /\ low[t] > high[t] /\ Return(t, -1)

-----------------------------------------------------------------------------
(* _prepare_eth_vlan_ip, and do_client, which restores pkt_info.            *)

\* src_idx: gen() - 1 in 32 bits
SrcIdx(r) == (r - 1) % U32
Offset(a, r) == [ip   |-> (a.ip + (SrcIdx(r) \div CountPort)) % U32,
                 port |-> (a.port + (SrcIdx(r) % CountPort)) % U16]

RestoreNothing(t) == info' = [info EXCEPT ![t] = hdr'[t]]
RestoreInfo(t) == info' = [info EXCEPT ![t] = Base]

Address(t) ==
  /\ At(t, "drawn")
  /\ hdr' = [hdr EXCEPT ![t] = Offset(info[t], rank[t])]
  /\ RestoreInfo(t)
  /\ Goto(t, "built")
  /\ UNCHANGED <<sharedVars, filled, my_seed, my_ptr, searchVars>>

\* The next packet of the burst, or of the next burst
NextPacket(t) ==
  /\ At(t, "built")
  /\ Goto(t, "idle")
  /\ UNCHANGED <<sharedVars, filled, my_seed, my_ptr, searchVars, addrVars>>

Thread(t) ==
  \/ CheckInit(t) \/ ClearInit(t) \/ LoadSeed(t) \/ Fill(t) \/ StoreSeed(t)
  \/ LoadPtr(t) \/ ReadTable(t) \/ StorePtr(t)
  \/ SearchMore(t) \/ SearchLess(t) \/ SearchHit(t) \/ SearchFail(t)
  \/ Address(t) \/ NextPacket(t)

ZipfNext == \E t \in Threads : Thread(t)

ZipfSpec == ZipfInit /\ [][ZipfNext]_zipfVars

-----------------------------------------------------------------------------
(* Properties                                                               *)

\* The values the variables may take; in particular the table and c_probs are
\* never read or written outside their bounds, whatever the threads' timing.
ZipfTypeOK ==
  /\ srendipity \in [Slots -> 0..(RAND_MAX - 1)]
  /\ need_init \in BOOLEAN
  /\ seed \in Nat
  /\ ptr \in Slots
  /\ zpc \in [Threads -> {"idle", "clear", "seed", "fill", "load", "read",
                          "store", "search", "drawn", "built"}]
  /\ filled \in [Threads -> 0..Sz]
  /\ my_seed \in [Threads -> Nat]
  /\ my_ptr \in [Threads -> Slots]
  /\ rnd \in [Threads -> 0..(RAND_MAX - 1)]
  /\ low \in [Threads -> 1..(N + 1)]
  /\ high \in [Threads -> 0..N]
  /\ rank \in [Threads -> -1..N]
  /\ info \in [Threads -> [ip : Nat, port : Nat]]
  /\ hdr \in [Threads -> [ip : Nat, port : Nat]]

\* A rank's interval: what a sample of x has to return
IsRankOf(r, x) == r \in 1..N /\ c_probs[r - 1] < x /\ x <= c_probs[r]

\* The binary search finds the rank whose interval holds the random number; it
\* fails for the number 0, which no interval holds, and for no other.
RightRank ==
  \A t \in Threads : At(t, "drawn") =>
    IF rnd[t] = 0 THEN rank[t] = -1 ELSE IsRankOf(rank[t], rnd[t])

\* The table holds a zero only as long as a thread is still filling it: after
\* that every sample is a rank.
ZerosOnlyWhileFilling ==
  \/ need_init
  \/ \E t \in Threads : zpc[t] \in {"seed", "fill"}
  \/ \A i \in Slots : srendipity[i] # 0

\* Every packet made of a good sample carries the IP address of its rank,
\* whatever packets the same burst already held; and as long as the ports fit
\* into the 16 bits of src_port, which parse_args does not check, its port too,
\* so that the N ranks have N different addresses.
AddressOfRank ==
  \A t \in Threads : At(t, "built") /\ rnd[t] > 0 =>
    /\ hdr[t].ip * CountPort <= rank[t] - 1
    /\ rank[t] - 1 < (hdr[t].ip + 1) * CountPort
    /\ CountPort <= U16 => hdr[t].ip * CountPort + hdr[t].port = rank[t] - 1

\* What the comment on number_from_zipf_distribution says: it returns a value
\* of 1..n.
SampleInRange == \A t \in Threads : At(t, "drawn") => rank[t] \in 1..N

\* Every call of the sampler that has begun returns, also one that fills the
\* table or fails, and gives a packet its address.
SampleReturns ==
  \A t \in Threads : (zpc[t] \notin {"idle", "built"}) ~> (zpc[t] = "built")
==============================================================================
