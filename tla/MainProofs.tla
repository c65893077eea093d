----------------------------- MODULE MainProofs ------------------------------
(***************************************************************************)
(* Proofs about module Main, for every command line, any number of cores   *)
(* and contexts, and every width of the integers.                          *)
(***************************************************************************)
EXTENDS Main, CommonLemmas, TLAPS

\* The assumption on the constants, one by one.
LEMMA ConstantTypes ==
  /\ U16 \in Nat /\ U16 > 1 /\ U32 \in Nat /\ U32 >= U16
  /\ DefaultBatch \in 1..(U16 - 1) /\ DefaultPort \in 0..(U16 - 1)
  /\ MAX_SERVER_IP_DEST \in Nat /\ MAX_SERVER_IP_DEST > 0
  /\ CoreCounts \subseteq Nat \ {0}
  /\ QueueArgs \subseteq Int /\ BatchArgs \subseteq Int /\ PortArgs \subseteq Int
  /\ DelayArgs \subseteq Int /\ PayloadArgs \subseteq Int
  /\ ZipfArgs \subseteq Nat \X Nat
  /\ MaxOpts \in Nat
  BY MainAssumption

\* An int stored in fewer bits.
LEMMA Stored ==
  ASSUME NEW k \in Nat, k > 0, NEW x \in Int
  PROVE  x % k \in 0..(k - 1)
  OBVIOUS

\* Writing the low half of a word gives a word.
LEMMA LowHalf ==
  ASSUME NEW x \in 0..(U32 - 1), NEW p \in Int
  PROVE  (x - (x % U16)) + (p % U16) \in 0..(U32 - 1)
<1> USE ConstantTypes
<1> DEFINE d == U32 \div U16
           i == x \div U16
<1>1. U32 = d * U16 /\ d \in Nat
  BY DivMod, MainAssumption
<1>2. x = i * U16 + (x % U16) /\ i \in Nat /\ x % U16 \in Nat
  BY DivMod
<1>3. p % U16 \in 0..(U16 - 1)
  BY Stored
<1> HIDE DEF d, i
<1>4. i < d
  <2>1. CASE d <= i
    <3>1. U16 * d <= U16 * i
      BY <1>1, <1>2, <2>1, MulMono
    <3>2. U16 * d = d * U16 /\ U16 * i = i * U16 /\ i * U16 \in Nat
      BY <1>1, <1>2
    <3> QED
      BY <1>1, <1>2, <3>1, <3>2
  <2> QED
    BY <1>1, <1>2, <2>1
<1>5. i * U16 + (p % U16) \in 0..(d * U16 - 1)
  BY <1>1, <1>2, <1>3, <1>4, IndexInRange
<1>6. x - (x % U16) = i * U16
  <2>1. i * U16 \in Nat
    BY <1>2
  <2> QED
    BY <1>2, <2>1
<1> QED
  BY <1>1, <1>5, <1>6

-----------------------------------------------------------------------------
(* The options.                                                             *)

\* What every option keeps: the argument of --zipf-client-addr was checked, the
\* payload is not empty, and a server has the delay it was given.
DelayRight ==
  IF delay_opt = {} THEN config.word = DefaultPort
  ELSE \A d \in delay_opt : config.word = d % U32

OptionInv ==
  /\ config.zipf[2] <= config.zipf[1]
  /\ config.payload_size >= 1
  /\ config.mode = "undefined" => config.word = DefaultPort
  /\ config.mode = "undefined" /\ pc = "parse" => delay_opt = {}
  /\ config.mode = "server" => DelayRight

\* An option is accepted, or ends the process.
LEMMA OptionCases ==
  ASSUME TypeOK, NEW ok, NEW new, Option(ok, new)
  PROVE  /\ pc = "parse" /\ opts' \in 0..MaxOpts
         /\ UNCHANGED <<count_core, workVars>>
         /\ \/ ok /\ config' = new /\ pc' = "parse"
            \/ config' = config /\ pc' = "failed"
  BY ConstantTypes DEF TypeOK, Option

OptionGoal == config' \in Configs /\ delay_opt' \in SUBSET DelayArgs /\ OptionInv'

\* What an option other than --delay may write.
Admissible(new) ==
  /\ new \in Configs
  /\ new.zipf[2] <= new.zipf[1]
  /\ new.payload_size >= 1
  /\ new.mode = "undefined" => config.mode = "undefined" /\ new.word = config.word
  /\ new.mode = "server" =>
       config.mode \in {"undefined", "server"} /\ new.word = config.word

\* It keeps what every option keeps.
LEMMA AdmissibleKept ==
  ASSUME TypeOK, OptionInv, NEW ok, NEW new, Option(ok, new), UNCHANGED delay_opt,
         ok => Admissible(new)
  PROVE  OptionGoal
<1>1. config \in Configs /\ delay_opt \in SUBSET DelayArgs
  BY DEF TypeOK
<1>2. pc = "parse"
  BY OptionCases
<1>3. CASE config' = new /\ pc' = "parse" /\ Admissible(new)
  BY <1>1, <1>2, <1>3 DEF OptionGoal, Admissible, OptionInv, DelayRight
<1>4. CASE config' = config /\ pc' = "failed"
  BY <1>1, <1>4 DEF OptionGoal, OptionInv, DelayRight
<1> QED
  BY <1>3, <1>4, OptionCases

\* Every option keeps the types and the facts of OptionInv.
LEMMA OptionTypes ==
  ASSUME TypeOK, OptionInv, Parse
  PROVE  OptionGoal
<1> USE ConstantTypes
<1>1. config \in Configs /\ Admissible(config)
  BY DEF TypeOK, OptionInv, Admissible, Configs
<1>2. ASSUME NEW n \in QueueArgs, OptNumQueue(n)
      PROVE  OptionGoal
  <2>1. Admissible([config EXCEPT !.num_queues = n % U16])
    BY <1>1, Stored DEF Admissible, Configs
  <2> QED
    BY <1>2, <2>1, AdmissibleKept DEF OptNumQueue
<1>3. ASSUME NEW m \in Modes, OptMode(m)
      PROVE  OptionGoal
  <2>1. config.mode = "undefined" => Admissible([config EXCEPT !.mode = m])
    BY <1>1 DEF Admissible, Configs, Modes
  <2> QED
    BY <1>3, <2>1, AdmissibleKept DEF OptMode
<1>4. ASSUME NEW ip \in {-1, 0, 1}, OptIpLocal(ip)
      PROVE  OptionGoal
  <2>1. ip >= 0 => Admissible([config EXCEPT !.source_ip = ip])
    BY <1>1 DEF Admissible, Configs
  <2> QED
    BY <1>4, <2>1, AdmissibleKept DEF OptIpLocal
<1>5. ASSUME NEW ip \in {-1, 0, 1}, OptIpDest(ip)
      PROVE  OptionGoal
  <2>1. ClientMode /\ RoomForIp /\ ip >= 0 =>
          Admissible([config EXCEPT !.count_server_ips = @ + 1])
    BY <1>1 DEF Admissible, Configs, RoomForIp
  <2> QED
    BY <1>5, <2>1, AdmissibleKept DEF OptIpDest
<1>6. ASSUME NEW p \in PortArgs, OptPort(p)
      PROVE  OptionGoal
  <2>1. (config.word - (config.word % U16)) + (p % U16) \in 0..(U32 - 1)
    BY <1>1, LowHalf DEF Configs
  <2>2. p % U16 \in 0..(U16 - 1)
    BY Stored
  <2>3. CASE config.mode = "server"
    <3>1. Admissible([config EXCEPT !.server_port = p % U16])
      BY <1>1, <2>2 DEF Admissible, Configs
    <3> QED
      BY <1>6, <2>3, <3>1, AdmissibleKept DEF OptPort, WithPort
  <2>4. CASE config.mode # "server"
    <3>1. config.mode # "undefined" => Admissible(SetClientPort(p))
      BY <1>1, <2>1, <2>4 DEF Admissible, SetClientPort, Configs
    <3> QED
      BY <1>6, <2>4, <3>1, AdmissibleKept DEF OptPort, WithPort
  <2> QED
    BY <2>3, <2>4
<1>7. ASSUME NEW p \in PortArgs, OptDestPort(p)
      PROVE  OptionGoal
  <2>1. Admissible([config EXCEPT !.server_port = p % U16])
    BY <1>1, Stored DEF Admissible, Configs
  <2> QED
    BY <1>7, <2>1, AdmissibleKept DEF OptDestPort
<1>8. ASSUME NEW d \in DelayArgs, OptDelay(d)
      PROVE  OptionGoal
  <2>1. d % U32 \in 0..(U32 - 1)
    BY Stored
  <2>2. delay_opt' = {d} /\ delay_opt' \in SUBSET DelayArgs
    BY <1>8 DEF OptDelay
  <2>3. \/ /\ config.mode # "undefined" /\ pc' = "parse"
           /\ config' = IF config.mode = "server"
                        THEN [config EXCEPT !.word = d % U32] ELSE config
        \/ config' = config /\ pc' = "failed"
    BY <1>8 DEF OptDelay, Option
  <2>4. config.mode = "server" => pc' = "parse"
    BY <1>8 DEF OptDelay, Option
  <2>5. CASE config.mode = "server"
    <3>1. config' = [config EXCEPT !.word = d % U32]
      BY <2>3, <2>4, <2>5
    <3>2. /\ config' \in Configs /\ config'.word = d % U32
          /\ config'.zipf = config.zipf /\ config'.mode = config.mode
          /\ config'.payload_size = config.payload_size
      BY <1>1, <2>1, <3>1 DEF Configs
    <3> QED
      BY <2>2, <2>5, <3>2 DEF OptionGoal, OptionInv, DelayRight
  <2>6. CASE config.mode # "server"
    <3>1. config' = config /\ (config.mode = "undefined" => pc' = "failed")
      BY <2>3, <2>6
    <3> QED
      BY <1>1, <2>2, <2>6, <3>1 DEF OptionGoal, OptionInv
  <2> QED
    BY <2>5, <2>6
<1>9. ASSUME NEW b \in BatchArgs, OptBatch(b)
      PROVE  OptionGoal
  <2>1. Admissible([config EXCEPT !.batch = b % U16])
    BY <1>1, Stored DEF Admissible, Configs
  <2> QED
    BY <1>9, <2>1, AdmissibleKept DEF OptBatch
<1>10. ASSUME NEW n \in PayloadArgs, OptPayload(n)
       PROVE  OptionGoal
  <2>1. n >= 1 => Admissible([config EXCEPT !.payload_size = n])
    BY <1>1 DEF Admissible, Configs
  <2> QED
    BY <1>10, <2>1, AdmissibleKept DEF OptPayload
<1>11. ASSUME NEW z \in ZipfArgs, OptZipf(z)
       PROVE  OptionGoal
  <2>1. z[2] <= z[1] => Admissible([config EXCEPT !.zipf = z])
    BY <1>1 DEF Admissible, Configs
  <2> QED
    BY <1>11, <2>1, AdmissibleKept DEF OptZipf
<1>12. ASSUME NEW b \in BOOLEAN, OptDuration(b) \/ OptNoArp(b) \/ OptOther(b)
       PROVE  OptionGoal
  <2>1. /\ Admissible([config EXCEPT !.timed = b])
        /\ Admissible([config EXCEPT !.do_arp = FALSE])
    BY <1>1 DEF Admissible, Configs
  <2> QED
    BY <1>1, <1>12, <2>1, AdmissibleKept DEF OptDuration, OptNoArp, OptOther
<1> QED
  BY <1>2, <1>3, <1>4, <1>5, <1>6, <1>7, <1>8, <1>9, <1>10, <1>11, <1>12 DEF Parse

-----------------------------------------------------------------------------
(* Type correctness.                                                        *)

\* Before the first option the configuration holds the defaults.
LEMMA InitTypes == Init => TypeOK /\ OptionInv
<1> SUFFICES ASSUME Init PROVE TypeOK /\ OptionInv
  OBVIOUS
<1> USE ConstantTypes
<1>1. 8080 % U16 \in 0..(U16 - 1)
  BY Stored
<1>2. Defaults \in Configs
  BY <1>1 DEF Defaults, Configs
<1>3. TypeOK
  <2>1. signal_received \in BOOLEAN /\ lat_running \in BOOLEAN /\ in_the_loop \in BOOLEAN
    BY Zenon DEF Init
  <2>2. running \in [Workers -> BOOLEAN]
    BY DEF Init
  <2>3. stage \in [Workers -> {"off", "start", "arp", "loop", "done"}]
    BY DEF Init
  <2>4. /\ pc = "parse" /\ count_core \in CoreCounts /\ config = Defaults
        /\ opts \in 0..MaxOpts /\ delay_opt = {}
        /\ sigint = "default" /\ sighup = "default"
    BY DEF Init
  <2> QED
    BY <1>2, <2>1, <2>2, <2>3, <2>4 DEF TypeOK
<1>4. OptionInv
  BY DEF Init, Defaults, OptionInv, DelayRight
<1> QED
  BY <1>3, <1>4

\* The steps of main keep the types and, after the options, the configuration.
LEMMA MainTypes ==
  ASSUME TypeOK, OptionInv, MainThread
  PROVE  TypeOK' /\ OptionInv'
<1> USE ConstantTypes DEF workVars, flagVars
<1>1. CASE ParseEnd
  <2>1. Batch \in 0..(U16 - 1)
    BY DEF Batch, TypeOK, Configs
  <2>2. config' = [config EXCEPT !.batch = Batch] /\ config \in Configs
    BY <1>1 DEF ParseEnd, TypeOK
  <2>3. /\ config' \in Configs /\ config'.zipf = config.zipf
        /\ config'.payload_size = config.payload_size
        /\ config'.mode = config.mode /\ config'.word = config.word
    BY <2>1, <2>2 DEF Configs
  <2>4. delay_opt' = delay_opt /\ pc = "parse"
    BY <1>1 DEF ParseEnd
  <2>5. OptionInv'
    BY <2>3, <2>4 DEF OptionInv, DelayRight
  <2>6. TypeOK'
    BY <1>1, <2>3 DEF ParseEnd, TypeOK, Workers
  <2> QED
    BY <2>5, <2>6
<1>2. CASE \/ CheckCores \/ CreatePools \/ PortInit \/ Fill \/ Install \/ Launch \/ Returned \/ Wait \/ Free
  <2>1. UNCHANGED <<config, delay_opt, count_core, opts>> /\ pc # "parse" /\ pc' # "parse"
    BY <1>2 DEF CheckCores, CreatePools, PortInit, SetupStep, Fill, Install, Launch, Returned, Wait, Free
  <2>2. OptionInv'
    BY <2>1 DEF OptionInv, DelayRight
  <2>3. UNCHANGED <<signal_received, lat_running, in_the_loop>>
    BY <1>2 DEF CheckCores, CreatePools, PortInit, SetupStep, Fill, Install, Launch, Returned, Wait, Free
  <2>4. running' \in [Workers -> BOOLEAN]
    BY <1>2 DEF TypeOK, CheckCores, CreatePools, PortInit, SetupStep, Fill, Install, Launch, Returned, StopWorkers,
                Wait, Free
  <2>5. stage' \in [Workers -> {"off", "start", "arp", "loop", "done"}]
    BY <1>2 DEF TypeOK, CheckCores, CreatePools, PortInit, SetupStep, Fill, Install, Launch, Returned, Wait, Free
  <2>6. /\ pc' \in {"setup", "pools", "port", "fill", "install", "launch", "run",
                    "wait", "free", "exit", "failed", "aborted", "smashed"}
        /\ sigint' \in {"default", "main", "latency"} /\ sighup' \in {"default", "main"}
    BY <1>2 DEF TypeOK, CheckCores, CreatePools, PortInit, SetupStep, Fill, Install, Launch, Returned, Wait, Free
  <2>7. TypeOK'
    BY <2>1, <2>3, <2>4, <2>5, <2>6 DEF TypeOK, Workers
  <2> QED
    BY <2>2, <2>7
<1> QED
  BY <1>1, <1>2 DEF MainThread

AnyWorker(w) == Worker(w) \/ ServerSilent(w) \/ Arp(w)

\* What a worker may change.
LEMMA WorkerFrame ==
  ASSUME TypeOK, NEW w \in Workers, AnyWorker(w)
  PROVE  /\ UNCHANGED <<config, delay_opt, count_core, opts, sighup,
                       signal_received, lat_running>>
         /\ ~Ended
         /\ stage[w] # "done"
         /\ \/ pc' \in {"failed", "aborted"} /\ stage' = stage
            \/ /\ pc' = pc
               /\ \E p \in {"loop", "arp", "done"} :
                    stage' = [stage EXCEPT ![w] = p]
         /\ \/ running' = running
            \/ running' = [running EXCEPT ![w] = FALSE]
         /\ sigint' \in {sigint, "latency"}
         /\ in_the_loop' \in {in_the_loop, TRUE}
<1> USE DEF At, Move, Ends, WorkUnchanged, flagVars
<1>1. CASE ServerStart(w) \/ ServerStopped(w) \/ ServerSilent(w)
  BY <1>1 DEF ServerStart, ServerStopped, ServerSilent
<1>2. CASE ClientStart(w) \/ ClientEnd(w) \/ ClientAbort(w) \/ ClientArp(w)
  BY <1>2 DEF ClientStart, ClientEnd, ClientAbort, ClientArp
<1>3. CASE LatencyStart(w) \/ LatencyEnd(w) \/ LatencyArp(w)
  BY <1>3 DEF LatencyStart, LatencyEnd, LatencyArp
<1> QED
  BY <1>1, <1>2, <1>3 DEF AnyWorker, Worker, Arp

\* What a signal may change.
LEMMA SignalFrame ==
  ASSUME TypeOK, Signals
  PROVE  /\ UNCHANGED <<config, delay_opt, count_core, opts, stage, sigint,
                       sighup, in_the_loop>>
         /\ ~Ended
         /\ pc' \in {pc, "killed", "failed"}
         /\ running' \in {running, [w \in Workers |-> FALSE]}
         /\ signal_received' \in {signal_received, TRUE}
         /\ lat_running' \in {lat_running, FALSE}
  BY DEF Signals, Killed, handle_main_int, handle_int, Signal, Stops

\* Neither disturbs the types, nor what the options have left behind.
LEMMA WorkTypes ==
  ASSUME TypeOK, OptionInv, Signals \/ \E w \in Workers : AnyWorker(w)
  PROVE  TypeOK' /\ OptionInv'
<1> USE DEF TypeOK
<1>1. UNCHANGED <<config, delay_opt, count_core, opts>> /\ pc' \in {pc, "killed", "failed", "aborted"}
  BY SignalFrame, WorkerFrame
<1>2. OptionInv'
  BY <1>1 DEF OptionInv, DelayRight
<1>3. TypeOK'
  <2>1. CASE Signals
    <3>1. signal_received' \in BOOLEAN /\ lat_running' \in BOOLEAN /\ in_the_loop' \in BOOLEAN
      BY <2>1, SignalFrame, Zenon
    <3>2. running' \in [Workers -> BOOLEAN]
      BY <2>1, SignalFrame
    <3> QED
      BY <1>1, <2>1, <3>1, <3>2, SignalFrame DEF Workers
  <2>2. ASSUME NEW w \in Workers, AnyWorker(w) PROVE TypeOK'
    <3>1. running' \in [Workers -> BOOLEAN] /\ sigint' \in {"default", "main", "latency"}
      BY <2>2, WorkerFrame
    <3>2. stage' \in [Workers -> {"off", "start", "arp", "loop", "done"}]
      BY <2>2, WorkerFrame
    <3>3. signal_received' \in BOOLEAN /\ lat_running' \in BOOLEAN /\ in_the_loop' \in BOOLEAN
      BY <2>2, WorkerFrame
    <3> QED
      BY <1>1, <2>2, <3>1, <3>2, <3>3, WorkerFrame DEF Workers
  <2> QED
    BY <2>1, <2>2
<1> QED
  BY <1>2, <1>3

\* Every step keeps the types.
LEMMA NextTypes == TypeOK /\ OptionInv /\ [Next]_vars => TypeOK' /\ OptionInv'
<1> SUFFICES ASSUME TypeOK, OptionInv, [Next]_vars PROVE TypeOK' /\ OptionInv'
  OBVIOUS
<1>1. CASE Parse
  <2>1. OptionGoal
    BY <1>1, OptionTypes
  <2>2. /\ UNCHANGED <<count_core, workVars>> /\ opts' \in 0..MaxOpts
        /\ pc' \in {"parse", "failed"}
    BY <1>1, OptionCases DEF Parse, OptNumQueue, OptMode, OptIpLocal, OptIpDest,
       OptPort, OptDestPort, OptDelay, OptBatch, OptPayload, OptZipf,
       OptDuration, OptNoArp, OptOther
  <2> QED
    BY <2>1, <2>2 DEF OptionGoal, TypeOK, workVars, flagVars, Workers
<1>2. CASE MainThread
  BY <1>2, MainTypes
<1>3. CASE Signals \/ \E w \in Workers : AnyWorker(w)
  BY <1>3, WorkTypes
<1>4. CASE UNCHANGED vars
  BY <1>4 DEF vars, workVars, flagVars, TypeOK, OptionInv, DelayRight, Workers
<1> QED
  BY <1>1, <1>2, <1>3, <1>4 DEF Next, AnyWorker

\* For every command line, the configuration keeps its widths and server_ips is
\* never written past its end (parse_args, IP_DEST).
THEOREM TypeCorrect == Spec => []TypeOK
  BY InitTypes, NextTypes, PTL DEF Spec

\* For every command line a launched server has the delay of its last --delay,
\* and the clients' default port without one (the union in app_config).
THEOREM DelayHolds == Spec => []DelayKept
<1>1. OptionInv => DelayKept
  BY DEF OptionInv, DelayRight, DelayKept, server_delay
<1> QED
  BY <1>1, InitTypes, NextTypes, PTL DEF Spec

-----------------------------------------------------------------------------
(* What the workers find, and when main lets go of it.                      *)

\* main frees the contexts after the wait, and no worker moves after its end.
LEMMA FreeStep ==
  TypeOK /\ FreedAfterWorkers /\ [Next]_vars => FreedAfterWorkers'
<1> SUFFICES ASSUME TypeOK, FreedAfterWorkers, [Next]_vars,
                    pc' \in {"free", "exit"}
             PROVE  \A w \in Workers' : stage'[w] = "done"
  BY DEF FreedAfterWorkers
<1> USE DEF workVars, flagVars
<1>1. CASE Parse
  BY <1>1, OptionCases DEF Parse, OptNumQueue, OptMode, OptIpLocal, OptIpDest,
     OptPort, OptDestPort, OptDelay, OptBatch, OptPayload, OptZipf,
     OptDuration, OptNoArp, OptOther
<1>2. CASE \/ ParseEnd \/ CheckCores \/ CreatePools \/ PortInit \/ Fill \/ Install \/ Launch \/ Returned
  BY <1>2 DEF ParseEnd, CheckCores, CreatePools, PortInit, SetupStep, Fill, Install, Launch, Returned
<1>3. CASE Wait
  BY <1>3 DEF Wait, AllDone, Workers
<1>4. CASE Free
  BY <1>4 DEF Free, FreedAfterWorkers, Workers
<1>5. ASSUME NEW w \in Workers, AnyWorker(w) PROVE FALSE
  BY <1>5, WorkerFrame DEF FreedAfterWorkers
<1>6. CASE Signals
  BY <1>6, SignalFrame DEF FreedAfterWorkers, Workers
<1>7. CASE UNCHANGED vars
  BY <1>7 DEF vars, FreedAfterWorkers, Workers
<1> QED
  BY <1>1, <1>2, <1>3, <1>4, <1>5, <1>6, <1>7 DEF Next, MainThread, AnyWorker

\* With any number of cores and however the workers end, main frees nothing that
\* a worker still uses (rte_eal_mp_wait_lcore).
THEOREM FreedHolds == Spec => []FreedAfterWorkers
<1>1. Init => FreedAfterWorkers
  BY DEF Init, FreedAfterWorkers
<1> QED
  BY <1>1, FreeStep, InitTypes, NextTypes, PTL DEF Spec

\* What parse_args and main have checked, by the place main has reached.
Parsed ==
  /\ config.mode \in Modes
  /\ config.source_ip # 0
  /\ config.mode \in Clients => config.batch >= 1 /\ config.count_server_ips >= 1

Fits == count_core <= config.num_queues

Divided == Fits /\ config.num_queues % count_core = 0

Late == {"fill", "install", "launch", "run", "wait", "free", "exit"}

CheckedInv ==
  /\ pc \in {"setup", "pools", "port"} \cup Late => Parsed
  /\ pc \in {"pools", "port"} => Fits
  /\ pc \in Late => Divided

\* The checks at the end of parse_args and at the start of main.
LEMMA CheckedStep ==
  TypeOK /\ CheckedInv /\ [Next]_vars => CheckedInv'
<1> SUFFICES ASSUME TypeOK, CheckedInv, [Next]_vars PROVE CheckedInv'
  OBVIOUS
<1> USE DEF CheckedInv, Late
<1>1. CASE Parse
  <2>1. pc' \in {"parse", "failed"}
    BY <1>1, OptionCases DEF Parse, OptNumQueue, OptMode, OptIpLocal, OptIpDest,
       OptPort, OptDestPort, OptDelay, OptBatch, OptPayload, OptZipf,
       OptDuration, OptNoArp, OptOther
  <2> QED
    BY <2>1
<1>2. CASE ParseEnd
  <2>1. /\ config' = [config EXCEPT !.batch = Batch] /\ config \in Configs
        /\ pc' \in {"setup", "failed"}
    BY <1>2 DEF ParseEnd, TypeOK
  <2>2. /\ config'.batch = Batch /\ config'.mode = config.mode
        /\ config'.source_ip = config.source_ip
        /\ config'.count_server_ips = config.count_server_ips
    BY <2>1 DEF Configs
  <2>3. config.mode \in Clients => Batch >= 1
    BY <2>1, ConstantTypes DEF Batch, ClientMode, Configs
  <2>4. ASSUME pc' = "setup" PROVE Parsed'
    <3>1. /\ config.mode # "undefined" /\ config.source_ip # 0
          /\ config.mode \in Clients => config.count_server_ips # 0
      BY <1>2, <2>4 DEF ParseEnd, ClientMode
    <3>2. config.mode \in Modes /\ config.count_server_ips \in Nat
      BY <2>1, <3>1, ConstantTypes DEF Configs
    <3> QED
      BY <2>2, <2>3, <3>1, <3>2 DEF Parsed
  <2> QED
    BY <2>1, <2>4
<1>3. CASE CheckCores \/ CreatePools \/ PortInit
  <2>1. UNCHANGED <<config, count_core>> /\ count_core \in Nat /\ config.num_queues \in Nat
    BY <1>3, ConstantTypes
    DEF CheckCores, CreatePools, PortInit, SetupStep, TypeOK, Configs
  <2>2. CASE CheckCores
    BY <2>1, <2>2 DEF CheckCores, SetupStep, Parsed, Fits
  <2>3. CASE CreatePools
    BY <2>1, <2>3 DEF CreatePools, SetupStep, Parsed, Fits
  <2>4. CASE PortInit
    BY <2>1, <2>4 DEF PortInit, SetupStep, Parsed, Fits, Divided
  <2> QED
    BY <1>3, <2>2, <2>3, <2>4
<1>4. CASE Fill \/ Install \/ Launch \/ Returned \/ Wait \/ Free
  BY <1>4 DEF Fill, Install, Launch, Returned, Wait, Free, Parsed, Fits, Divided
<1>5. CASE Signals \/ \E w \in Workers : AnyWorker(w)
  <2>1. UNCHANGED <<config, count_core>> /\ pc' \in {pc, "killed", "failed", "aborted"}
    BY <1>5, SignalFrame, WorkerFrame
  <2> QED
    BY <2>1 DEF Parsed, Fits, Divided
<1>6. CASE UNCHANGED vars
  BY <1>6 DEF vars, Parsed, Fits, Divided
<1> QED
  BY <1>1, <1>2, <1>3, <1>4, <1>5, <1>6 DEF Next, MainThread, AnyWorker

\* Rows of equal length that fill the port have each queue in exactly one row.
LEMMA RowsPartition ==
  ASSUME TypeOK, Divided
  PROVE  /\ \A q \in 0..(config.num_queues - 1) :
              \E w \in Workers : q \in Row(w) /\ \A v \in Workers \ {w} : q \notin Row(v)
         /\ \A w \in Workers : Row(w) # {} /\ Row(w) \subseteq 0..(config.num_queues - 1)
<1> DEFINE c == count_core
           n == config.num_queues
           k == queue_per_core
<1>1. c \in Nat /\ c > 0 /\ n \in Nat /\ c <= n /\ n % c = 0
  BY ConstantTypes DEF TypeOK, Configs, Divided, Fits
<1>2. n = k * c /\ k \in Nat
  BY <1>1, DivMod DEF queue_per_core
<1>3. Workers = 0..(c - 1) /\ \A w : Row(w) = {w * k + j : j \in 0..(k - 1)}
  BY DEF Workers, Row
<1> HIDE DEF c, n, k
<1>4. k > 0
  BY <1>1, <1>2
<1>5. ASSUME NEW q \in 0..(n - 1)
      PROVE  \E w \in Workers : q \in Row(w) /\ \A v \in Workers \ {w} : q \notin Row(v)
  <2> DEFINE w == q \div k
             j == q % k
  <2>1. w \in Nat /\ j \in 0..(k - 1) /\ q = w * k + j
    BY <1>1, <1>2, <1>4, DivMod
  <2> HIDE DEF w, j
  <2>2. w < c
    <3>1. CASE c <= w
      <4>1. k * c <= k * w
        BY <1>1, <1>2, <2>1, <3>1, MulMono
      <4>2. k * w = w * k /\ w * k \in Nat
        BY <1>2, <2>1
      <4> QED
        BY <1>1, <1>2, <2>1, <4>1, <4>2
    <3> QED
      BY <1>1, <2>1, <3>1
  <2>3. w \in Workers /\ q \in Row(w)
    BY <1>1, <1>3, <2>1, <2>2
  <2>4. ASSUME NEW v \in Workers \ {w}, q \in Row(v) PROVE FALSE
    <3>1. PICK i \in 0..(k - 1) : q = v * k + i
      BY <1>3, <2>4
    <3>2. v \in Nat /\ v # w
      BY <1>1, <1>3
    <3>3. v * k \in Nat /\ w * k \in Nat
      BY <1>2, <2>1, <3>2
    <3>4. CASE v < w
      <4>1. v * k + i < w * k + j
        BY <1>2, <2>1, <3>2, <3>4, RowsDisjoint
      <4> QED
        BY <2>1, <3>1, <3>3, <4>1
    <3>5. CASE w < v
      <4>1. w * k + j < v * k + i
        BY <1>2, <2>1, <3>2, <3>5, RowsDisjoint
      <4> QED
        BY <2>1, <3>1, <3>3, <4>1
    <3> QED
      BY <2>1, <3>2, <3>4, <3>5
  <2> QED
    BY <2>3, <2>4
<1>6. ASSUME NEW w \in Workers
      PROVE  Row(w) # {} /\ Row(w) \subseteq 0..(n - 1)
  <2>1. 0 \in 0..(k - 1)
    BY <1>2, <1>4
  <2>2. w * k + 0 \in Row(w)
    BY <1>3, <2>1
  <2>3. ASSUME NEW j \in 0..(k - 1) PROVE w * k + j \in 0..(c * k - 1)
    BY <1>1, <1>2, <1>3, <1>4, IndexInRange
  <2>4. c * k = n
    BY <1>1, <1>2
  <2> QED
    BY <1>3, <2>2, <2>3, <2>4
<1> QED
  BY <1>5, <1>6 DEF n

\* For every command line and any number of cores, what main launches is what
\* the workers take for granted (parse_args and the checks of main).
THEOREM LaunchedHolds == Spec => []LaunchedSound
<1>1. Init => CheckedInv
  BY DEF Init, CheckedInv, Late
<1>2. TypeOK /\ OptionInv /\ CheckedInv => LaunchedSound
  BY RowsPartition DEF CheckedInv, Late, OptionInv, Parsed, LaunchedSound, Launched
<1> QED
  BY <1>1, <1>2, CheckedStep, InitTypes, NextTypes, PTL DEF Spec
==============================================================================
