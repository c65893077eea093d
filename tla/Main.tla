-------------------------------- MODULE Main ---------------------------------
(***************************************************************************)
(* The process from its command line to its exit: parse_args (config.c),   *)
(* and main with the signal handlers (main.c, latency_client.c).  The      *)
(* workers are modelled by the stages that main and the handlers can see;  *)
(* what they do in their loops is the subject of the modules Server, Arp,  *)
(* Client and LatencyClient, whose assumptions LaunchedSound is about.     *)
(*                                                                         *)
(* Options that are stored unchecked and steer no branch here (--rate,     *)
(* --max-num, --add-katran-opt, --hdr-encap-sz, --num-flow, --unidir) are  *)
(* one action, which accepts or refuses: the modes they demand are left    *)
(* out, so that the model has every outcome the code can have.             *)
(***************************************************************************)
EXTENDS Integers

CONSTANTS
  CoreCounts,                \* possible results of rte_lcore_count()
  MaxCntxs,                  \* length of cntxs
  MAX_SERVER_IP_DEST,
  MAX_BURST_SIZE, BURST_SIZE, \* limits of do_client and do_latency_client
  DefaultBatch,              \* batch of the load generator
  DefaultPort,               \* client_port
  U16, U32,                  \* 2^16 and 2^32
  QueueArgs, BatchArgs, PortArgs, DelayArgs, PayloadArgs,
  ZipfArgs,                  \* pairs of total-count and count-port
  MaxOpts                    \* bound: options on the command line

Modes == {"client", "server", "latency"}
Clients == {"client", "latency"}

ASSUME MainAssumption ==
  /\ CoreCounts \subseteq Nat \ {0}
  /\ {MaxCntxs, MAX_SERVER_IP_DEST, MAX_BURST_SIZE, BURST_SIZE, DefaultBatch}
       \subseteq Nat \ {0}
  /\ {U16, U32} \subseteq Nat \ {0}
  /\ 1 < U16 /\ DefaultBatch < U16 /\ DefaultPort \in 0..(U16 - 1)
  /\ U16 <= U32 /\ U32 % U16 = 0
  /\ {QueueArgs, BatchArgs, PortArgs, DelayArgs, PayloadArgs} \subseteq SUBSET Int
  /\ ZipfArgs \subseteq Nat \X Nat
  /\ MaxOpts \in Nat

VARIABLES
  pc,                        \* main
  count_core,                \* given by the EAL arguments
  config,
  opts,                      \* options parsed so far
  delay_opt,                 \* the argument of the last --delay, or empty
  running,                   \* of each context
  stage,                     \* of each worker
  sigint, sighup,            \* who handles the signals
  signal_received,
  lat_running, in_the_loop   \* the static flags of latency_client.c

flagVars == <<sigint, sighup, signal_received, lat_running, in_the_loop>>
workVars == <<running, stage, flagVars>>
vars == <<pc, count_core, config, opts, delay_opt, workVars>>

Workers == 0..(count_core - 1)

\* parse_args: memset and the default values.  word is the first word of the
\* union: client_port in its low half, or all of server_delay.
Defaults == [mode |-> "undefined", source_ip |-> 0, num_queues |-> 1,
             batch |-> 0, count_server_ips |-> 0, word |-> DefaultPort,
             server_port |-> 8080 % U16, payload_size |-> 64,
             zipf |-> <<1, 1>>, timed |-> FALSE, do_arp |-> TRUE]

Init ==
  /\ pc = "parse"
  /\ count_core \in CoreCounts
  /\ config = Defaults
  /\ opts = 0
  /\ delay_opt = {}
  /\ running = [w \in Workers |-> FALSE]
  /\ stage = [w \in Workers |-> "off"]
  /\ sigint = "default"
  /\ sighup = "default"
  /\ signal_received = FALSE
  /\ lat_running = TRUE
  /\ in_the_loop = FALSE

-----------------------------------------------------------------------------
(* The options, in any order.  ok says whether the option is accepted; else *)
(* rte_exit ends the process.                                               *)

Option(ok, new) ==
  /\ pc = "parse"
  /\ opts < MaxOpts
  /\ opts' = opts + 1
  /\ IF ok THEN config' = new /\ UNCHANGED pc
           ELSE pc' = "failed" /\ UNCHANGED config
  /\ UNCHANGED <<count_core, workVars>>

ClientMode == config.mode \in Clients

OptNumQueue(n) ==
  /\ Option(n >= 1, [config EXCEPT !.num_queues = n % U16])
  /\ UNCHANGED delay_opt

\* check_only_one_mode
OptMode(m) ==
  /\ Option(config.mode = "undefined", [config EXCEPT !.mode = m])
  /\ UNCHANGED delay_opt

\* -1 is a string that str_to_ip refuses
OptIpLocal(ip) ==
  /\ Option(ip >= 0, [config EXCEPT !.source_ip = ip])
  /\ UNCHANGED delay_opt

RoomForOneMore == config.count_server_ips <= MAX_SERVER_IP_DEST
RoomForIp == config.count_server_ips < MAX_SERVER_IP_DEST

OptIpDest(ip) ==
  /\ Option(ClientMode /\ RoomForIp /\ ip >= 0,
            [config EXCEPT !.count_server_ips = @ + 1])
  /\ UNCHANGED delay_opt

\* the low half of the union's first word
SetClientPort(p) == [config EXCEPT !.word = (@ - (@ % U16)) + (p % U16)]

WithPortInUnion(p) == SetClientPort(p)
WithPort(p) == IF config.mode = "server"
               THEN [config EXCEPT !.server_port = p % U16]
               ELSE SetClientPort(p)

OptPort(p) ==
  /\ Option(p > 0 /\ config.mode # "undefined", WithPort(p))
  /\ UNCHANGED delay_opt

OptDestPort(p) ==
  /\ Option(ClientMode /\ p > 0, [config EXCEPT !.server_port = p % U16])
  /\ UNCHANGED delay_opt

\* delay_cycles of the clients is not modelled
OptDelay(d) ==
  /\ Option(config.mode # "undefined",
            IF config.mode = "server" THEN [config EXCEPT !.word = d % U32]
            ELSE config)
  /\ delay_opt' = {d}

OptBatch(b) ==
  /\ Option(ClientMode /\ b >= 1, [config EXCEPT !.batch = b % U16])
  /\ UNCHANGED delay_opt

OptPayload(n) ==
  /\ Option(ClientMode /\ n >= 1, [config EXCEPT !.payload_size = n])
  /\ UNCHANGED delay_opt

\* _parse_zipf_client_addr_arg; a string of the wrong format is refused too
OptZipf(z) ==
  /\ Option(config.mode = "client" /\ z[2] <= z[1], [config EXCEPT !.zipf = z])
  /\ UNCHANGED delay_opt

\* --duration: whether it is positive
OptDuration(positive) ==
  /\ Option(TRUE, [config EXCEPT !.timed = positive])
  /\ UNCHANGED delay_opt

\* _parse_no_arp_arg
OptNoArp(ok) ==
  /\ Option(ok, [config EXCEPT !.do_arp = FALSE])
  /\ UNCHANGED delay_opt

\* the options without an effect here; --hdr-encap-sz demands latency-client;
\* --help and unknown options end the process
OptOther(ok) ==
  /\ Option(ok, config)
  /\ UNCHANGED delay_opt

Parse ==
  \/ \E n \in QueueArgs : OptNumQueue(n)
  \/ \E m \in Modes : OptMode(m)
  \/ \E ip \in {-1, 0, 1} : OptIpLocal(ip) \/ OptIpDest(ip)
  \/ \E p \in PortArgs : OptPort(p) \/ OptDestPort(p)
  \/ \E d \in DelayArgs : OptDelay(d)
  \/ \E b \in BatchArgs : OptBatch(b)
  \/ \E n \in PayloadArgs : OptPayload(n)
  \/ \E z \in ZipfArgs : OptZipf(z)
  \/ \E b \in BOOLEAN : OptDuration(b) \/ OptNoArp(b) \/ OptOther(b)

\* the checks after the last option
BatchUnset == config.batch
Batch ==
  IF config.batch = 0 /\ ClientMode
  THEN IF config.mode = "client" THEN DefaultBatch ELSE 1
  ELSE config.batch

ParseEnd ==
  /\ pc = "parse"
  /\ config' = [config EXCEPT !.batch = Batch]
  /\ pc' = IF \/ config.mode = "undefined"
              \/ config.source_ip = 0
              \/ ClientMode /\ config.count_server_ips = 0
           THEN "failed" ELSE "setup"
  /\ UNCHANGED <<count_core, opts, delay_opt, workVars>>

-----------------------------------------------------------------------------
(* main                                                                     *)

queue_per_core == config.num_queues \div count_core

\* A step of the set-up that may end the process goes to one of these places.
SetupStep(from, to) ==
  /\ pc = from
  /\ pc' \in to
  /\ UNCHANGED <<count_core, config, opts, delay_opt, workVars>>

\* enough queues, and a port to use
CheckCores ==
  SetupStep("setup", IF count_core > config.num_queues THEN {"failed"}
                     ELSE {"failed", "pools"})

CreatePools == SetupStep("pools", {"failed", "port"})

\* dpdk_port_init, any call of which may fail; then main asserts that the
\* queues can be divided among the cores
PortInit ==
  SetupStep("port", {"failed", IF config.num_queues % count_core = 0
                               THEN "fill" ELSE "aborted"})

\* The contexts; nothing compares count_core with the length of cntxs.  What
\* becomes of a process that has written past it is left open.
Fill ==
  /\ pc = "fill"
  /\ IF count_core <= MaxCntxs
     THEN /\ running' = [w \in Workers |-> TRUE]
          /\ pc' = IF config.mode = "server" THEN "launch" ELSE "install"
     ELSE pc' = "smashed" /\ UNCHANGED running
  /\ UNCHANGED <<count_core, config, opts, delay_opt, stage, flagVars>>

\* what the contexts of worker w are filled with
server_delay == config.word
Row(w) == {w * queue_per_core + q : q \in 0..(queue_per_core - 1)}

Install ==
  /\ pc = "install"
  /\ sigint' = "main"
  /\ sighup' = "main"
  /\ pc' = "launch"
  /\ UNCHANGED <<count_core, config, opts, delay_opt, running, stage,
                 signal_received, lat_running, in_the_loop>>

Launch ==
  /\ pc = "launch"
  /\ stage' = [w \in Workers |-> "start"]
  /\ pc' = "run"
  /\ UNCHANGED <<count_core, config, opts, delay_opt, running, flagVars>>

\* Worker 0 has returned; a server stops the others
StopNobody == UNCHANGED running
StopWorkers == running' = [w \in Workers |-> FALSE]

Returned ==
  /\ pc = "run"
  /\ stage[0] = "done"
  /\ IF config.mode = "server" THEN StopWorkers ELSE UNCHANGED running
  /\ pc' = "wait"
  /\ UNCHANGED <<count_core, config, opts, delay_opt, stage, flagVars>>

WaitNobody == TRUE
AllDone == \A w \in Workers : stage[w] = "done"

\* rte_eal_mp_wait_lcore; then the output buffers are printed
Wait ==
  /\ pc = "wait"
  /\ AllDone
  /\ pc' = "free"
  /\ UNCHANGED <<count_core, config, opts, delay_opt, workVars>>

\* free the contexts' memory and return
Free ==
  /\ pc = "free"
  /\ pc' = "exit"
  /\ UNCHANGED <<count_core, config, opts, delay_opt, workVars>>

MainThread ==
  ParseEnd \/ CheckCores \/ CreatePools \/ PortInit \/ Fill \/ Install \/ Launch \/ Returned \/ Wait \/ Free

-----------------------------------------------------------------------------
(* The workers.  Ends(how) is a worker that takes the process with it.      *)

Ended == pc \in {"exit", "failed", "aborted", "killed", "smashed"}

At(w, mode, place) == ~Ended /\ config.mode = mode /\ stage[w] = place
Move(w, place) == stage' = [stage EXCEPT ![w] = place] /\ UNCHANGED pc
Ends(how) == pc' = how /\ UNCHANGED stage
WorkUnchanged == UNCHANGED <<count_core, config, opts, delay_opt>>

\* do_server: the loop ends when running is cleared ...
ServerStart(w) ==
  /\ At(w, "server", "start")
  /\ Move(w, "loop")
  /\ WorkUnchanged /\ UNCHANGED <<running, flagVars>>

ServerStopped(w) ==
  /\ At(w, "server", "loop")
  /\ ~running[w]
  /\ Move(w, "done")
  /\ WorkUnchanged /\ UNCHANGED <<running, flagVars>>

\* ... or when the worker finds its queues silent
ServerSilent(w) ==
  /\ At(w, "server", "loop")
  /\ running' = [running EXCEPT ![w] = FALSE]
  /\ Move(w, "done")
  /\ WorkUnchanged /\ UNCHANGED flagVars

\* do_client
ClientStart(w) ==
  /\ At(w, "client", "start")
  /\ IF config.batch > MAX_BURST_SIZE THEN Ends("failed")
     ELSE Move(w, IF config.do_arp THEN "arp" ELSE "loop")
  /\ WorkUnchanged /\ UNCHANGED <<running, flagVars>>

ClientEnd(w) ==
  /\ At(w, "client", "loop")
  /\ ~running[w] \/ config.timed
  /\ running' = [running EXCEPT ![w] = FALSE]
  /\ Move(w, "done")
  /\ WorkUnchanged /\ UNCHANGED flagVars

\* the assertion on the destination
ClientAbort(w) ==
  /\ At(w, "client", "loop")
  /\ running[w]
  /\ config.count_server_ips > 1
  /\ Ends("aborted")
  /\ WorkUnchanged /\ UNCHANGED <<running, flagVars>>

\* do_latency_client
LatencyStart(w) ==
  /\ At(w, "latency", "start")
  /\ sigint' = "latency"
  /\ IF config.count_server_ips # 1 THEN Ends("failed")
     ELSE Move(w, IF config.batch > BURST_SIZE THEN "done" ELSE "arp")
  /\ WorkUnchanged
  /\ UNCHANGED <<running, sighup, signal_received, lat_running, in_the_loop>>

LatencyEnd(w) ==
  /\ At(w, "latency", "loop")
  /\ ~lat_running
  /\ Move(w, "done")
  /\ WorkUnchanged /\ UNCHANGED <<running, flagVars>>

\* get_dst_mac returns; it looks at none of the flags
ClientArp(w) ==
  /\ At(w, "client", "arp")
  /\ Move(w, "loop")
  /\ WorkUnchanged /\ UNCHANGED <<running, flagVars>>

LatencyArp(w) ==
  /\ At(w, "latency", "arp")
  /\ IF queue_per_core = 1
     THEN in_the_loop' = TRUE /\ Move(w, "loop")
     ELSE Ends("aborted") /\ UNCHANGED in_the_loop
  /\ WorkUnchanged
  /\ UNCHANGED <<running, sigint, sighup, signal_received, lat_running>>

Worker(w) ==
  \/ ServerStart(w) \/ ServerStopped(w)
  \/ ClientStart(w) \/ ClientEnd(w) \/ ClientAbort(w)
  \/ LatencyStart(w) \/ LatencyEnd(w)

Arp(w) == ClientArp(w) \/ LatencyArp(w)

-----------------------------------------------------------------------------
(* Signals, at any moment.                                                  *)

Signal(handler, who) ==
  /\ ~Ended
  /\ handler = who
  /\ UNCHANGED <<count_core, config, opts, delay_opt, stage, sigint, sighup,
                 in_the_loop>>

Killed(handler) ==
  /\ Signal(handler, "default")
  /\ pc' = "killed"
  /\ UNCHANGED <<running, signal_received, lat_running>>

StopsButTheLast(r) == [w \in Workers |-> IF w < count_core - 1 THEN FALSE ELSE r[w]]
Stops(r) == [w \in Workers |-> FALSE]

handle_main_int(handler) ==
  /\ Signal(handler, "main")
  /\ signal_received' = TRUE
  /\ running' = Stops(running)
  /\ UNCHANGED <<pc, lat_running>>

handle_int ==
  /\ Signal(sigint, "latency")
  /\ lat_running' = FALSE
  /\ pc' = IF in_the_loop THEN pc ELSE "failed"
  /\ UNCHANGED <<running, signal_received>>

Signals ==
  \/ Killed(sigint) \/ Killed(sighup)
  \/ handle_main_int(sigint) \/ handle_main_int(sighup)
  \/ handle_int

Next ==
  \/ Parse \/ MainThread \/ Signals
  \/ \E w \in Workers : Worker(w) \/ ServerSilent(w) \/ Arp(w)

Spec == Init /\ [][Next]_vars

\* Every core runs.  That a silence ends a server and that an ARP request is
\* answered in the end is not assumed.
FairSpec ==
  /\ Spec
  /\ WF_vars(MainThread)
  /\ \A w \in 0..(MaxCntxs - 1) : WF_vars(w \in Workers /\ Worker(w))

-----------------------------------------------------------------------------
(* Properties                                                               *)

Configs == [mode : Modes \cup {"undefined"}, source_ip : {0, 1},
            num_queues : 0..(U16 - 1), batch : 0..(U16 - 1),
            count_server_ips : 0..MAX_SERVER_IP_DEST, word : 0..(U32 - 1),
            server_port : 0..(U16 - 1), payload_size : Nat, zipf : Nat \X Nat,
            timed : BOOLEAN, do_arp : BOOLEAN]

\* The values the variables may take; in particular server_ips never holds
\* more addresses than parse_args has allocated for it.
TypeOK ==
  /\ pc \in {"parse", "setup", "pools", "port", "fill", "install", "launch", "run",
             "wait", "free", "exit", "failed", "aborted", "killed", "smashed"}
  /\ count_core \in CoreCounts
  /\ config \in Configs
  /\ opts \in 0..MaxOpts
  /\ delay_opt \in SUBSET DelayArgs
  /\ running \in [Workers -> BOOLEAN]
  /\ stage \in [Workers -> {"off", "start", "arp", "loop", "done"}]
  /\ sigint \in {"default", "main", "latency"}
  /\ sighup \in {"default", "main"}
  /\ signal_received \in BOOLEAN
  /\ lat_running \in BOOLEAN
  /\ in_the_loop \in BOOLEAN

Launched == pc \in {"run", "wait", "free", "exit"}

\* What the workers take for granted: each queue of the port belongs to exactly
\* one of them, and a client has a batch that is not empty, a destination, a
\* payload and at least as many addresses as ports.  It holds for every order
\* of the options, and although --num-queue and --batch lose their upper bits.
LaunchedSound ==
  Launched =>
    /\ config.source_ip # 0
    /\ \A q \in 0..(config.num_queues - 1) :
         \E w \in Workers : q \in Row(w) /\ \A v \in Workers \ {w} : q \notin Row(v)
    /\ \A w \in Workers : Row(w) # {} /\ Row(w) \subseteq 0..(config.num_queues - 1)
    /\ config.mode \in Clients =>
         /\ config.batch >= 1
         /\ config.count_server_ips >= 1
         /\ config.payload_size >= 1
         /\ config.zipf[2] <= config.zipf[1]

\* A server works with the delay of the last --delay, whatever options came
\* before or after it: none of those a server accepts writes to the first word
\* of the union.
DelayKept ==
  Launched /\ config.mode = "server" =>
    \A d \in delay_opt : server_delay = d % U32

\* The contexts and the output buffers are released only when no worker uses
\* them any more.
FreedAfterWorkers == pc \in {"free", "exit"} => \A w \in Workers : stage[w] = "done"

StuckInArp == \E w \in Workers : stage[w] = "arp"

\* A signal has cleared the flag that the workers of this mode read:
\* handle_main_int those of the load generator, handle_int the static one of
\* the latency client.
StopRequested ==
  \/ config.mode = "client" /\ signal_received
  \/ ~lat_running

\* A load generator that gets SIGINT or SIGHUP, and a latency client whose own
\* handler gets SIGINT, ends on all its cores, unless a worker waits for an ARP
\* reply for ever.  It is not said of a latency client that gets SIGHUP, or
\* SIGINT before do_latency_client has replaced the handler: handle_main_int
\* then clears only cntx->running, which a latency client does not read.
InterruptStops == StopRequested ~> (Ended \/ []StuckInArp)

\* Once its own worker has returned, main does not wait for ever for the
\* others, unless one of them waits for an ARP reply for ever.
MainReturns == (pc = "wait") ~> (Ended \/ []StuckInArp)
==============================================================================
