------------------------------ MODULE Startup ------------------------------
(***************************************************************************)
(* The life of the process: Engine::run starts the server thread, waits    *)
(* for it, launches one worker per lcore of the stack (engine.rs), and     *)
(* waits for all of them; every worker asks the server for a thread id and *)
(* initialises its IoNode, which claims a queue and initialises an adapter *)
(* for every interface (nio.rs, modules/dpdk.rs).  The ports are set up by *)
(* whichever worker comes first.                                           *)
(*                                                                         *)
(* A worker that fails panics in a C callback, which aborts the process.   *)
(***************************************************************************)
EXTENDS Integers, Sequences, FiniteSets

CONSTANTS
  NumWorkers,   \* workers of the stack: one per graph entry and cpu of it
  Cpu,          \* Cpu[w]: the lcore of a worker
  Entry,        \* Entry[w]: the graph entry it comes from
  Port          \* Port[i]: the port of the i-th interface of the stack

Workers == 1 .. NumWorkers
Cpus == {Cpu[w] : w \in Workers}
Nics == 1 .. Len(Port)
Ports == {Port[i] : i \in Nics}

ASSUME StartupAssumption ==
  /\ NumWorkers \in Nat
  /\ Cpu \in [Workers -> Nat]
  /\ Entry \in [Workers -> Nat]
  /\ Port \in Seq(Nat)

(* stack_config.graphs[graph_id].cpus.len() *)
NumQueues(w) == Cardinality({v \in Workers : Entry[v] = Entry[w]})

VARIABLES
  main,        \* where Engine::run is
  launched,    \* workers main has gone through
  server,      \* the server thread
  serverUp,    \* SERVER_UP_FLAG
  lcore,       \* the workers running on the lcores
  pc,          \* where a worker is
  queue,       \* the queue id a worker has claimed
  nic,         \* the interface whose adapter it initialises
  queueId,     \* QUEUE_ID
  once,        \* INIT_ONCE
  initDone,    \* INIT_DONE_FLAG
  queues,      \* queues[p]: queues configured on port p, 0 before port_init
  aborted,     \* the process has aborted
  stop         \* STOP_FLAG

mainVars == <<main, launched>>
initVars == <<queueId, once, initDone, queues>>
vars == <<main, launched, server, serverUp, lcore, pc, queue, nic,
          queueId, once, initDone, queues, aborted, stop>>

Labels == {"none", "enter", "queue", "once", "portInit", "wait", "ready",
           "running", "stopped"}

TypeOK ==
  /\ main \in {"spawn", "spin", "launch", "join", "waitLcore", "done"}
  /\ launched \in 0 .. NumWorkers
  /\ server \in {"none", "starting", "bound", "up", "down", "failed"}
  /\ serverUp \in BOOLEAN
  /\ lcore \subseteq Workers
  /\ pc \in [Workers -> Labels]
  /\ queue \in [Workers -> 0 .. NumWorkers]
  /\ nic \in [Workers -> 1 .. Len(Port) + 1]
  /\ queueId \in 0 .. NumWorkers
  /\ once \in {"new", "running", "done"}
  /\ initDone \in BOOLEAN
  /\ queues \in [Ports -> 0 .. NumWorkers]
  /\ aborted \in BOOLEAN
  /\ stop \in BOOLEAN

Init ==
  /\ main = "spawn"
  /\ launched = 0
  /\ server = "none"
  /\ serverUp = FALSE
  /\ lcore = {}
  /\ pc = [w \in Workers |-> "none"]
  /\ queue = [w \in Workers |-> 0]
  /\ nic = [w \in Workers |-> 1]
  /\ queueId = 0
  /\ once = "new"
  /\ initDone = FALSE
  /\ queues = [p \in Ports |-> 0]
  /\ aborted = FALSE
  /\ stop = FALSE

-----------------------------------------------------------------------------
(* Engine::run.                                                            *)

SpawnServer ==
  /\ ~ aborted
  /\ main = "spawn"
  /\ main' = "spin"
  /\ server' = "starting"
  /\ UNCHANGED <<launched, serverUp, lcore, pc, queue, nic, initVars, aborted, stop>>

(* Mutation of SpinDone: main does not wait for the server. *)
SpinSkipped ==
  /\ ~ aborted
  /\ main = "spin"
  /\ main' = "launch"
  /\ UNCHANGED <<launched, server, serverUp, lcore, pc, queue, nic, initVars, aborted, stop>>

(* while !SERVER_UP_FLAG *)
SpinDone ==
  /\ ~ aborted
  /\ main = "spin"
  /\ serverUp
  /\ main' = "launch"
  /\ UNCHANGED <<launched, server, serverUp, lcore, pc, queue, nic, initVars, aborted, stop>>

(* run_workers: rte_eal_remote_launch refuses an lcore that is busy, and   *)
(* the result is not looked at.                                            *)
Launch ==
  /\ ~ aborted
  /\ main = "launch"
  /\ launched < NumWorkers
  /\ launched' = launched + 1
  /\ LET w == launched + 1
     IN  \/ /\ \A v \in lcore : Cpu[v] # Cpu[w]
            /\ lcore' = lcore \cup {w}
            /\ pc' = [pc EXCEPT ![w] = "enter"]
         \/ /\ \E v \in lcore : Cpu[v] = Cpu[w]
            /\ UNCHANGED <<lcore, pc>>
  /\ UNCHANGED <<main, server, serverUp, queue, nic, initVars, aborted, stop>>

LaunchDone ==
  /\ ~ aborted
  /\ main = "launch"
  /\ launched = NumWorkers
  /\ main' = "join"
  /\ UNCHANGED <<launched, server, serverUp, lcore, pc, queue, nic, initVars, aborted, stop>>

(* server.join() *)
Join ==
  /\ ~ aborted
  /\ main = "join"
  /\ server \in {"down", "failed"}
  /\ main' = "waitLcore"
  /\ UNCHANGED <<launched, server, serverUp, lcore, pc, queue, nic, initVars, aborted, stop>>

(* rte_eal_mp_wait_lcore() *)
WaitLcores ==
  /\ ~ aborted
  /\ main = "waitLcore"
  /\ lcore = {}
  /\ main' = "done"
  /\ UNCHANGED <<launched, server, serverUp, lcore, pc, queue, nic, initVars, aborted, stop>>

-----------------------------------------------------------------------------
(* Server::run, from the outside; module Service has the rest.             *)

Bind ==
  /\ ~ aborted
  /\ server = "starting"
  /\ server' = "bound"
  /\ UNCHANGED <<mainVars, serverUp, lcore, pc, queue, nic, initVars, aborted, stop>>

(* Poll::new, bind or register fails: the thread returns its error.        *)
BindFails ==
  /\ ~ aborted
  /\ server = "starting"
  /\ server' = "failed"
  /\ UNCHANGED <<mainVars, serverUp, lcore, pc, queue, nic, initVars, aborted, stop>>

ServerReady ==
  /\ ~ aborted
  /\ server = "bound"
  /\ server' = "up"
  /\ serverUp' = TRUE
  /\ UNCHANGED <<mainVars, lcore, pc, queue, nic, initVars, aborted, stop>>

ServerDown ==
  /\ ~ aborted
  /\ server = "up"
  /\ stop
  /\ server' = "down"
  /\ UNCHANGED <<mainVars, serverUp, lcore, pc, queue, nic, initVars, aborted, stop>>

-----------------------------------------------------------------------------
(* Worker::run, up to its loop.                                            *)

Step(w, from, to) ==
  /\ ~ aborted
  /\ pc[w] = from
  /\ pc' = [pc EXCEPT ![w] = to]

(* The ThreadEnter request is granted ... *)
EnterOk(w) ==
  /\ server = "up"
  /\ Step(w, "enter", "queue")
  /\ UNCHANGED <<mainVars, server, serverUp, lcore, queue, nic, initVars, aborted, stop>>

(* ... or fails: the server is gone, or too slow. *)
EnterFails(w) ==
  /\ ~ aborted
  /\ pc[w] = "enter"
  /\ aborted' = TRUE
  /\ UNCHANGED <<mainVars, server, serverUp, lcore, pc, queue, nic, initVars, stop>>

(* The loop of IoNode::init over the interfaces, at the k-th. *)
AdapterLoop(k) == IF k <= Len(Port) THEN "once" ELSE "running"

(* Mutation of TakeQueue: the counter is advanced by the number of queues. *)
TakeQueueBlock(w) ==
  /\ Step(w, "queue", AdapterLoop(1))
  /\ queue' = [queue EXCEPT ![w] = queueId]
  /\ queueId' = queueId + NumQueues(w)
  /\ UNCHANGED <<mainVars, server, serverUp, lcore, nic, once, initDone, queues, aborted, stop>>

(* Mutation of TakeQueue: the counter is read and not advanced. *)
TakeQueueLoad(w) ==
  /\ Step(w, "queue", AdapterLoop(1))
  /\ queue' = [queue EXCEPT ![w] = queueId]
  /\ UNCHANGED <<mainVars, server, serverUp, lcore, nic, initVars, aborted, stop>>

(* IoNode::init: QUEUE_ID.fetch_add(1) *)
TakeQueue(w) ==
  /\ Step(w, "queue", AdapterLoop(1))
  /\ queue' = [queue EXCEPT ![w] = queueId]
  /\ queueId' = queueId + 1
  /\ UNCHANGED <<mainVars, server, serverUp, lcore, nic, once, initDone, queues, aborted, stop>>

(* Mutation of OnceFirst: a flag set before the work in place of a Once.  *)
OnceFirstEarly(w) ==
  /\ once = "new"
  /\ once' = "done"
  /\ initDone' = TRUE
  /\ Step(w, "once", "portInit")
  /\ UNCHANGED <<mainVars, server, serverUp, lcore, queue, nic, queueId, queues, aborted, stop>>

(* Dpdk::init: INIT_ONCE.call_once runs its closure for the first caller,  *)
(* and lets no other pass before it has returned.                          *)
OnceFirst(w) ==
  /\ once = "new"
  /\ once' = "running"
  /\ Step(w, "once", "portInit")
  /\ UNCHANGED <<mainVars, server, serverUp, lcore, queue, nic, queueId, initDone, queues,
                 aborted, stop>>

OnceLater(w) ==
  /\ once = "done"
  /\ Step(w, "once", "wait")
  /\ UNCHANGED <<mainVars, server, serverUp, lcore, queue, nic, initVars, aborted, stop>>

(* port_init of the port of the interface at hand, for the queues of this  *)
(* worker's graph entry.                                                   *)
PortInit(w) ==
  /\ Step(w, "portInit", "wait")
  /\ queues' = [queues EXCEPT ![Port[nic[w]]] = NumQueues(w)]
  /\ initDone' = TRUE
  /\ once' = "done"
  /\ UNCHANGED <<mainVars, server, serverUp, lcore, queue, nic, queueId, aborted, stop>>

PortInitFails(w) ==
  /\ ~ aborted
  /\ pc[w] = "portInit"
  /\ aborted' = TRUE
  /\ UNCHANGED <<mainVars, server, serverUp, lcore, pc, queue, nic, initVars, stop>>

(* while !INIT_DONE_FLAG *)
WaitDone(w) ==
  /\ initDone
  /\ Step(w, "wait", "ready")
  /\ UNCHANGED <<mainVars, server, serverUp, lcore, queue, nic, initVars, aborted, stop>>

(* Mutation of AdapterInit: the loop over the interfaces does not advance. *)
AdapterInitAgain(w) ==
  /\ Step(w, "ready", "once")
  /\ queues[Port[nic[w]]] # 0
  /\ UNCHANGED <<mainVars, server, serverUp, lcore, queue, nic, initVars, aborted, stop>>

(* The rest of Dpdk::init, which uses the port and its mbuf pool.          *)
AdapterInit(w) ==
  /\ Step(w, "ready", AdapterLoop(nic[w] + 1))
  /\ queues[Port[nic[w]]] # 0
  /\ nic' = [nic EXCEPT ![w] = @ + 1]
  /\ UNCHANGED <<mainVars, server, serverUp, lcore, queue, initVars, aborted, stop>>

(* The assertion that the pool exists, or a call that uses the port, fails. *)
AdapterInitFails(w) ==
  /\ ~ aborted
  /\ pc[w] = "ready"
  /\ aborted' = TRUE
  /\ UNCHANGED <<mainVars, server, serverUp, lcore, pc, queue, nic, initVars, stop>>

(* Mutation of WorkerStops: the worker stays in its loop. *)
WorkerIgnoresStop(w) ==
  /\ stop
  /\ pc[w] = "running"
  /\ UNCHANGED vars

(* The loop of Worker::run ends on STOP_FLAG and the worker returns, which *)
(* is one step here.  Until it has left the flushes of its last round and  *)
(* of destroy, which do not look at the flag, it stays "running": that it  *)
(* leaves them is StopEnds of module Datapath, for interfaces that keep    *)
(* sending.                                                                *)
WorkerStops(w) ==
  /\ stop
  /\ Step(w, "running", "stopped")
  /\ lcore' = lcore \ {w}
  /\ UNCHANGED <<mainVars, server, serverUp, queue, nic, initVars, aborted, stop>>

-----------------------------------------------------------------------------

(* The ctrl-c handler, installed before the server starts. *)
Shutdown ==
  /\ ~ aborted
  /\ ~ stop
  /\ stop' = TRUE
  /\ UNCHANGED <<mainVars, server, serverUp, lcore, pc, queue, nic, initVars, aborted>>

MainStep == SpawnServer \/ SpinDone \/ Launch \/ LaunchDone \/ Join \/ WaitLcores

ServerStep == Bind \/ BindFails \/ ServerReady \/ ServerDown

WorkerStep(w) ==
  \/ EnterOk(w) \/ EnterFails(w) \/ TakeQueue(w) \/ OnceFirst(w) \/ OnceLater(w)
  \/ PortInit(w) \/ PortInitFails(w) \/ WaitDone(w) \/ AdapterInit(w)
  \/ AdapterInitFails(w) \/ WorkerStops(w)

(* The process is over, or main spins for a server that has failed. *)
Over ==
  /\ aborted \/ main = "done" \/ (main = "spin" /\ server = "failed")
  /\ UNCHANGED vars

Next ==
  \/ MainStep
  \/ ServerStep
  \/ \E w \in Workers : WorkerStep(w)
  \/ Shutdown
  \/ Over

Spec == Init /\ [][Next]_vars

(* Every thread has a core and keeps running.  For the workers this takes  *)
(* in that their interfaces keep sending: else a worker can stay in        *)
(* Dpdk::flush for ever, and WorkerStops is never taken (module Datapath). *)
FairSpec ==
  /\ Spec
  /\ WF_vars(MainStep)
  /\ WF_vars(ServerStep)
  /\ \A w \in Workers : WF_vars(WorkerStep(w))

-----------------------------------------------------------------------------
(* Properties.                                                             *)

(* No worker sends its request before the server listens. *)
ServerFirst ==
  \A w \in Workers : pc[w] # "none" => server \in {"up", "down"} /\ serverUp

(* dpdk.rs: "wait until port is initialized".  A worker that has waited    *)
(* finds the port of its adapter initialised.                              *)
PortReady ==
  \A w \in Workers : pc[w] = "ready" => queues[Port[nic[w]]] # 0

(* Workers that poll share no queue of a port, and use only queues that    *)
(* port_init has configured.                                               *)
OwnQueue ==
  \A w \in Workers : pc[w] = "running" =>
    /\ \A i \in Nics : queue[w] < queues[Port[i]]
    /\ \A v \in Workers \ {w} : pc[v] = "running" => queue[v] # queue[w]

(* After ctrl-c Engine::run returns, or a worker that cannot start aborts  *)
(* the process; except when the server could not start, and main waits     *)
(* for it for ever (Over).                                                 *)
StopReturns ==
  stop ~> (main = "done" \/ aborted \/ server = "failed")

(* Every worker that has an lcore to itself gets to its loop. *)
Alone(w) == \A v \in Workers \ {w} : Cpu[v] # Cpu[w]

WorkersRun ==
  \A w \in Workers : Alone(w) =>
    <>(pc[w] = "running" \/ stop \/ aborted \/ server = "failed")
=============================================================================
