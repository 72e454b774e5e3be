------------------------------- MODULE Worker -------------------------------
(***************************************************************************)
(* One worker thread of the engine (omnistack-core/src/engine.rs, Worker): *)
(* it enters the stack, initialises the modules of its graph, and then     *)
(* loops: poll every node that can be polled, queue a task for every       *)
(* packet and link, and process the tasks, last in first out, until the    *)
(* queue is empty.  Packets come from a pool shared by the workers of a    *)
(* socket and are reference counted.                                       *)
(*                                                                         *)
(* What a module does to a packet's bytes is left out; what it does with   *)
(* the packet itself is not: forward it, free it, or hand it to a network  *)
(* adapter, which frees it from a callback when the frame has left.  The   *)
(* adapter is modelled in detail by module IoNode; here it is the set of   *)
(* references it holds.                                                    *)
(***************************************************************************)
EXTENDS Integers, Sequences, FiniteSets

CONSTANTS
  NumNodes,       \* nodes of the graph, 1..NumNodes in configuration order
  Kind,           \* Kind[n]: "user", "io", "forward" or "filter"
  Links,          \* Links[n]: the nodes n forwards to (Node::links_to)
  Packets,        \* the slots of the packet pool
  UserBurst,      \* packets a UserNode allocates per poll (user.rs BURST_SIZE)
  RxBurst,        \* most packets an adapter receives per poll (dpdk.rs BURST_SIZE)
  TaskQueueSize,  \* Worker::TASK_QUEUE_SIZE
  MaxLinks,       \* capacity of Node::links_to
  MaxPollers,     \* capacity of Worker::nodes_to_poll
  Height          \* Height[n]: bound on the forwarding steps below node n

Nodes == 1 .. NumNodes

Kinds == {"user", "io", "forward", "filter"}

(* capability(): UserNode and IoNode are the modules with the POLL flag. *)
Pollable(n) == Kind[n] \in {"user", "io"}

(* Nodes whose process can return Ok, so that the worker forwards.         *)
Forwards(n) == Kind[n] \in {"forward", "filter"}

ASSUME GraphAssumption ==
  /\ NumNodes \in Nat
  /\ Kind \in [Nodes -> Kinds]
  /\ Links \in [Nodes -> Seq(Nodes)]
  /\ MaxLinks \in Nat \ {0}
  /\ MaxPollers \in Nat
  /\ \A n \in Nodes : Len(Links[n]) <= MaxLinks

ASSUME PoolAssumption ==
  /\ IsFiniteSet(Packets)
  /\ UserBurst \in Nat \ {0}
  /\ RxBurst \in Nat \ {0}
  /\ TaskQueueSize \in Nat

(* The forwarding nodes form no cycle: a packet loses height with every    *)
(* forwarding step.  The code does not check this; a cyclic configuration  *)
(* would keep the worker in the inner loop for ever.                       *)
ASSUME AcyclicAssumption ==
  /\ Height \in [Nodes -> Nat]
  /\ \A n \in Nodes : Forwards(n) =>
       \A i \in 1 .. Len(Links[n]) : Height[Links[n][i]] < Height[n]

(* Two conditions on the configuration that the reference counts rely on   *)
(* and the code does not check: the poll path queues one task per link     *)
(* without counting the extra references, and the process path subtracts   *)
(* one from the number of links.                                           *)
ASSUME LinkAssumption ==
  /\ \A n \in Nodes : Pollable(n) => Len(Links[n]) = 1
  /\ \A n \in Nodes : Forwards(n) => Len(Links[n]) >= 1

MaxBurst == IF UserBurst > RxBurst THEN UserBurst ELSE RxBurst

(* The task queue holds a burst of every poller and what forwarding one    *)
(* packet down the graph adds.  The code's own limits (8 pollers, bursts   *)
(* of 64, 4 links, 32 nodes, 2048 tasks) satisfy this for every graph that *)
(* satisfies the assumptions above: 8 * 64 + 3 * 31 <= 2048.               *)
ASSUME CapacityAssumption ==
  /\ MaxPollers * MaxBurst <= TaskQueueSize
  /\ \A n \in Nodes :
       MaxPollers * MaxBurst + (MaxLinks - 1) * Height[n] <= TaskQueueSize

VARIABLES
  pc,         \* where the thread is in Worker::run
  inited,     \* number of nodes whose module has been initialised
  toPoll,     \* Worker::nodes_to_poll
  pos,        \* position of the poll loop in toPoll
  queue,      \* task_queue[0 .. index)
  refcnt,     \* Packet::refcnt of every slot
  pool,       \* how many times a slot is in the pool
  foreign,    \* how many times a slot is lent to another worker
  held,       \* references to a packet held by the network adapters
  stop        \* STOP_FLAG

vars == <<pc, inited, toPoll, pos, queue, refcnt, pool, foreign, held, stop>>

Task == [node : Nodes, pkt : Packets]

(* "flush", "send" and "destroy" are the worker inside IoNode::poll,       *)
(* process and destroy, where the driver may call packet_free_callback.    *)
(* How long it stays there is left open: Dpdk::flush loops until the       *)
(* driver has taken every frame.  This module claims no fairness; module   *)
(* Datapath lets RecvNop, Recv, SendDone and Destroy happen only after the *)
(* flush.                                                                  *)
Labels == {"enter", "init", "loop", "poll", "flush", "drain", "send",
           "destroy", "stopped", "failed"}

TypeOK ==
  /\ pc \in Labels
  /\ inited \in 0 .. NumNodes
  /\ toPoll \in Seq(Nodes)
  /\ pos \in Nat \ {0}
  /\ queue \in Seq(Task)
  /\ refcnt \in [Packets -> Nat]
  /\ pool \in [Packets -> Nat]
  /\ foreign \in [Packets -> Nat]
  /\ held \in [Packets -> Nat]
  /\ stop \in BOOLEAN

(* packet_init gives every slot the count 1; nothing sets it at allocation. *)
Init ==
  /\ pc = "enter"
  /\ inited = 0
  /\ toPoll = <<>>
  /\ pos = 1
  /\ queue = <<>>
  /\ refcnt = [p \in Packets |-> 1]
  /\ pool = [p \in Packets |-> 1]
  /\ foreign = [p \in Packets |-> 0]
  /\ held = [p \in Packets |-> 0]
  /\ stop = FALSE

-----------------------------------------------------------------------------
(* The packet pool.                                                        *)

Available == {p \in Packets : pool[p] > 0}

(* What allocating k packets can return: k distinct slots of the pool.     *)
Allocations(k) ==
  {ps \in [1 .. k -> Available] : \A i, j \in 1 .. k : i # j => ps[i] # ps[j]}

(* Removing the packets of the list ps from the pool. *)
Allocate(ps) ==
  pool' = [p \in Packets |->
             IF \E i \in 1 .. Len(ps) : ps[i] = p THEN pool[p] - 1 ELSE pool[p]]

(* Mutation of Deallocate: the slot is returned whatever its count. *)
DeallocateAlways(p) ==
  /\ pool' = [pool EXCEPT ![p] = @ + 1]
  /\ UNCHANGED refcnt

(* PacketPool::deallocate: the last reference returns the slot, an earlier *)
(* one only counts down.  The count of a slot that is returned stays 1.    *)
Deallocate(p) ==
  \/ /\ refcnt[p] = 1
     /\ pool' = [pool EXCEPT ![p] = @ + 1]
     /\ UNCHANGED refcnt
  \/ /\ refcnt[p] # 1
     /\ refcnt' = [refcnt EXCEPT ![p] = @ - 1]
     /\ UNCHANGED pool

-----------------------------------------------------------------------------
(* Start-up of the thread.                                                 *)

(* The ThreadEnter request and the creation of the pool's cache succeed.   *)
Enter ==
  /\ pc = "enter"
  /\ pc' = "init"
  /\ UNCHANGED <<inited, toPoll, pos, queue, refcnt, pool, foreign, held, stop>>

(* The request fails or the server answers with an error. *)
EnterFails ==
  /\ pc = "enter"
  /\ pc' = "failed"
  /\ UNCHANGED <<inited, toPoll, pos, queue, refcnt, pool, foreign, held, stop>>

(* Module::init and capability of the next node; ArrayVec::push panics     *)
(* when nodes_to_poll is full.                                             *)
InitNode ==
  /\ pc = "init"
  /\ inited < NumNodes
  /\ inited' = inited + 1
  /\ LET polls == Pollable(inited + 1)
         full == Len(toPoll) >= MaxPollers
     IN  /\ toPoll' = IF polls /\ ~ full THEN Append(toPoll, inited + 1) ELSE toPoll
         /\ pc' = IF polls /\ full THEN "failed" ELSE pc
  /\ UNCHANGED <<pos, queue, refcnt, pool, foreign, held, stop>>

(* The init of a module fails: an adapter, or the route table of an        *)
(* Ipv4Sender that does not fit.                                           *)
InitFails ==
  /\ pc = "init"
  /\ inited < NumNodes
  /\ Kind[inited + 1] \in {"io", "forward"}
  /\ pc' = "failed"
  /\ UNCHANGED <<inited, toPoll, pos, queue, refcnt, pool, foreign, held, stop>>

InitDone ==
  /\ pc = "init"
  /\ inited = NumNodes
  /\ pc' = "loop"
  /\ UNCHANGED <<inited, toPoll, pos, queue, refcnt, pool, foreign, held, stop>>

-----------------------------------------------------------------------------
(* The poll half of the loop.                                              *)

(* Mutation of LoopHead: the poll loop starts one position too early. *)
LoopHeadFromZero ==
  /\ pc = "loop"
  /\ pc' = IF stop THEN "destroy" ELSE "poll"
  /\ pos' = 0
  /\ UNCHANGED <<inited, toPoll, queue, refcnt, pool, foreign, held, stop>>

(* Mutation of LoopHead: the flag is not tested. *)
LoopHeadIgnoresStop ==
  /\ pc = "loop"
  /\ pc' = "poll"
  /\ pos' = 1
  /\ UNCHANGED <<inited, toPoll, queue, refcnt, pool, foreign, held, stop>>

(* The test of STOP_FLAG at the head of the loop. *)
LoopHead ==
  /\ pc = "loop"
  /\ pc' = IF stop THEN "destroy" ELSE "poll"
  /\ pos' = 1
  /\ UNCHANGED <<inited, toPoll, queue, refcnt, pool, foreign, held, stop>>

Polling(kind) ==
  /\ pc = "poll"
  /\ pos <= Len(toPoll)
  /\ Kind[toPoll[pos]] = kind

(* One task for every link and packet: the whole list for the first link,  *)
(* then the whole list for the next one.                                   *)
PolledTasks(n, ps) ==
  [j \in 1 .. Len(Links[n]) * Len(ps) |->
     [node |-> Links[n][((j - 1) \div Len(ps)) + 1],
      pkt  |-> ps[((j - 1) % Len(ps)) + 1]]]

(* The worker queues what the poll of n returned, without touching the     *)
(* reference counts, and goes on to the next node.                         *)
Enqueue(n, ps) ==
  /\ Allocate(ps)
  /\ queue' = queue \o PolledTasks(n, ps)
  /\ pos' = pos + 1
  /\ pc' = "poll"

(* UserNode::poll: allocate_many takes a full burst. *)
PollUser ==
  /\ Polling("user")
  /\ \E ps \in Allocations(UserBurst) : Enqueue(toPoll[pos], ps)
  /\ UNCHANGED <<inited, toPoll, refcnt, foreign, held, stop>>

(* allocate_many fails as a whole; the error ends the worker. *)
PollUserExhausted ==
  /\ Polling("user")
  /\ Cardinality(Available) < UserBurst
  /\ pc' = "failed"
  /\ UNCHANGED <<inited, toPoll, pos, queue, refcnt, pool, foreign, held, stop>>

(* IoNode::poll begins by flushing the adapters that have buffered frames. *)
PollIo ==
  /\ Polling("io")
  /\ pc' = "flush"
  /\ UNCHANGED <<inited, toPoll, pos, queue, refcnt, pool, foreign, held, stop>>

(* The adapters are flushed, and none has received anything. *)
RecvNop ==
  /\ pc = "flush"
  /\ pc' = "poll"
  /\ pos' = pos + 1
  /\ UNCHANGED <<inited, toPoll, queue, refcnt, pool, foreign, held, stop>>

(* Dpdk::recv: one packet is allocated for every frame received. *)
Recv ==
  /\ pc = "flush"
  /\ \E k \in 1 .. RxBurst : \E ps \in Allocations(k) : Enqueue(toPoll[pos], ps)
  /\ UNCHANGED <<inited, toPoll, refcnt, foreign, held, stop>>

(* Dpdk::recv runs out of packets in the middle of a burst: the packets    *)
(* taken so far are lost with the error that ends the worker.              *)
RecvExhausted ==
  /\ pc = "flush"
  /\ Cardinality(Available) < RxBurst
  /\ pool' = [p \in Packets |-> 0]
  /\ pc' = "failed"
  /\ UNCHANGED <<inited, toPoll, pos, queue, refcnt, foreign, held, stop>>

(* Mutation of PollDone: the tasks are left for a later round. *)
PollDoneSkipsDrain ==
  /\ pc = "poll"
  /\ pos > Len(toPoll)
  /\ pc' = "loop"
  /\ UNCHANGED <<inited, toPoll, pos, queue, refcnt, pool, foreign, held, stop>>

PollDone ==
  /\ pc = "poll"
  /\ pos > Len(toPoll)
  /\ pc' = "drain"
  /\ UNCHANGED <<inited, toPoll, pos, queue, refcnt, pool, foreign, held, stop>>

-----------------------------------------------------------------------------
(* The process half of the loop: the last task of the queue is taken.      *)

Top == queue[Len(queue)]

Popped == SubSeq(queue, 1, Len(queue) - 1)

Processing(kinds) ==
  /\ pc = "drain"
  /\ queue # <<>>
  /\ Kind[Top.node] \in kinds

(* Mutation of Forward: one reference for every link, the first included. *)
ForwardCountsAll ==
  /\ Processing({"forward", "filter"})
  /\ LET n == Top.node
         p == Top.pkt
     IN  /\ refcnt' = [refcnt EXCEPT ![p] = @ + Len(Links[n])]
         /\ queue' = Popped \o [i \in 1 .. Len(Links[n]) |->
                                  [node |-> Links[n][i], pkt |-> p]]
  /\ UNCHANGED <<pc, inited, toPoll, pos, pool, foreign, held, stop>>

(* Mutation of Forward: the worker polls again while tasks are left. *)
ForwardPollsAgain ==
  /\ Processing({"forward", "filter"})
  /\ LET n == Top.node
         p == Top.pkt
     IN  /\ refcnt' = [refcnt EXCEPT ![p] = @ + (Len(Links[n]) - 1)]
         /\ queue' = Popped \o [i \in 1 .. Len(Links[n]) |->
                                  [node |-> Links[n][i], pkt |-> p]]
  /\ pc' = "loop"
  /\ UNCHANGED <<inited, toPoll, pos, pool, foreign, held, stop>>

(* Mutation of Forward: the task is put back as it was. *)
ForwardRetries ==
  /\ Processing({"forward", "filter"})
  /\ queue' = Append(Popped, Top)
  /\ UNCHANGED <<pc, inited, toPoll, pos, refcnt, pool, foreign, held, stop>>

(* process returned Ok: one task per link, and one reference per task. *)
Forward ==
  /\ Processing({"forward", "filter"})
  /\ LET n == Top.node
         p == Top.pkt
     IN  /\ refcnt' = [refcnt EXCEPT ![p] = @ + (Len(Links[n]) - 1)]
         /\ queue' = Popped \o [i \in 1 .. Len(Links[n]) |->
                                  [node |-> Links[n][i], pkt |-> p]]
  /\ UNCHANGED <<pc, inited, toPoll, pos, pool, foreign, held, stop>>

(* UserNode::process always, and Ipv4Receiver::process for a header it     *)
(* rejects, free the packet and return Dropped.                            *)
Drop ==
  /\ Processing({"user", "filter"})
  /\ Deallocate(Top.pkt)
  /\ queue' = Popped
  /\ UNCHANGED <<pc, inited, toPoll, pos, foreign, held, stop>>

(* IoNode::process hands the packet to the adapter and returns Dropped.    *)
ProcessIo ==
  /\ Processing({"io"})
  /\ held' = [held EXCEPT ![Top.pkt] = @ + 1]
  /\ queue' = Popped
  /\ pc' = "send"
  /\ UNCHANGED <<inited, toPoll, pos, refcnt, pool, foreign, stop>>

(* IoNode::process returns, after the flush if there was one. *)
SendDone ==
  /\ pc = "send"
  /\ pc' = "drain"
  /\ UNCHANGED <<inited, toPoll, pos, queue, refcnt, pool, foreign, held, stop>>

(* A flush that cannot allocate fresh mbufs; the error ends the worker.    *)
FlushFails ==
  /\ pc \in {"flush", "send"}
  /\ pc' = "failed"
  /\ UNCHANGED <<inited, toPoll, pos, queue, refcnt, pool, foreign, held, stop>>

(* packet_free_callback, called by the driver from a transmit burst. *)
TxDone(p) ==
  /\ pc \in {"flush", "send", "destroy"}
  /\ held[p] > 0
  /\ held' = [held EXCEPT ![p] = @ - 1]
  /\ Deallocate(p)
  /\ UNCHANGED <<pc, inited, toPoll, pos, queue, foreign, stop>>

DrainDone ==
  /\ pc = "drain"
  /\ queue = <<>>
  /\ pc' = "loop"
  /\ UNCHANGED <<inited, toPoll, pos, queue, refcnt, pool, foreign, held, stop>>

(* Module::destroy of every node, after the loop, has returned: IoNode has *)
(* flushed its adapters.                                                   *)
Destroy ==
  /\ pc = "destroy"
  /\ pc' = "stopped"
  /\ UNCHANGED <<inited, toPoll, pos, queue, refcnt, pool, foreign, held, stop>>

-----------------------------------------------------------------------------
(* The environment.                                                        *)

(* The ctrl-c handler: shutdown(). *)
Shutdown ==
  /\ ~ stop
  /\ stop' = TRUE
  /\ UNCHANGED <<pc, inited, toPoll, pos, queue, refcnt, pool, foreign, held>>

(* Another worker of the same socket allocates from the shared pool ...    *)
OtherAllocates(p) ==
  /\ pool[p] > 0
  /\ pool' = [pool EXCEPT ![p] = @ - 1]
  /\ foreign' = [foreign EXCEPT ![p] = @ + 1]
  /\ UNCHANGED <<pc, inited, toPoll, pos, queue, refcnt, held, stop>>

(* ... and returns the slot, with the count its own deallocate leaves.     *)
OtherFrees(p) ==
  /\ foreign[p] > 0
  /\ foreign' = [foreign EXCEPT ![p] = @ - 1]
  /\ pool' = [pool EXCEPT ![p] = @ + 1]
  /\ UNCHANGED <<pc, inited, toPoll, pos, queue, refcnt, held, stop>>

(* The thread has returned, or its error has aborted the process. *)
Terminated ==
  /\ pc \in {"stopped", "failed"}
  /\ UNCHANGED vars

WorkerStep ==
  \/ Enter \/ EnterFails \/ InitNode \/ InitFails \/ InitDone
  \/ LoopHead \/ PollUser \/ PollUserExhausted \/ PollIo
  \/ RecvNop \/ Recv \/ RecvExhausted \/ PollDone
  \/ Forward \/ Drop \/ ProcessIo \/ SendDone \/ FlushFails
  \/ DrainDone \/ Destroy
  \/ \E p \in Packets : TxDone(p)

Environment ==
  \/ Shutdown
  \/ \E p \in Packets : OtherAllocates(p)
  \/ \E p \in Packets : OtherFrees(p)

Next == WorkerStep \/ Environment \/ Terminated

Spec == Init /\ [][Next]_vars

-----------------------------------------------------------------------------
(* Properties.                                                             *)

(* The tasks of the queue q that refer to packet p. *)
TasksOf(q, p) == {i \in 1 .. Len(q) : q[i].pkt = p}

Holders(p) == Cardinality(TasksOf(queue, p)) + held[p]

InPool(p) == pool[p] + foreign[p] > 0

(* Packet::refcnt counts exactly the tasks and adapter references of a     *)
(* packet in use, and there is at least one: no packet is leaked, and the  *)
(* last user, whoever it is, is the one that frees it (packet.rs,          *)
(* deallocate; engine.rs, the refcnt update after process).                *)
RefcntExact ==
  pc # "failed" =>
    \A p \in Packets : ~ InPool(p) => refcnt[p] = Holders(p) /\ refcnt[p] >= 1

(* A slot is in the pool at most once, nobody refers to it while it is     *)
(* there, and its count is 1, which recv and UserNode::poll rely on when   *)
(* they allocate it without setting refcnt.                                *)
PooledClean ==
  \A p \in Packets : InPool(p) =>
    pool[p] + foreign[p] = 1 /\ refcnt[p] = 1 /\ Holders(p) = 0

(* The unchecked writes of Worker::run stay inside task_queue. *)
QueueBound == Len(queue) <= TaskQueueSize

(* A worker that has stopped has no task left, and every packet is back in *)
(* the pool or with an adapter, which holds all of its references.         *)
CleanStop ==
  pc = "stopped" =>
    /\ queue = <<>>
    /\ \A p \in Packets : InPool(p) \/ held[p] = refcnt[p]

(* The inductive invariant behind QueueBound and CleanStop: what is queued *)
(* while polling fits the bursts polled so far, and a task can only sit as *)
(* deep in the queue as leaves room for what forwarding its packet adds.   *)
QueueInv ==
  /\ Len(toPoll) <= MaxPollers
  /\ \A i \in 1 .. Len(toPoll) : Pollable(toPoll[i])
  /\ pc \in {"enter", "init", "loop", "destroy", "stopped"} => queue = <<>>
  /\ pc \in {"poll", "flush"} =>
       pos <= Len(toPoll) + 1 /\ Len(queue) <= (pos - 1) * MaxBurst
  /\ pc = "flush" => pos <= Len(toPoll)
  /\ \A i \in 1 .. Len(queue) :
       i + (MaxLinks - 1) * Height[queue[i].node] <= TaskQueueSize

(* The inner loop of Worker::run ends, the flushes of full buffers         *)
(* included: the tasks of a round are processed before anything is polled  *)
(* again.  It takes interfaces that keep sending (PathSpec of Datapath).   *)
DrainEnds == (pc = "drain") ~> (pc \in {"loop", "failed"})

(* Once the ctrl-c handler has run the worker leaves its loop and gets     *)
(* through the flushes of its last round and of destroy, none of which     *)
(* looks at STOP_FLAG: it takes interfaces that keep sending.              *)
StopEnds == stop ~> (pc \in {"stopped", "failed"})
=============================================================================
