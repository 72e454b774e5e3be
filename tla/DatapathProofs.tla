--------------------------- MODULE DatapathProofs ---------------------------
(***************************************************************************)
(* Proofs about module Worker, for every graph and pool that satisfies its *)
(* assumptions, and then about module Datapath: with its adapters and      *)
(* buffers around it, the worker is still the worker of module Worker, so  *)
(* that what is proved of that holds of the composition; no mbuf is lost   *)
(* or freed twice; and an adapter sends from the packet's own buffer.      *)
(***************************************************************************)
EXTENDS Datapath, FiniteSetTheorems, SequenceTheorems, FunctionTheorems, TLAPS

-----------------------------------------------------------------------------
(* The sequences of tasks the worker builds.                               *)

(* links_to of a node is a list of at most MaxLinks nodes. *)
LEMMA LinksType ==
  ASSUME NEW n \in Nodes
  PROVE  /\ Links[n] \in Seq(Nodes)
         /\ Len(Links[n]) \in 0 .. MaxLinks
         /\ \A i \in 1 .. Len(Links[n]) : Links[n][i] \in Nodes
<1>1. Links[n] \in Seq(Nodes)
  BY GraphAssumption
<1>2. \A i \in 1 .. Len(Links[n]) : Links[n][i] \in Nodes
  BY <1>1
<1> QED
  BY <1>1, <1>2, GraphAssumption

(* A list of packets that a poll returned: its length fits a burst, and    *)
(* its packets were in the pool and are distinct.                          *)
LEMMA AllocationsType ==
  ASSUME NEW k \in Nat, NEW ps \in Allocations(k)
  PROVE  /\ ps \in Seq(Packets)
         /\ Len(ps) = k
         /\ \A i \in 1 .. k : ps[i] \in Packets /\ pool[ps[i]] > 0
         /\ \A i, j \in 1 .. k : i # j => ps[i] # ps[j]
BY DEF Allocations, Available

(* With a single link the tasks of a poll are the packets of the list, in  *)
(* their order.                                                            *)
LEMMA PolledTasksSingle ==
  ASSUME NEW n \in Nodes, Len(Links[n]) = 1,
         NEW ps \in Seq(Packets), Len(ps) \in Nat \ {0}
  PROVE  /\ PolledTasks(n, ps) \in Seq(Task)
         /\ Len(PolledTasks(n, ps)) = Len(ps)
         /\ \A j \in 1 .. Len(ps) :
              PolledTasks(n, ps)[j] = [node |-> Links[n][1], pkt |-> ps[j]]
<1> DEFINE k == Len(ps)
<1>1. \A j \in 1 .. k : (j - 1) \div k = 0 /\ (j - 1) % k = j - 1
  OBVIOUS
<1>2. Len(Links[n]) * Len(ps) = k
  OBVIOUS
<1>3. Links[n][1] \in Nodes
  BY LinksType
<1>4. PolledTasks(n, ps) = [j \in 1 .. k |-> [node |-> Links[n][1], pkt |-> ps[j]]]
  BY <1>1, <1>2 DEF PolledTasks
<1> QED
  BY <1>3, <1>4 DEF Task

-----------------------------------------------------------------------------
(* How many tasks of a queue refer to a packet.                            *)

(* The tasks of a packet can be counted. *)
LEMMA TasksFinite ==
  ASSUME NEW q \in Seq(Task), NEW p
  PROVE  /\ IsFiniteSet(TasksOf(q, p))
         /\ Cardinality(TasksOf(q, p)) \in Nat
<1>1. IsFiniteSet(1 .. Len(q))
  BY FS_Interval
<1>2. TasksOf(q, p) \subseteq 1 .. Len(q)
  BY DEF TasksOf
<1> QED
  BY <1>1, <1>2, FS_Subset, FS_CardinalityType

(* The queue without its last task. *)
LEMMA FrontProps ==
  ASSUME NEW q \in Seq(Task), Len(q) >= 1
  PROVE  /\ SubSeq(q, 1, Len(q) - 1) \in Seq(Task)
         /\ Len(SubSeq(q, 1, Len(q) - 1)) = Len(q) - 1
         /\ \A i \in 1 .. Len(q) - 1 : SubSeq(q, 1, Len(q) - 1)[i] = q[i]
<1>1. PICK m \in Nat : Len(q) = m + 1
  <2>1. Len(q) - 1 \in Nat /\ Len(q) = (Len(q) - 1) + 1
    OBVIOUS
  <2> QED
    BY <2>1
<1>2. \A i \in 1 .. m : q[i] \in Task
  BY <1>1
<1>3. /\ SubSeq(q, 1, m) \in Seq(Task)
      /\ Len(SubSeq(q, 1, m)) = IF 1 <= m THEN m - 1 + 1 ELSE 0
      /\ \A i \in 1 .. m - 1 + 1 : SubSeq(q, 1, m)[i] = q[1 + i - 1]
  BY <1>2, SubSeqProperties
<1>4. m - 1 + 1 = m /\ (IF 1 <= m THEN m - 1 + 1 ELSE 0) = m
      /\ \A i \in 1 .. m : 1 + i - 1 = i
  OBVIOUS
<1>5. Len(q) - 1 = m
  BY <1>1
<1> QED
  BY <1>3, <1>4, <1>5, Zenon

(* The queue with tasks added at its end. *)
LEMMA ConcatProps ==
  ASSUME NEW q \in Seq(Task), NEW s \in Seq(Task)
  PROVE  /\ q \o s \in Seq(Task)
         /\ Len(q \o s) = Len(q) + Len(s)
OBVIOUS

(* Taking the last task off removes one reference to its packet and none   *)
(* to any other.                                                           *)
LEMMA PopCount ==
  ASSUME NEW q \in Seq(Task), q # <<>>, NEW p
  PROVE  LET r == SubSeq(q, 1, Len(q) - 1) IN
         /\ r \in Seq(Task)
         /\ Len(r) = Len(q) - 1
         /\ \A i \in 1 .. Len(r) : r[i] = q[i]
         /\ q[Len(q)] \in Task
         /\ Cardinality(TasksOf(q, p)) =
              Cardinality(TasksOf(r, p)) + (IF q[Len(q)].pkt = p THEN 1 ELSE 0)
<1> DEFINE r == SubSeq(q, 1, Len(q) - 1)
           n == Len(q)
<1>1. n \in Nat \ {0}
  OBVIOUS
<1>2. r \in Seq(Task) /\ Len(r) = n - 1 /\ \A i \in 1 .. Len(r) : r[i] = q[i]
  BY <1>1, FrontProps
<1>3. q[n] \in Task
  BY <1>1
<1>4. CASE q[n].pkt = p
  <2>1. TasksOf(q, p) = TasksOf(r, p) \cup {n}
    BY <1>1, <1>2, <1>4 DEF TasksOf
  <2>2. n \notin TasksOf(r, p)
    BY <1>1, <1>2 DEF TasksOf
  <2>3. Cardinality(TasksOf(q, p)) = Cardinality(TasksOf(r, p)) + 1
    BY <1>2, <2>1, <2>2, TasksFinite, FS_AddElement
  <2> QED
    BY <1>2, <1>3, <1>4, <2>3
<1>5. CASE q[n].pkt # p
  <2>1. TasksOf(q, p) = TasksOf(r, p)
    BY <1>1, <1>2, <1>5 DEF TasksOf
  <2> QED
    BY <1>2, <1>3, <1>5, <2>1, TasksFinite
<1> QED
  BY <1>4, <1>5

(* Appending k tasks for packet x adds k references to x. *)
LEMMA CopiesCount ==
  ASSUME NEW q \in Seq(Task), NEW s \in Seq(Task), NEW x \in Packets, NEW p \in Packets,
         TasksOf(s, x) = 1 .. Len(s)
  PROVE  Cardinality(TasksOf(q \o s, p)) =
           Cardinality(TasksOf(q, p)) + (IF p = x THEN Len(s) ELSE 0)
<1> DEFINE r == q \o s
           n == Len(q)
           k == Len(s)
           New == (n + 1) .. (n + k)
<1>0. \A i \in 1 .. Len(s) : s[i].pkt = x
  BY DEF TasksOf
<1>1. /\ n \in Nat /\ k \in Nat /\ Len(r) = n + k
      /\ \A i \in 1 .. n : r[i] = q[i]
      /\ \A i \in New : r[i] = s[i - n] /\ i - n \in 1 .. k
  OBVIOUS
<1>2. CASE p = x
  <2>1. TasksOf(r, p) = TasksOf(q, p) \cup New
    BY <1>0, <1>1, <1>2 DEF TasksOf
  <2>2. TasksOf(q, p) \cap New = {}
    BY <1>1 DEF TasksOf
  <2>3. IsFiniteSet(New) /\ Cardinality(New) = k
    <3>1. n + 1 \in Int /\ n + k \in Int
      BY <1>1
    <3>2. /\ IsFiniteSet(New)
          /\ Cardinality(New) = IF n + 1 > n + k THEN 0 ELSE (n + k) - (n + 1) + 1
      BY <3>1, FS_Interval
    <3> QED
      BY <1>1, <3>2
  <2>4. Cardinality(TasksOf(r, p)) = Cardinality(TasksOf(q, p)) + k
    <3>1. IsFiniteSet(TasksOf(q, p)) /\ Cardinality(TasksOf(q, p)) \in Nat
      BY TasksFinite
    <3>2. Cardinality(TasksOf(q, p) \cap New) = 0
      BY <2>2, FS_EmptySet
    <3>3. Cardinality(TasksOf(q, p) \cup New)
            = Cardinality(TasksOf(q, p)) + Cardinality(New)
                - Cardinality(TasksOf(q, p) \cap New)
      BY <2>3, <3>1, FS_Union
    <3> QED
      BY <1>1, <2>1, <2>3, <3>1, <3>2, <3>3
  <2> QED
    BY <1>2, <2>4
<1>3. CASE p # x
  <2>1. TasksOf(r, p) = TasksOf(q, p)
    BY <1>0, <1>1, <1>3 DEF TasksOf
  <2> QED
    BY <1>3, <2>1, TasksFinite
<1> QED
  BY <1>2, <1>3

(* Appending tasks for distinct packets adds one reference to each. *)
LEMMA DistinctCount ==
  ASSUME NEW q \in Seq(Task), NEW s \in Seq(Task), NEW p,
         \A i, j \in 1 .. Len(s) : i # j => s[i].pkt # s[j].pkt
  PROVE  Cardinality(TasksOf(q \o s, p)) =
           Cardinality(TasksOf(q, p))
             + (IF \E i \in 1 .. Len(s) : s[i].pkt = p THEN 1 ELSE 0)
<1> DEFINE r == q \o s
           n == Len(q)
           k == Len(s)
<1>1. /\ n \in Nat /\ k \in Nat /\ Len(r) = n + k
      /\ \A i \in 1 .. n : r[i] = q[i]
      /\ \A i \in 1 .. k : r[n + i] = s[i]
      /\ \A i \in 1 .. (n + k) : i \in 1 .. n \/ i - n \in 1 .. k
  OBVIOUS
<1>2. CASE \E i \in 1 .. k : s[i].pkt = p
  <2>1. PICK i \in 1 .. k : s[i].pkt = p
    BY <1>2
  <2>2. TasksOf(r, p) \subseteq TasksOf(q, p) \cup {n + i}
    <3> SUFFICES ASSUME NEW j \in TasksOf(r, p), j \notin 1 .. n
                 PROVE  j = n + i
      BY <1>1 DEF TasksOf
    <3>1. j \in 1 .. (n + k) /\ r[j].pkt = p
      BY <1>1 DEF TasksOf
    <3>2. j - n \in 1 .. k /\ r[j] = s[j - n]
      BY <1>1, <3>1
    <3>3. s[j - n].pkt = p
      BY <3>1, <3>2
    <3>4. j - n = i
      BY <2>1, <3>2, <3>3
    <3> QED
      BY <1>1, <3>1, <3>4
  <2>3. TasksOf(q, p) \cup {n + i} \subseteq TasksOf(r, p)
    BY <1>1, <2>1 DEF TasksOf
  <2>4. n + i \notin TasksOf(q, p)
    BY <1>1 DEF TasksOf
  <2>5. TasksOf(r, p) = TasksOf(q, p) \cup {n + i}
    BY <2>2, <2>3
  <2>6. Cardinality(TasksOf(r, p)) = Cardinality(TasksOf(q, p)) + 1
    BY <2>4, <2>5, TasksFinite, FS_AddElement
  <2> QED
    BY <1>2, <2>6
<1>3. CASE ~ \E i \in 1 .. k : s[i].pkt = p
  <2>1. TasksOf(r, p) = TasksOf(q, p)
    <3>1. \A j \in 1 .. (n + k) : j \notin 1 .. n => r[j] = s[j - n]
      BY <1>1
    <3> QED
      BY <1>1, <1>3, <3>1 DEF TasksOf
  <2> QED
    BY <1>3, <2>1, TasksFinite
<1> QED
  BY <1>2, <1>3

-----------------------------------------------------------------------------
(* The inductive invariant.  TypeOK is not inductive alone: that refcnt    *)
(* stays a natural number needs the count of a packet in use to be exact.  *)

IInv == TypeOK /\ QueueInv /\ RefcntExact /\ PooledClean

(* The steps that only move the program counter, the counters of the loops *)
(* or STOP_FLAG.                                                           *)
ControlStep ==
  \/ Enter \/ EnterFails \/ InitNode \/ InitFails \/ InitDone
  \/ LoopHead \/ PollUserExhausted \/ PollIo \/ RecvNop \/ PollDone
  \/ SendDone \/ FlushFails \/ DrainDone \/ Destroy \/ Shutdown

(* MaxBurst bounds the bursts of both kinds of pollers. *)
LEMMA MaxBurstType == /\ MaxBurst \in Nat \ {0}
                      /\ UserBurst <= MaxBurst
                      /\ RxBurst <= MaxBurst
BY PoolAssumption DEF MaxBurst

(* A packet somebody still uses has a positive count. *)
LEMMA RefPositive ==
  ASSUME TypeOK, RefcntExact, PooledClean, pc # "failed", NEW p \in Packets
  PROVE  refcnt[p] \in Nat /\ refcnt[p] >= 1
<1>1. refcnt[p] \in Nat
  BY DEF TypeOK
<1>2. CASE InPool(p)
  BY <1>1, <1>2 DEF PooledClean
<1>3. CASE ~ InPool(p)
  BY <1>1, <1>3 DEF RefcntExact
<1> QED
  BY <1>2, <1>3

(* The top of the queue is a task, and the rest of it a queue. *)
LEMMA TopType ==
  ASSUME TypeOK, queue # <<>>
  PROVE  /\ Top.node \in Nodes
         /\ Top.pkt \in Packets
         /\ Top = queue[Len(queue)]
         /\ Len(queue) \in Nat \ {0}
         /\ Popped \in Seq(Task)
         /\ Len(Popped) = Len(queue) - 1
         /\ \A i \in 1 .. Len(queue) - 1 : Popped[i] = queue[i]
<1>1. queue \in Seq(Task)
  BY DEF TypeOK
<1>2. Len(queue) \in Nat \ {0}
  BY <1>1
<1>3. queue[Len(queue)] \in Task
  BY <1>1, <1>2
<1>4. Top \in Task /\ Top = queue[Len(queue)]
  BY <1>3 DEF Top
<1>5. Top.node \in Nodes /\ Top.pkt \in Packets
  BY <1>4 DEF Task
<1> QED
  BY <1>1, <1>2, <1>4, <1>5, FrontProps DEF Popped

(* The tasks Forward queues. *)
LEMMA CopiesType ==
  ASSUME NEW n \in Nodes, NEW p \in Packets
  PROVE  LET s == [i \in 1 .. Len(Links[n]) |-> [node |-> Links[n][i], pkt |-> p]]
         IN  /\ s \in Seq(Task)
             /\ Len(s) = Len(Links[n])
             /\ Len(s) \in Nat
             /\ \A i \in 1 .. Len(s) : s[i].node = Links[n][i] /\ s[i].pkt = p
<1> DEFINE s == [i \in 1 .. Len(Links[n]) |-> [node |-> Links[n][i], pkt |-> p]]
<1>1. Len(Links[n]) \in Nat /\ \A i \in 1 .. Len(Links[n]) : Links[n][i] \in Nodes
  BY LinksType
<1>2. \A i \in 1 .. Len(Links[n]) : [node |-> Links[n][i], pkt |-> p] \in Task
  BY <1>1 DEF Task
<1>3. s \in Seq(Task) /\ Len(s) = Len(Links[n])
  BY <1>1, <1>2
<1> QED
  BY <1>1, <1>3

(* What the worker queues after a poll. *)
LEMMA EnqueueType ==
  ASSUME TypeOK, QueueInv, pc \in {"poll", "flush"}, pos <= Len(toPoll),
         NEW k \in 1 .. MaxBurst, NEW ps \in Allocations(k)
  PROVE  LET t == PolledTasks(toPoll[pos], ps)
         IN  /\ t \in Seq(Task)
             /\ Len(t) = k
             /\ \A j \in 1 .. k : t[j].pkt = ps[j]
<1>1. /\ k \in Nat \ {0} /\ pos \in 1 .. Len(toPoll) /\ toPoll[pos] \in Nodes
  BY MaxBurstType DEF TypeOK
<1>2. Len(Links[toPoll[pos]]) = 1
  BY <1>1, LinkAssumption DEF QueueInv
<1>3. ps \in Seq(Packets) /\ Len(ps) = k
  BY <1>1, AllocationsType
<1>4. Len(ps) \in Nat \ {0}
  BY <1>1, <1>3
<1>5. /\ PolledTasks(toPoll[pos], ps) \in Seq(Task)
      /\ Len(PolledTasks(toPoll[pos], ps)) = Len(ps)
      /\ \A j \in 1 .. Len(ps) :
           PolledTasks(toPoll[pos], ps)[j] =
             [node |-> Links[toPoll[pos]][1], pkt |-> ps[j]]
  BY <1>1, <1>2, <1>3, <1>4, PolledTasksSingle
<1>6. \A j \in 1 .. k : PolledTasks(toPoll[pos], ps)[j].pkt = ps[j]
  <2> TAKE j \in 1 .. k
  <2>1. PolledTasks(toPoll[pos], ps)[j] = [node |-> Links[toPoll[pos]][1], pkt |-> ps[j]]
    BY <1>3, <1>5
  <2> QED
    BY <2>1
<1> QED
  BY <1>3, <1>5, <1>6

-----------------------------------------------------------------------------
(* Type correctness.                                                       *)

(* deallocate never takes a count below zero. *)
LEMMA DeallocateType ==
  ASSUME TypeOK, RefcntExact, PooledClean, pc # "failed",
         NEW p \in Packets, Deallocate(p)
  PROVE  refcnt' \in [Packets -> Nat] /\ pool' \in [Packets -> Nat]
<1>1. refcnt[p] \in Nat /\ refcnt[p] >= 1
  BY RefPositive
<1>2. refcnt \in [Packets -> Nat] /\ pool \in [Packets -> Nat]
  BY DEF TypeOK
<1> QED
  BY <1>1, <1>2 DEF Deallocate

(* Queueing what a poll returned keeps the types. *)
LEMMA EnqueueTypeOK ==
  ASSUME TypeOK, QueueInv, pc \in {"poll", "flush"}, pos <= Len(toPoll),
         NEW k \in 1 .. MaxBurst, NEW ps \in Allocations(k),
         Enqueue(toPoll[pos], ps),
         UNCHANGED <<inited, toPoll, refcnt, foreign, held, stop>>
  PROVE  TypeOK'
<1>1. PolledTasks(toPoll[pos], ps) \in Seq(Task)
  BY EnqueueType
<1>2. queue' \in Seq(Task)
  BY <1>1 DEF TypeOK, Enqueue
<1>3. k \in Nat
  BY MaxBurstType
<1>4. /\ ps \in Seq(Packets) /\ Len(ps) = k
      /\ \A i \in 1 .. k : ps[i] \in Packets /\ pool[ps[i]] > 0
  BY <1>3, AllocationsType
<1>5. pool' \in [Packets -> Nat]
  <2>1. ASSUME NEW p \in Packets, NEW i \in 1 .. k, ps[i] = p
        PROVE  pool[p] - 1 \in Nat
    <3>1. pool[p] > 0 /\ pool[p] \in Nat
      BY <1>4, <2>1 DEF TypeOK
    <3> QED
      BY <3>1
  <2>2. \A p \in Packets : pool[p] \in Nat
    BY DEF TypeOK
  <2>3. pool' = [p \in Packets |->
                   IF \E i \in 1 .. k : ps[i] = p THEN pool[p] - 1 ELSE pool[p]]
    BY <1>4 DEF Enqueue, Allocate
  <2> QED
    BY <2>1, <2>2, <2>3
<1> QED
  BY <1>2, <1>5 DEF TypeOK, Enqueue, Labels

(* Every step of the worker and of its environment keeps the types. *)
LEMMA TypeStep ==
  ASSUME IInv, [Next]_vars
  PROVE  TypeOK'
<1> USE DEF IInv
<1>1. CASE ControlStep
  <2>1. CASE InitNode
    <3>1. inited \in 0 .. NumNodes /\ inited + 1 \in 0 .. NumNodes
          /\ inited + 1 \in Nodes
      BY <2>1, GraphAssumption DEF TypeOK, InitNode, Nodes
    <3>2. toPoll' \in Seq(Nodes)
      <4>1. toPoll \in Seq(Nodes) /\ Append(toPoll, inited + 1) \in Seq(Nodes)
        BY <3>1 DEF TypeOK
      <4>2. toPoll' = Append(toPoll, inited + 1) \/ toPoll' = toPoll
        BY <2>1 DEF InitNode
      <4> QED
        BY <4>1, <4>2
    <3> QED
      BY <2>1, <3>1, <3>2 DEF TypeOK, InitNode, Labels
  <2>2. CASE Enter \/ EnterFails \/ InitFails \/ InitDone \/ PollUserExhausted
             \/ PollIo \/ PollDone \/ SendDone \/ FlushFails \/ DrainDone \/ Destroy
    <3>1. pc' \in Labels
      BY <2>2 DEF Labels, Enter, EnterFails, InitFails, InitDone, PollUserExhausted,
                  PollIo, PollDone, SendDone, FlushFails, DrainDone, Destroy
    <3>2. UNCHANGED <<inited, toPoll, pos, queue, refcnt, pool, foreign, held, stop>>
      BY <2>2 DEF Enter, EnterFails, InitFails, InitDone, PollUserExhausted,
                  PollIo, PollDone, SendDone, FlushFails, DrainDone, Destroy
    <3> QED
      BY <3>1, <3>2 DEF TypeOK
  <2>3. CASE LoopHead \/ RecvNop
    <3>1. pc' \in Labels /\ pos' \in Nat \ {0}
      BY <2>3 DEF TypeOK, Labels, LoopHead, RecvNop
    <3>2. UNCHANGED <<inited, toPoll, queue, refcnt, pool, foreign, held, stop>>
      BY <2>3 DEF LoopHead, RecvNop
    <3> QED
      BY <3>1, <3>2 DEF TypeOK
  <2>4. CASE Shutdown
    BY <2>4 DEF TypeOK, Shutdown
  <2> QED
    BY <1>1, <2>1, <2>2, <2>3, <2>4 DEF ControlStep
<1>2. CASE PollUser
  <2>1. UserBurst \in 1 .. MaxBurst
    BY MaxBurstType, PoolAssumption
  <2> QED
    BY <1>2, <2>1, EnqueueTypeOK DEF PollUser, Polling
<1>3. CASE Recv
  <2>1. PICK k \in 1 .. RxBurst : \E ps \in Allocations(k) : Enqueue(toPoll[pos], ps)
    BY <1>3 DEF Recv
  <2>2. k \in 1 .. MaxBurst
    BY MaxBurstType, PoolAssumption
  <2>3. pc = "flush" /\ pos <= Len(toPoll)
    BY <1>3 DEF Recv, QueueInv
  <2> QED
    BY <1>3, <2>1, <2>2, <2>3, EnqueueTypeOK DEF Recv
<1>4. CASE RecvExhausted
  BY <1>4 DEF RecvExhausted, TypeOK, Labels
<1>5. CASE Forward
  <2> DEFINE n == Top.node
             s == [i \in 1 .. Len(Links[n]) |-> [node |-> Links[n][i], pkt |-> Top.pkt]]
  <2>1. /\ pc = "drain" /\ queue # <<>> /\ Forwards(n)
        /\ refcnt' = [refcnt EXCEPT ![Top.pkt] = @ + (Len(Links[n]) - 1)]
        /\ queue' = Popped \o s
    BY <1>5 DEF Forward, Processing, Forwards
  <2>2. n \in Nodes /\ Top.pkt \in Packets /\ Popped \in Seq(Task)
    BY <2>1, TopType
  <2>3. s \in Seq(Task) /\ Len(Links[n]) - 1 \in Nat
    BY <2>1, <2>2, CopiesType, LinkAssumption, LinksType
  <2>4. queue' \in Seq(Task)
    BY <2>1, <2>2, <2>3
  <2>5. refcnt' \in [Packets -> Nat]
    <3> HIDE DEF n
    <3> QED
      BY <2>1, <2>2, <2>3 DEF TypeOK
  <2> QED
    BY <1>5, <2>4, <2>5 DEF Forward, TypeOK
<1>6. CASE Drop
  <2>1. pc = "drain" /\ queue # <<>>
    BY <1>6 DEF Drop, Processing
  <2>2. Top.pkt \in Packets /\ Popped \in Seq(Task)
    BY <2>1, TopType
  <2>3. refcnt' \in [Packets -> Nat] /\ pool' \in [Packets -> Nat]
    BY <1>6, <2>1, <2>2, DeallocateType DEF Drop
  <2> QED
    BY <1>6, <2>2, <2>3 DEF Drop, TypeOK
<1>7. CASE ProcessIo
  <2>1. Top.pkt \in Packets /\ Popped \in Seq(Task)
    BY <1>7, TopType DEF ProcessIo, Processing
  <2> QED
    BY <1>7, <2>1 DEF ProcessIo, TypeOK, Labels
<1>8. CASE \E p \in Packets : TxDone(p)
  <2>1. PICK p \in Packets : TxDone(p)
    BY <1>8
  <2>2. refcnt' \in [Packets -> Nat] /\ pool' \in [Packets -> Nat]
    BY <2>1, DeallocateType DEF TxDone
  <2>3. held' \in [Packets -> Nat]
    BY <2>1 DEF TxDone, TypeOK
  <2>4. UNCHANGED <<pc, inited, toPoll, pos, queue, foreign, stop>>
    BY <2>1 DEF TxDone
  <2> QED
    BY <2>2, <2>3, <2>4 DEF TypeOK
<1>9. CASE \E p \in Packets : OtherAllocates(p)
  BY <1>9 DEF OtherAllocates, TypeOK
<1>10. CASE \E p \in Packets : OtherFrees(p)
  BY <1>10 DEF OtherFrees, TypeOK
<1>11. CASE UNCHANGED vars
  BY <1>11 DEF vars, TypeOK
<1> QED
  BY <1>1, <1>2, <1>3, <1>4, <1>5, <1>6, <1>7, <1>8, <1>9, <1>10, <1>11
     DEF Next, WorkerStep, Environment, Terminated, ControlStep

-----------------------------------------------------------------------------
(* The task queue.                                                         *)

(* What a forwarding step takes from the height outweighs the tasks it     *)
(* adds.                                                                   *)
LEMMA HeightDrop ==
  ASSUME NEW a \in Nat, NEW g \in Nat, NEW h \in Nat, g < h
  PROVE  a * g + a <= a * h
<1>1. PICK d \in Nat : h = g + 1 + d
  <2>1. h - g - 1 \in Nat /\ h = g + 1 + (h - g - 1)
    OBVIOUS
  <2> QED
    BY <2>1
<1>2. a * h = a * g + a + a * d
  BY <1>1
<1>3. a * d \in Nat /\ a * g \in Nat
  OBVIOUS
<1> QED
  BY <1>2, <1>3

(* The bursts of the first m pollers fit below the space the heights need. *)
LEMMA BurstRoom ==
  ASSUME NEW m \in 0 .. MaxPollers, NEW n \in Nodes
  PROVE  m * MaxBurst + (MaxLinks - 1) * Height[n] <= TaskQueueSize
<1>1. /\ MaxPollers \in Nat /\ MaxBurst \in Nat /\ MaxLinks - 1 \in Nat
      /\ Height[n] \in Nat /\ TaskQueueSize \in Nat
  BY GraphAssumption, AcyclicAssumption, PoolAssumption, MaxBurstType
<1>2. PICK d \in Nat : MaxPollers = m + d
  <2>1. MaxPollers - m \in Nat /\ MaxPollers = m + (MaxPollers - m)
    BY <1>1
  <2> QED
    BY <2>1
<1>3. MaxPollers * MaxBurst = m * MaxBurst + d * MaxBurst
  BY <1>1, <1>2
<1>4. d * MaxBurst \in Nat /\ m * MaxBurst \in Nat /\ (MaxLinks - 1) * Height[n] \in Nat
  BY <1>1
<1>5. MaxPollers * MaxBurst + (MaxLinks - 1) * Height[n] <= TaskQueueSize
  BY CapacityAssumption
<1> QED
  BY <1>1, <1>3, <1>4, <1>5

(* A polled burst fits below the room that its tasks need. *)
LEMMA EnqueueQueueInv ==
  ASSUME TypeOK, QueueInv, pc \in {"poll", "flush"}, pos <= Len(toPoll),
         NEW k \in 1 .. MaxBurst, NEW ps \in Allocations(k),
         Enqueue(toPoll[pos], ps),
         UNCHANGED toPoll
  PROVE  QueueInv'
<1> DEFINE t == PolledTasks(toPoll[pos], ps)
<1>1. t \in Seq(Task) /\ Len(t) = k /\ k \in Nat /\ k <= MaxBurst
  BY EnqueueType, MaxBurstType
<1>2. /\ queue \in Seq(Task) /\ pos \in Nat /\ pos >= 1
      /\ Len(toPoll) \in Nat /\ Len(toPoll) <= MaxPollers
      /\ MaxPollers \in Nat /\ MaxBurst \in Nat
  BY GraphAssumption, MaxBurstType DEF TypeOK, QueueInv
<1>3. queue' = queue \o t /\ pos' = pos + 1 /\ pc' = "poll"
  BY DEF Enqueue
<1>4. queue' \in Seq(Task) /\ Len(queue') = Len(queue) + k
  <2> HIDE DEF t
  <2>1. queue \o t \in Seq(Task) /\ Len(queue \o t) = Len(queue) + Len(t)
    BY <1>1, <1>2, ConcatProps
  <2> QED
    BY <1>1, <1>3, <2>1
<1>5. Len(queue) <= (pos - 1) * MaxBurst
  BY DEF QueueInv
<1>6. Len(queue') <= pos * MaxBurst
  <2>1. pos * MaxBurst = (pos - 1) * MaxBurst + MaxBurst
    BY <1>2
  <2>2. (pos - 1) * MaxBurst \in Int
    BY <1>2
  <2> QED
    BY <1>1, <1>2, <1>4, <1>5, <2>1, <2>2
<1>7. ASSUME NEW i \in 1 .. Len(queue')
      PROVE  i + (MaxLinks - 1) * Height[queue'[i].node] <= TaskQueueSize
  <2>1. queue'[i] \in Task
    BY <1>4, <1>7
  <2>2. queue'[i].node \in Nodes
    BY <2>1 DEF Task
  <2>3. pos \in 0 .. MaxPollers
    BY <1>2
  <2>4. pos * MaxBurst + (MaxLinks - 1) * Height[queue'[i].node] <= TaskQueueSize
    BY <2>2, <2>3, BurstRoom
  <2>5. /\ (MaxLinks - 1) * Height[queue'[i].node] \in Int /\ TaskQueueSize \in Int
        /\ pos * MaxBurst \in Int /\ i \in Int /\ i <= pos * MaxBurst
    BY <1>2, <1>4, <1>6, <2>2, GraphAssumption, AcyclicAssumption, PoolAssumption
  <2> HIDE DEF t
  <2> QED
    BY <2>4, <2>5
<1>8. pos' <= Len(toPoll') + 1 /\ Len(queue') <= (pos' - 1) * MaxBurst
  <2>1. pos' - 1 = pos
    BY <1>2, <1>3
  <2> QED
    BY <1>2, <1>3, <1>6, <2>1
<1> QED
  BY <1>3, <1>7, <1>8 DEF QueueInv

(* Taking a task off the queue and adding none. *)
LEMMA PopQueueInv ==
  ASSUME TypeOK, QueueInv, queue # <<>>, queue' = Popped, UNCHANGED toPoll,
         pc' \in {"drain", "send"}
  PROVE  QueueInv'
<1>1. /\ Len(queue) \in Nat \ {0} /\ Len(Popped) = Len(queue) - 1
      /\ \A i \in 1 .. Len(queue) - 1 : Popped[i] = queue[i]
  BY TopType
<1>2. \A i \in 1 .. Len(queue') : i \in 1 .. Len(queue) /\ queue'[i] = queue[i]
  BY <1>1
<1> QED
  BY <1>2 DEF QueueInv

(* Forwarding keeps every task as deep as its height allows. *)
LEMMA ForwardQueueInv ==
  ASSUME TypeOK, QueueInv, Forward
  PROVE  QueueInv'
<1> DEFINE n == Top.node
           s == [i \in 1 .. Len(Links[n]) |-> [node |-> Links[n][i], pkt |-> Top.pkt]]
<1>1. /\ pc' = "drain" /\ queue # <<>> /\ Forwards(n) /\ UNCHANGED toPoll
      /\ queue' = Popped \o s
  BY DEF Forward, Processing, Forwards
<1>2. /\ n \in Nodes /\ Top.pkt \in Packets /\ Popped \in Seq(Task)
      /\ Len(queue) \in Nat \ {0} /\ Len(Popped) = Len(queue) - 1
      /\ \A i \in 1 .. Len(queue) - 1 : Popped[i] = queue[i]
      /\ Top = queue[Len(queue)]
  BY <1>1, TopType
<1>3. /\ s \in Seq(Task) /\ Len(s) = Len(Links[n]) /\ Len(s) \in Nat
      /\ \A i \in 1 .. Len(s) : s[i].node = Links[n][i]
  BY <1>2, CopiesType
<1>4. Len(Links[n]) <= MaxLinks
  BY <1>2, LinksType, GraphAssumption
<1> HIDE DEF s
<1>5. Len(queue') = Len(queue) - 1 + Len(s)
  <2>1. Len(Popped \o s) = Len(Popped) + Len(s)
    BY <1>2, <1>3, ConcatProps
  <2> QED
    BY <1>1, <1>2, <2>1
<1>6. Len(queue) + (MaxLinks - 1) * Height[n] <= TaskQueueSize
  BY <1>2 DEF QueueInv
<1>7. ASSUME NEW i \in 1 .. Len(queue')
      PROVE  i + (MaxLinks - 1) * Height[queue'[i].node] <= TaskQueueSize
  <2>1. CASE i <= Len(queue) - 1
    <3>1. i \in 1 .. Len(queue) - 1 /\ queue'[i] = Popped[i]
      BY <1>1, <1>2, <1>3, <1>7, <2>1
    <3>2. queue'[i] = queue[i] /\ i \in 1 .. Len(queue)
      BY <1>2, <3>1
    <3> QED
      BY <3>2 DEF QueueInv
  <2>2. CASE i > Len(queue) - 1
    <3> DEFINE j == i - (Len(queue) - 1)
    <3>1. j \in 1 .. Len(s) /\ queue'[i] = s[j]
      BY <1>1, <1>2, <1>3, <1>5, <1>7, <2>2
    <3>2. j \in 1 .. Len(Links[n]) /\ queue'[i].node = Links[n][j]
      BY <1>3, <3>1
    <3> DEFINE g == Height[Links[n][j]]
               h == Height[n]
    <3>3. g \in Nat /\ h \in Nat /\ g < h
      BY <1>1, <1>2, <3>2, LinksType, AcyclicAssumption
    <3>4. MaxLinks - 1 \in Nat /\ MaxLinks \in Nat /\ TaskQueueSize \in Nat
      BY GraphAssumption, PoolAssumption
    <3>5. i <= Len(queue) - 1 + MaxLinks /\ i \in Nat
      BY <1>2, <1>3, <1>4, <1>5, <1>7, <3>4
    <3> HIDE DEF g, h
    <3>6. (MaxLinks - 1) * g + (MaxLinks - 1) <= (MaxLinks - 1) * h
      BY <3>3, <3>4, HeightDrop
    <3>7. (MaxLinks - 1) * g \in Nat /\ (MaxLinks - 1) * h \in Nat
      BY <3>3, <3>4
    <3>8. Len(queue) + (MaxLinks - 1) * h <= TaskQueueSize
      BY <1>6 DEF h
    <3>9. i + (MaxLinks - 1) * g <= TaskQueueSize
      BY <1>2, <3>4, <3>5, <3>6, <3>7, <3>8
    <3> QED
      BY <3>2, <3>9 DEF g
  <2>3. i \in Nat /\ Len(queue) - 1 \in Nat
    BY <1>2, <1>7
  <2> QED
    BY <2>1, <2>2, <2>3
<1> QED
  BY <1>1, <1>7 DEF QueueInv

(* Steps that leave the queue alone keep QueueInv. *)
LEMMA ControlQueueInv ==
  ASSUME TypeOK, QueueInv, ControlStep
  PROVE  QueueInv'
<1>1. queue' = queue
  BY DEF ControlStep, Enter, EnterFails, InitNode, InitFails,
         InitDone, LoopHead, PollUserExhausted, PollIo, RecvNop, PollDone,
         SendDone, FlushFails, DrainDone, Destroy, Shutdown
<1>2. /\ Len(toPoll') <= MaxPollers
      /\ \A i \in 1 .. Len(toPoll') : Pollable(toPoll'[i])
  <2>1. CASE InitNode
    <3>1. toPoll \in Seq(Nodes) /\ inited + 1 \in Nodes
      BY <2>1, GraphAssumption DEF InitNode, TypeOK, Nodes
    <3>2. CASE toPoll' = toPoll
      BY <3>2 DEF QueueInv
    <3>3. CASE toPoll' # toPoll
      <4>1. /\ toPoll' = Append(toPoll, inited + 1) /\ Pollable(inited + 1)
            /\ Len(toPoll) < MaxPollers
        <5>1. Len(toPoll) \in Nat /\ MaxPollers \in Nat
          BY <3>1, GraphAssumption
        <5>2. Pollable(inited + 1) /\ ~ (Len(toPoll) >= MaxPollers)
          BY <2>1, <3>3 DEF InitNode
        <5> QED
          BY <2>1, <5>1, <5>2 DEF InitNode
      <4>2. Len(toPoll') = Len(toPoll) + 1 /\ Len(toPoll) \in Nat
        BY <3>1, <4>1
      <4>3. /\ \A i \in 1 .. Len(toPoll) : toPoll'[i] = toPoll[i]
            /\ toPoll'[Len(toPoll) + 1] = inited + 1
        BY <3>1, <4>1
      <4>4. Len(toPoll') <= MaxPollers
        BY <4>1, <4>2, GraphAssumption
      <4>5. \A i \in 1 .. Len(toPoll') : i \in 1 .. Len(toPoll) \/ i = Len(toPoll) + 1
        BY <4>2
      <4>6. \A i \in 1 .. Len(toPoll') : Pollable(toPoll'[i])
        BY <4>1, <4>3, <4>5 DEF QueueInv
      <4> QED
        BY <4>4, <4>6
    <3> QED
      BY <3>2, <3>3
  <2>2. CASE ~ InitNode
    <3>1. toPoll' = toPoll
      BY <2>2 DEF ControlStep, Enter, EnterFails, InitFails,
         InitDone, LoopHead, PollUserExhausted, PollIo, RecvNop, PollDone,
         SendDone, FlushFails, DrainDone, Destroy, Shutdown
    <3> QED
      BY <3>1 DEF QueueInv
  <2> QED
    BY <2>1, <2>2
<1>3. pc' \in {"enter", "init", "loop", "destroy", "stopped"} => queue' = <<>>
  BY <1>1 DEF QueueInv, ControlStep, Enter, EnterFails, InitNode, InitFails,
         InitDone, LoopHead, PollUserExhausted, PollIo, RecvNop, PollDone,
         SendDone, FlushFails, DrainDone, Destroy, Shutdown
<1>4. /\ pc' \in {"poll", "flush"} =>
           pos' <= Len(toPoll') + 1 /\ Len(queue') <= (pos' - 1) * MaxBurst
      /\ pc' = "flush" => pos' <= Len(toPoll')
  <2>0. /\ pos \in Nat \ {0} /\ Len(toPoll) \in Nat /\ MaxBurst \in Nat
        /\ Len(queue) \in Nat
    BY MaxBurstType DEF TypeOK
  <2>1. CASE LoopHead
    <3>1. queue = <<>> /\ pos' = 1 /\ toPoll' = toPoll /\ pc' # "flush"
      BY <2>1 DEF LoopHead, QueueInv
    <3>2. Len(queue') = 0 /\ (pos' - 1) * MaxBurst = 0
      BY <1>1, <2>0, <3>1
    <3> QED
      BY <2>0, <3>1, <3>2
  <2>2. CASE RecvNop
    <3>1. /\ pc = "flush" /\ pc' = "poll" /\ pos' = pos + 1 /\ toPoll' = toPoll
          /\ pos <= Len(toPoll)
          /\ Len(queue) <= (pos - 1) * MaxBurst
      BY <2>2 DEF RecvNop, QueueInv
    <3>2. (pos' - 1) * MaxBurst = (pos - 1) * MaxBurst + MaxBurst
      BY <2>0, <3>1
    <3>3. (pos - 1) * MaxBurst \in Nat
      BY <2>0
    <3>4. Len(queue') <= (pos' - 1) * MaxBurst
      BY <1>1, <2>0, <3>1, <3>2, <3>3
    <3> QED
      BY <2>0, <3>1, <3>4
  <2>3. CASE PollIo
    BY <2>3 DEF PollIo, Polling, QueueInv
  <2>4. CASE Shutdown
    BY <2>4 DEF Shutdown, QueueInv
  <2>5. CASE ~ (LoopHead \/ RecvNop \/ PollIo \/ Shutdown)
    <3>1. pc' \notin {"poll", "flush"}
      BY <2>5 DEF ControlStep, Enter, EnterFails, InitNode, InitFails,
         InitDone, PollUserExhausted, PollDone,
         SendDone, FlushFails, DrainDone, Destroy
    <3> QED
      BY <3>1
  <2> QED
    BY <2>1, <2>2, <2>3, <2>4, <2>5
<1>5. \A i \in 1 .. Len(queue') :
        i + (MaxLinks - 1) * Height[queue'[i].node] <= TaskQueueSize
  BY <1>1 DEF QueueInv
<1> QED
  BY <1>2, <1>3, <1>4, <1>5 DEF QueueInv

(* Every step keeps QueueInv. *)
LEMMA QueueStep ==
  ASSUME IInv, [Next]_vars
  PROVE  QueueInv'
<1> USE DEF IInv
<1>1. CASE ControlStep
  BY <1>1, ControlQueueInv
<1>2. CASE PollUser
  <2>1. UserBurst \in 1 .. MaxBurst
    BY MaxBurstType, PoolAssumption
  <2> QED
    BY <1>2, <2>1, EnqueueQueueInv DEF PollUser, Polling
<1>3. CASE Recv
  <2>1. PICK k \in 1 .. RxBurst : \E ps \in Allocations(k) : Enqueue(toPoll[pos], ps)
    BY <1>3 DEF Recv
  <2>2. k \in 1 .. MaxBurst
    BY MaxBurstType, PoolAssumption
  <2>3. pc = "flush" /\ pos <= Len(toPoll)
    BY <1>3 DEF Recv, QueueInv
  <2> QED
    BY <1>3, <2>1, <2>2, <2>3, EnqueueQueueInv DEF Recv
<1>4. CASE RecvExhausted
  BY <1>4 DEF RecvExhausted, QueueInv
<1>5. CASE Forward
  BY <1>5, ForwardQueueInv
<1>6. CASE Drop \/ ProcessIo
  <2>1. queue # <<>> /\ queue' = Popped /\ UNCHANGED toPoll /\ pc' \in {"drain", "send"}
    BY <1>6 DEF Drop, ProcessIo, Processing
  <2> QED
    BY <2>1, PopQueueInv
<1>7. CASE UNCHANGED <<pc, toPoll, pos, queue>>
  BY <1>7 DEF QueueInv
<1>8. CASE \E p \in Packets : TxDone(p) \/ OtherAllocates(p) \/ OtherFrees(p)
  BY <1>7, <1>8 DEF TxDone, OtherAllocates, OtherFrees
<1>9. CASE UNCHANGED vars
  BY <1>7, <1>9 DEF vars
<1> QED
  BY <1>1, <1>2, <1>3, <1>4, <1>5, <1>6, <1>8, <1>9
     DEF Next, WorkerStep, Environment, Terminated, ControlStep

-----------------------------------------------------------------------------
(* The reference counts.                                                   *)

(* What is counted for one packet, as numbers. *)
LEMMA CountTypes ==
  ASSUME TypeOK, NEW p \in Packets
  PROVE  /\ refcnt[p] \in Nat /\ pool[p] \in Nat /\ foreign[p] \in Nat
         /\ held[p] \in Nat
         /\ Cardinality(TasksOf(queue, p)) \in Nat
         /\ Holders(p) = Cardinality(TasksOf(queue, p)) + held[p]
         /\ Holders(p) \in Nat
<1>1. Cardinality(TasksOf(queue, p)) \in Nat
  BY TasksFinite DEF TypeOK
<1>2. /\ refcnt[p] \in Nat /\ pool[p] \in Nat /\ foreign[p] \in Nat /\ held[p] \in Nat
  BY DEF TypeOK
<1> QED
  BY <1>1, <1>2 DEF Holders

(* What RefcntExact and PooledClean say of one packet. *)
Exact(p) == ~ InPool(p) => refcnt[p] = Holders(p) /\ refcnt[p] >= 1
Clean(p) == InPool(p) =>
              pool[p] + foreign[p] = 1 /\ refcnt[p] = 1 /\ Holders(p) = 0

(* A step that changes no count and no user keeps the counts exact. *)
LEMMA SameCounts ==
  ASSUME RefcntExact, PooledClean, pc # "failed" \/ pc' = "failed",
         UNCHANGED <<refcnt, held>>,
         \A p \in Packets : /\ pool'[p] + foreign'[p] = pool[p] + foreign[p]
                            /\ TasksOf(queue', p) = TasksOf(queue, p)
  PROVE  RefcntExact' /\ PooledClean'
<1>1. \A p \in Packets : InPool(p)' <=> InPool(p)
  BY DEF InPool
<1>2. \A p \in Packets : Holders(p)' = Holders(p)
  BY DEF Holders
<1>3. RefcntExact'
  BY <1>1, <1>2 DEF RefcntExact
<1>4. PooledClean'
  BY <1>1, <1>2 DEF PooledClean
<1> QED
  BY <1>3, <1>4

(* A poll moves packets that nobody uses from the pool to the queue, once  *)
(* each: the count of 1 they have in the pool is the right one.            *)
LEMMA EnqueueRef ==
  ASSUME IInv, pc \in {"poll", "flush"}, pos <= Len(toPoll),
         NEW k \in 1 .. MaxBurst, NEW ps \in Allocations(k),
         Enqueue(toPoll[pos], ps), TypeOK',
         UNCHANGED <<refcnt, foreign, held>>
  PROVE  RefcntExact' /\ PooledClean'
<1> DEFINE t == PolledTasks(toPoll[pos], ps)
           Taken(p) == \E i \in 1 .. k : ps[i] = p
<1>1. t \in Seq(Task) /\ Len(t) = k /\ \A j \in 1 .. k : t[j].pkt = ps[j]
  BY EnqueueType DEF IInv
<1>2. /\ Len(ps) = k
      /\ \A i \in 1 .. k : ps[i] \in Packets /\ pool[ps[i]] > 0
      /\ \A i, j \in 1 .. k : i # j => ps[i] # ps[j]
  <2>1. k \in Nat
    BY MaxBurstType
  <2> QED
    BY <2>1, AllocationsType
<1>3. /\ queue' = queue \o t
      /\ pool' = [p \in Packets |-> IF Taken(p) THEN pool[p] - 1 ELSE pool[p]]
  BY <1>2 DEF Enqueue, Allocate
<1>4. ASSUME NEW p \in Packets
      PROVE  Cardinality(TasksOf(queue', p)) =
               Cardinality(TasksOf(queue, p)) + (IF Taken(p) THEN 1 ELSE 0)
  <2>1. \A i, j \in 1 .. Len(t) : i # j => t[i].pkt # t[j].pkt
    BY <1>1, <1>2
  <2>2. (\E i \in 1 .. Len(t) : t[i].pkt = p) <=> Taken(p)
    BY <1>1
  <2>3. queue \in Seq(Task)
    BY DEF IInv, TypeOK
  <2> HIDE DEF t, Taken
  <2>4. Cardinality(TasksOf(queue \o t, p)) =
          Cardinality(TasksOf(queue, p))
            + (IF \E i \in 1 .. Len(t) : t[i].pkt = p THEN 1 ELSE 0)
    BY <1>1, <2>1, <2>3, DistinctCount
  <2> QED
    BY <1>3, <2>2, <2>4
<1> HIDE DEF t
<1>5. ASSUME NEW p \in Packets
      PROVE  Exact(p)' /\ Clean(p)'
  <2>1. /\ refcnt[p] \in Nat /\ pool[p] \in Nat /\ foreign[p] \in Nat /\ held[p] \in Nat
        /\ Cardinality(TasksOf(queue, p)) \in Nat
    BY CountTypes DEF IInv
  <2>2. (InPool(p) => Clean(p)) /\ (~ InPool(p) => Exact(p))
    BY DEF IInv, PooledClean, RefcntExact, Clean, Exact
  <2>3. CASE Taken(p)
    <3>1. pool[p] > 0
      BY <1>2, <2>3
    <3>2. InPool(p)
      BY <2>1, <3>1 DEF InPool
    <3>3. /\ pool[p] + foreign[p] = 1 /\ refcnt[p] = 1
          /\ Cardinality(TasksOf(queue, p)) + held[p] = 0
      BY <2>2, <3>2 DEF Clean, Holders
    <3>4. /\ pool'[p] = pool[p] - 1
          /\ Cardinality(TasksOf(queue', p)) = Cardinality(TasksOf(queue, p)) + 1
      BY <1>3, <1>4, <2>3
    <3>5. pool[p] = 1 /\ foreign[p] = 0 /\ held[p] = 0
          /\ Cardinality(TasksOf(queue, p)) = 0
      BY <2>1, <3>1, <3>3
    <3>6. pool'[p] + foreign'[p] = 0 /\ refcnt'[p] = 1
      BY <3>3, <3>4, <3>5
    <3>7. Cardinality(TasksOf(queue', p)) + held'[p] = 1
      BY <3>4, <3>5
    <3>8. ~ InPool(p)' /\ refcnt'[p] = Holders(p)' /\ refcnt'[p] >= 1
      BY <3>6, <3>7 DEF InPool, Holders
    <3> QED
      BY <3>8 DEF Exact, Clean
  <2>4. CASE ~ Taken(p)
    <3>1. /\ pool'[p] = pool[p]
          /\ Cardinality(TasksOf(queue', p)) = Cardinality(TasksOf(queue, p))
      BY <1>3, <1>4, <2>1, <2>4
    <3>2. (InPool(p)' <=> InPool(p)) /\ Holders(p)' = Holders(p)
      BY <3>1 DEF InPool, Holders
    <3> QED
      BY <2>2, <3>1, <3>2 DEF Exact, Clean
  <2> QED
    BY <2>3, <2>4
<1> QED
  BY <1>5 DEF RefcntExact, PooledClean, Exact, Clean

(* Giving up one reference: the last one returns the packet to the pool.   *)
LEMMA DeallocateRef ==
  ASSUME IInv, pc # "failed", NEW x \in Packets, Deallocate(x), TypeOK',
         UNCHANGED foreign,
         Holders(x) >= 1, Holders(x)' = Holders(x) - 1,
         \A p \in Packets : p # x => Holders(p)' = Holders(p)
  PROVE  RefcntExact' /\ PooledClean'
<1>1. /\ refcnt[x] \in Nat /\ pool[x] \in Nat /\ foreign[x] \in Nat /\ Holders(x) \in Nat
  BY CountTypes DEF IInv
<1>2. ~ InPool(x) /\ refcnt[x] = Holders(x)
  BY <1>1 DEF IInv, PooledClean, RefcntExact
<1>3. pool[x] = 0 /\ foreign[x] = 0
  BY <1>1, <1>2 DEF InPool
<1>4. pool \in [Packets -> Nat] /\ refcnt \in [Packets -> Nat]
  BY DEF IInv, TypeOK
<1>5. Exact(x)' /\ Clean(x)'
  <2>1. CASE refcnt[x] = 1
    <3>1. pool'[x] = 1 /\ refcnt'[x] = 1 /\ foreign'[x] = 0
      BY <1>3, <1>4, <2>1 DEF Deallocate
    <3>2. Holders(x)' = 0
      BY <1>2, <2>1
    <3>3. InPool(x)' /\ pool'[x] + foreign'[x] = 1
      BY <3>1 DEF InPool
    <3> QED
      BY <3>1, <3>2, <3>3 DEF Exact, Clean
  <2>2. CASE refcnt[x] # 1
    <3>1. pool'[x] = 0 /\ refcnt'[x] = refcnt[x] - 1 /\ foreign'[x] = 0
      BY <1>3, <1>4, <2>2 DEF Deallocate
    <3>2. ~ InPool(x)'
      BY <3>1 DEF InPool
    <3>3. refcnt'[x] = Holders(x)' /\ refcnt'[x] >= 1
      BY <1>1, <1>2, <2>2, <3>1
    <3> QED
      BY <3>2, <3>3 DEF Exact, Clean
  <2> QED
    BY <2>1, <2>2
<1>6. ASSUME NEW p \in Packets, p # x
      PROVE  Exact(p)' /\ Clean(p)'
  <2>1. pool'[p] = pool[p] /\ refcnt'[p] = refcnt[p] /\ foreign'[p] = foreign[p]
    BY <1>4, <1>6 DEF Deallocate
  <2>2. (InPool(p)' <=> InPool(p)) /\ Holders(p)' = Holders(p)
    BY <1>6, <2>1 DEF InPool
  <2> QED
    BY <2>1, <2>2 DEF IInv, RefcntExact, PooledClean, Exact, Clean
<1> QED
  BY <1>5, <1>6 DEF RefcntExact, PooledClean, Exact, Clean

(* Popping a task, in terms of the packets it refers to. *)
LEMMA PopHolders ==
  ASSUME TypeOK, queue # <<>>, NEW p
  PROVE  /\ Cardinality(TasksOf(queue, p)) =
              Cardinality(TasksOf(Popped, p)) + (IF Top.pkt = p THEN 1 ELSE 0)
         /\ Cardinality(TasksOf(Popped, p)) \in Nat
<1>1. queue \in Seq(Task) /\ Popped \in Seq(Task)
  BY TopType DEF TypeOK
<1> QED
  BY <1>1, PopCount, TasksFinite DEF Top, Popped

(* A task that is dropped takes its reference with it. *)
LEMMA DropRef ==
  ASSUME IInv, Drop, TypeOK'
  PROVE  RefcntExact' /\ PooledClean'
<1>1. /\ pc # "failed" /\ queue # <<>> /\ Deallocate(Top.pkt)
      /\ queue' = Popped /\ UNCHANGED <<foreign, held>>
  BY DEF Drop, Processing
<1>2. PICK x \in Packets : x = Top.pkt
  BY <1>1, TopType DEF IInv
<1>3. ASSUME NEW p \in Packets
      PROVE  /\ Holders(p) = Holders(p)' + (IF x = p THEN 1 ELSE 0)
             /\ Holders(p)' \in Nat
  <2>1. /\ Cardinality(TasksOf(queue, p)) =
             Cardinality(TasksOf(queue', p)) + (IF x = p THEN 1 ELSE 0)
        /\ Cardinality(TasksOf(queue', p)) \in Nat
    BY <1>1, <1>2, PopHolders DEF IInv
  <2>2. held[p] \in Nat /\ held'[p] = held[p]
    BY <1>1 DEF IInv, TypeOK
  <2> QED
    BY <2>1, <2>2 DEF Holders
<1>4. Holders(x) >= 1 /\ Holders(x)' = Holders(x) - 1
  BY <1>2, <1>3
<1>5. \A p \in Packets : p # x => Holders(p)' = Holders(p)
  BY <1>3
<1> QED
  BY <1>1, <1>2, <1>4, <1>5, DeallocateRef

(* packet_free_callback releases the reference of the adapter. *)
LEMMA TxDoneRef ==
  ASSUME IInv, NEW x \in Packets, TxDone(x), TypeOK'
  PROVE  RefcntExact' /\ PooledClean'
<1>1. /\ pc # "failed" /\ Deallocate(x) /\ held[x] > 0
      /\ held' = [held EXCEPT ![x] = @ - 1] /\ UNCHANGED <<foreign, queue>>
  BY DEF TxDone
<1>2. \A p \in Packets : held[p] \in Nat /\ Cardinality(TasksOf(queue, p)) \in Nat
  BY CountTypes DEF IInv
<1>3. held'[x] = held[x] - 1 /\ \A p \in Packets : p # x => held'[p] = held[p]
  BY <1>1 DEF IInv, TypeOK
<1>4. Holders(x) >= 1 /\ Holders(x)' = Holders(x) - 1
  BY <1>1, <1>2, <1>3 DEF Holders
<1>5. \A p \in Packets : p # x => Holders(p)' = Holders(p)
  BY <1>1, <1>3 DEF Holders
<1> QED
  BY <1>1, <1>4, <1>5, DeallocateRef

(* The reference of the task passes to the adapter. *)
LEMMA ProcessIoRef ==
  ASSUME IInv, ProcessIo
  PROVE  RefcntExact' /\ PooledClean'
<1> DEFINE x == Top.pkt
<1>1. /\ pc # "failed" /\ queue # <<>> /\ held' = [held EXCEPT ![x] = @ + 1]
      /\ queue' = Popped /\ UNCHANGED <<foreign, refcnt, pool>>
  BY DEF ProcessIo, Processing
<1>2. x \in Packets
  BY <1>1, TopType DEF IInv
<1>3. ASSUME NEW p \in Packets
      PROVE  Holders(p)' = Holders(p)
  <2>1. /\ Cardinality(TasksOf(queue, p)) =
             Cardinality(TasksOf(queue', p)) + (IF x = p THEN 1 ELSE 0)
        /\ Cardinality(TasksOf(queue', p)) \in Nat
    BY <1>1, PopHolders DEF IInv
  <2> HIDE DEF x
  <2>2. held[p] \in Nat /\ held'[p] = held[p] + (IF x = p THEN 1 ELSE 0)
    BY <1>1, <1>2 DEF IInv, TypeOK
  <2> QED
    BY <2>1, <2>2 DEF Holders
<1>4. \A p \in Packets : InPool(p)' <=> InPool(p)
  BY <1>1 DEF InPool
<1> QED
  BY <1>1, <1>3, <1>4 DEF IInv, RefcntExact, PooledClean

(* Len(Links) new tasks for one old one, and Len(Links) - 1 references.    *)
LEMMA ForwardRef ==
  ASSUME IInv, Forward
  PROVE  RefcntExact' /\ PooledClean'
<1>0. PICK x : x = Top.pkt
  OBVIOUS
<1> DEFINE n == Top.node
           s == [i \in 1 .. Len(Links[n]) |-> [node |-> Links[n][i], pkt |-> x]]
<1>1. /\ pc # "failed" /\ queue # <<>> /\ Forwards(n)
      /\ refcnt' = [refcnt EXCEPT ![x] = @ + (Len(Links[n]) - 1)]
      /\ queue' = Popped \o s /\ UNCHANGED <<foreign, held, pool>>
  BY <1>0 DEF Forward, Processing, Forwards
<1>2. n \in Nodes /\ x \in Packets /\ Popped \in Seq(Task)
  BY <1>0, <1>1, TopType DEF IInv
<1>3. /\ s \in Seq(Task) /\ Len(s) = Len(Links[n])
      /\ \A i \in 1 .. Len(s) : s[i].pkt = x
  BY <1>2, CopiesType
<1>4. Len(s) \in Nat /\ Len(s) >= 1
  BY <1>1, <1>2, <1>3, LinksType, LinkAssumption
<1> HIDE DEF n, s
<1>5. ASSUME NEW p \in Packets
      PROVE  Cardinality(TasksOf(queue', p)) =
               Cardinality(TasksOf(queue, p)) + (IF x = p THEN Len(s) - 1 ELSE 0)
  <2>1. /\ Cardinality(TasksOf(queue, p)) =
             Cardinality(TasksOf(Popped, p)) + (IF x = p THEN 1 ELSE 0)
        /\ Cardinality(TasksOf(Popped, p)) \in Nat
    BY <1>0, <1>1, PopHolders DEF IInv
  <2>2. Cardinality(TasksOf(Popped \o s, p)) =
          Cardinality(TasksOf(Popped, p)) + (IF p = x THEN Len(s) ELSE 0)
    <3>1. TasksOf(s, x) = 1 .. Len(s)
      BY <1>3 DEF TasksOf
    <3> QED
      BY <1>2, <1>3, <3>1, CopiesCount
  <2> QED
    BY <1>1, <1>4, <2>1, <2>2
<1>6. Cardinality(TasksOf(queue, x)) >= 1
  <2>1. /\ Cardinality(TasksOf(queue, x)) = Cardinality(TasksOf(Popped, x)) + 1
        /\ Cardinality(TasksOf(Popped, x)) \in Nat
    BY <1>0, <1>1, PopHolders DEF IInv
  <2> QED
    BY <2>1
<1>7. ASSUME NEW p \in Packets
      PROVE  Exact(p)' /\ Clean(p)'
  <2>1. /\ refcnt[p] \in Nat /\ held[p] \in Nat
        /\ Cardinality(TasksOf(queue, p)) \in Nat
    BY CountTypes DEF IInv
  <2>2. InPool(p)' <=> InPool(p)
    BY <1>1 DEF InPool
  <2>3. CASE p = x
    <3>1. ~ InPool(p)
      BY <1>6, <2>1, <2>3 DEF IInv, PooledClean, Holders
    <3>2. refcnt[p] = Cardinality(TasksOf(queue, p)) + held[p] /\ refcnt[p] >= 1
      BY <1>1, <3>1 DEF IInv, RefcntExact, Holders
    <3>3. refcnt'[p] = refcnt[p] + (Len(s) - 1) /\ held'[p] = held[p]
      BY <1>1, <1>2, <1>3, <2>3 DEF IInv, TypeOK
    <3>4. Cardinality(TasksOf(queue', p)) = Cardinality(TasksOf(queue, p)) + (Len(s) - 1)
      BY <1>5, <2>3
    <3>5. /\ refcnt'[p] = Cardinality(TasksOf(queue', p)) + held'[p]
          /\ refcnt'[p] >= 1
      BY <1>4, <2>1, <3>2, <3>3, <3>4
    <3> QED
      BY <2>2, <3>1, <3>5 DEF Exact, Clean, Holders
  <2>4. CASE p # x
    <3>1. refcnt'[p] = refcnt[p] /\ held'[p] = held[p] /\ pool'[p] = pool[p]
          /\ foreign'[p] = foreign[p]
      BY <1>1, <2>4 DEF IInv, TypeOK
    <3>2. Cardinality(TasksOf(queue', p)) = Cardinality(TasksOf(queue, p))
      BY <1>5, <2>1, <2>4
    <3>3. Holders(p)' = Holders(p)
      BY <3>1, <3>2 DEF Holders
    <3> QED
      BY <1>1, <2>2, <3>1, <3>3 DEF IInv, RefcntExact, PooledClean, Exact, Clean
  <2> QED
    BY <2>3, <2>4
<1> QED
  BY <1>7 DEF RefcntExact, PooledClean, Exact, Clean

(* Every step keeps the reference counts exact and the pool clean. *)
LEMMA RefStep ==
  ASSUME IInv, [Next]_vars
  PROVE  RefcntExact' /\ PooledClean'
<1>1. CASE ControlStep \/ UNCHANGED vars
  <2>1. UNCHANGED <<queue, refcnt, pool, foreign, held>>
    BY <1>1 DEF vars, ControlStep, Enter, EnterFails, InitNode, InitFails,
         InitDone, LoopHead, PollUserExhausted, PollIo, RecvNop, PollDone,
         SendDone, FlushFails, DrainDone, Destroy, Shutdown
  <2>2. pc # "failed" \/ pc' = "failed"
    BY <1>1 DEF vars, ControlStep, Enter, EnterFails, InitNode, InitFails,
         InitDone, LoopHead, PollUserExhausted, PollIo, RecvNop, PollDone,
         SendDone, FlushFails, DrainDone, Destroy, Shutdown, Polling
  <2> QED
    BY <2>1, <2>2, SameCounts DEF IInv
<1>2. CASE PollUser
  <2>1. UserBurst \in 1 .. MaxBurst
    BY MaxBurstType, PoolAssumption
  <2> QED
    BY <1>2, <2>1, EnqueueRef, TypeStep DEF PollUser, Polling
<1>3. CASE Recv
  <2>1. PICK k \in 1 .. RxBurst : \E ps \in Allocations(k) : Enqueue(toPoll[pos], ps)
    BY <1>3 DEF Recv
  <2>2. k \in 1 .. MaxBurst
    BY MaxBurstType, PoolAssumption
  <2>3. pc = "flush" /\ pos <= Len(toPoll)
    BY <1>3 DEF Recv, IInv, QueueInv
  <2> QED
    BY <1>3, <2>1, <2>2, <2>3, EnqueueRef, TypeStep DEF Recv
<1>4. CASE RecvExhausted
  <2>1. /\ pc' = "failed" /\ pool' = [p \in Packets |-> 0]
        /\ UNCHANGED <<queue, refcnt, foreign, held>>
    BY <1>4 DEF RecvExhausted
  <2>2. RefcntExact'
    BY <2>1 DEF RefcntExact
  <2>3. ASSUME NEW p \in Packets, InPool(p)'
        PROVE  /\ pool'[p] + foreign'[p] = 1 /\ refcnt'[p] = 1 /\ Holders(p)' = 0
    <3>1. pool[p] \in Nat /\ foreign[p] \in Nat
      BY CountTypes DEF IInv
    <3>2. foreign[p] > 0
      BY <2>1, <2>3, <3>1 DEF InPool
    <3>3. InPool(p)
      BY <3>1, <3>2 DEF InPool
    <3>4. pool[p] + foreign[p] = 1 /\ refcnt[p] = 1 /\ Holders(p) = 0
      BY <3>3 DEF IInv, PooledClean
    <3>5. Holders(p)' = Holders(p)
      BY <2>1 DEF Holders
    <3> QED
      BY <2>1, <3>1, <3>2, <3>4, <3>5
  <2> QED
    BY <2>2, <2>3 DEF PooledClean
<1>5. CASE Forward
  BY <1>5, ForwardRef
<1>6. CASE Drop
  BY <1>6, DropRef, TypeStep
<1>7. CASE ProcessIo
  BY <1>7, ProcessIoRef
<1>8. CASE \E p \in Packets : TxDone(p)
  BY <1>8, TxDoneRef, TypeStep
<1>9. CASE \E p \in Packets : OtherAllocates(p) \/ OtherFrees(p)
  <2>1. PICK x \in Packets : OtherAllocates(x) \/ OtherFrees(x)
    BY <1>9
  <2>2. \A p \in Packets : pool[p] \in Nat /\ foreign[p] \in Nat
    BY DEF IInv, TypeOK
  <2>3. \A p \in Packets : pool'[p] + foreign'[p] = pool[p] + foreign[p]
    <3> TAKE p \in Packets
    <3>1. CASE p = x
      <4>1. \/ pool'[p] = pool[p] - 1 /\ foreign'[p] = foreign[p] + 1
            \/ pool'[p] = pool[p] + 1 /\ foreign'[p] = foreign[p] - 1
        BY <2>1, <3>1 DEF OtherAllocates, OtherFrees, IInv, TypeOK
      <4> QED
        BY <2>2, <4>1
    <3>2. CASE p # x
      <4>1. pool'[p] = pool[p] /\ foreign'[p] = foreign[p]
        BY <2>1, <3>2 DEF OtherAllocates, OtherFrees, IInv, TypeOK
      <4> QED
        BY <4>1
    <3> QED
      BY <3>1, <3>2
  <2>4. UNCHANGED <<pc, queue, refcnt, held>>
    BY <2>1 DEF OtherAllocates, OtherFrees
  <2> QED
    BY <2>3, <2>4, SameCounts DEF IInv
<1> QED
  BY <1>1, <1>2, <1>3, <1>4, <1>5, <1>6, <1>7, <1>8, <1>9
     DEF Next, WorkerStep, Environment, Terminated, ControlStep

-----------------------------------------------------------------------------
(* The theorems.                                                           *)

(* The invariant holds when the worker starts. *)
LEMMA InitIInv ==
  ASSUME Init
  PROVE  IInv
<1>1. TypeOK
  <2>1. <<>> \in Seq(Nodes) /\ <<>> \in Seq(Task)
    OBVIOUS
  <2>2. pc \in Labels /\ inited \in 0 .. NumNodes /\ pos \in Nat \ {0} /\ stop \in BOOLEAN
    <3>1. stop \in BOOLEAN
      BY Zenon DEF Init
    <3>2. pc \in Labels
      BY DEF Init, Labels
    <3>3. inited \in 0 .. NumNodes /\ pos \in Nat \ {0}
      BY GraphAssumption DEF Init
    <3> QED
      BY <3>1, <3>2, <3>3
  <2>3. toPoll \in Seq(Nodes) /\ queue \in Seq(Task)
    BY <2>1 DEF Init
  <2>4. /\ refcnt \in [Packets -> Nat] /\ pool \in [Packets -> Nat]
        /\ foreign \in [Packets -> Nat] /\ held \in [Packets -> Nat]
    BY DEF Init
  <2> QED
    BY <2>2, <2>3, <2>4 DEF TypeOK
<1>2. QueueInv
  <2>1. Len(toPoll) = 0 /\ Len(queue) = 0 /\ queue = <<>> /\ pc = "enter"
    BY DEF Init
  <2> QED
    BY <2>1, GraphAssumption DEF QueueInv
<1>3. \A p \in Packets : /\ pool[p] + foreign[p] = 1 /\ refcnt[p] = 1
                         /\ held[p] = 0 /\ InPool(p)
  BY DEF Init, InPool
<1>4. \A p : TasksOf(queue, p) = {}
  BY DEF Init, TasksOf
<1>5. \A p \in Packets : Holders(p) = 0
  BY <1>3, <1>4, FS_EmptySet DEF Holders
<1> QED
  BY <1>1, <1>2, <1>3, <1>5 DEF IInv, RefcntExact, PooledClean

(* The invariant that carries all the others holds in every reachable      *)
(* state of Worker::run.                                                   *)
THEOREM Invariance == Spec => []IInv
<1>1. Init => IInv
  BY InitIInv
<1>2. IInv /\ [Next]_vars => IInv'
  BY TypeStep, QueueStep, RefStep DEF IInv
<1> QED
  BY <1>1, <1>2, PTL DEF Spec

(* Every variable of the worker keeps its type: in particular              *)
(* Packet::refcnt never underflows and no slot leaves the pool twice.      *)
THEOREM TypeCorrect == Spec => []TypeOK
<1>1. IInv => TypeOK
  BY DEF IInv
<1> QED
  BY <1>1, Invariance, PTL

(* Packet::refcnt is exact in every state of a worker that has not failed, *)
(* for every graph and pool (packet.rs deallocate, engine.rs Worker::run). *)
THEOREM RefcountsExact == Spec => []RefcntExact
<1>1. IInv => RefcntExact
  BY DEF IInv
<1> QED
  BY <1>1, Invariance, PTL

(* No packet in the pool is in use and none is in it twice: no use after   *)
(* free and no double free through PacketPool::deallocate.                 *)
THEOREM PoolClean == Spec => []PooledClean
<1>1. IInv => PooledClean
  BY DEF IInv
<1> QED
  BY <1>1, Invariance, PTL

(* The unchecked writes to task_queue in Worker::run are in bounds for     *)
(* every graph whose heights fit the queue (CapacityAssumption).           *)
THEOREM QueueBounded == Spec => []QueueBound
<1>1. IInv => QueueBound
  <2> SUFFICES ASSUME TypeOK, QueueInv
               PROVE  Len(queue) <= TaskQueueSize
    BY DEF IInv, QueueBound
  <2>1. queue \in Seq(Task) /\ Len(queue) \in Nat /\ TaskQueueSize \in Nat
    BY PoolAssumption DEF TypeOK
  <2>2. CASE Len(queue) = 0
    BY <2>1, <2>2
  <2>3. CASE Len(queue) # 0
    <3>1. Len(queue) \in 1 .. Len(queue)
      BY <2>1, <2>3
    <3>2. queue[Len(queue)] \in Task
      BY <2>1, <3>1
    <3>3. queue[Len(queue)].node \in Nodes
      BY <3>2 DEF Task
    <3>4. (MaxLinks - 1) * Height[queue[Len(queue)].node] \in Nat
      <4>1. MaxLinks - 1 \in Nat /\ Height[queue[Len(queue)].node] \in Nat
        BY <3>3, GraphAssumption, AcyclicAssumption
      <4>2. \A a, b \in Nat : a * b \in Nat
        OBVIOUS
      <4> QED
        BY <4>1, <4>2
    <3>5. Len(queue) + (MaxLinks - 1) * Height[queue[Len(queue)].node] <= TaskQueueSize
      BY <3>1 DEF QueueInv
    <3> QED
      BY <2>1, <3>4, <3>5
  <2> QED
    BY <2>2, <2>3
<1> QED
  BY <1>1, Invariance, PTL

(* A worker that leaves its loop because of STOP_FLAG leaves no task, and  *)
(* no packet that is neither in the pool nor owned by an adapter.          *)
THEOREM StopsClean == Spec => []CleanStop
<1>1. IInv => CleanStop
  <2> SUFFICES ASSUME IInv, pc = "stopped"
               PROVE  /\ queue = <<>>
                      /\ \A p \in Packets : InPool(p) \/ held[p] = refcnt[p]
    BY DEF CleanStop
  <2>1. queue = <<>>
    BY DEF IInv, QueueInv
  <2>2. ASSUME NEW p \in Packets, ~ InPool(p)
        PROVE  held[p] = refcnt[p]
    <3>1. refcnt[p] = Cardinality(TasksOf(queue, p)) + held[p]
      BY <2>2 DEF IInv, RefcntExact, Holders
    <3>2. TasksOf(queue, p) = {}
      BY <2>1 DEF TasksOf
    <3>3. Cardinality(TasksOf(queue, p)) = 0
      BY <3>2, FS_EmptySet
    <3>4. held[p] \in Nat
      BY CountTypes DEF IInv
    <3> QED
      BY <3>1, <3>3, <3>4
  <2> QED
    BY <2>1, <2>2
<1> QED
  BY <1>1, Invariance, PTL

-----------------------------------------------------------------------------
(* The composition with the adapters.                                      *)

(* The adapters have packets of the pool, and nothing else. *)
FifoType ==
  /\ fifo \in [Nics -> Seq(Packets)]
  /\ flight \in [Nics -> Seq(Packets)]

PathInv == IInv /\ FifoType

(* The steps of the worker that leave the adapters and the buffers alone,  *)
(* and the steps that change nothing but how far a flush has come.         *)
Quiet ==
  /\ Local \/ RecvNop \/ RecvExhausted \/ SendDone \/ FlushFails \/ Destroy
  /\ UNCHANGED pathVars

Unseen == UNCHANGED <<vars, fifo, flight, mbufTy, lent>>

(* The steps of the composition, sorted by what they change. *)
LEMMA PathCases ==
  ASSUME [PathNext]_allVars
  PROVE  \/ Quiet \/ Unseen
         \/ PathPollUser \/ PathRecv \/ PathDrop \/ PathSend
         \/ \E n \in Nics : PathTxDone(n)
         \/ \E n \in Nics : PathTransmit(n)
         \/ PathOther
         \/ (Shutdown \/ Terminated) /\ UNCHANGED pathVars
<1>1. CASE UNCHANGED allVars
  BY <1>1 DEF allVars, vars, Unseen
<1>2. CASE (Local /\ UNCHANGED pathVars) \/ Leave \/ PathFlushFails
  BY <1>2 DEF Leave, PathFlushFails, Quiet
<1>3. ASSUME NEW n \in Nics, FlushBegins(n) \/ FlushTakes(n) \/ FlushReturns(n)
      PROVE  Unseen
  BY <1>3 DEF FlushBegins, FlushTakes, FlushReturns, bufVars, Unseen
<1> QED
  BY <1>1, <1>2, <1>3 DEF PathNext, PathStep, Flush

(* A step of the composition is a step of the worker, or one that it does  *)
(* not see (a frame goes into a ring, or leaves an interface).             *)
LEMMA PathStepsWorker == FifoType /\ [PathNext]_allVars => [Next]_vars
<1> SUFFICES ASSUME FifoType, [PathNext]_allVars
             PROVE  [Next]_vars
  OBVIOUS
<1>1. CASE Quiet
  BY <1>1 DEF Quiet, Local, Next, WorkerStep
<1>2. CASE PathPollUser \/ PathRecv \/ PathDrop \/ PathSend
  BY <1>2 DEF PathPollUser, PathRecv, PathDrop, PathSend, Next, WorkerStep
<1>3. ASSUME NEW n \in Nics, PathTxDone(n)
      PROVE  [Next]_vars
  <2>1. TxDone(Head(flight[n]))
    BY <1>3 DEF PathTxDone
  <2>2. Head(flight[n]) \in Packets
    BY <1>3 DEF PathTxDone, FifoType
  <2> QED
    BY <2>1, <2>2 DEF Next, WorkerStep
<1>4. ASSUME NEW n \in Nics, PathTransmit(n)
      PROVE  UNCHANGED vars
  BY <1>4 DEF PathTransmit
<1>5. CASE PathOther
  BY <1>5 DEF PathOther, Next, Environment
<1>6. CASE Shutdown \/ Terminated
  BY <1>6 DEF Next, Environment
<1>7. CASE Unseen
  BY <1>7 DEF Unseen
<1> QED
  BY <1>1, <1>2, <1>3, <1>4, <1>5, <1>6, <1>7, PathCases

(* What the adapters have stays a list of packets: only process adds to    *)
(* it, and what it adds is the packet of a task.                           *)
LEMMA FifoTypeStep == TypeOK /\ FifoType /\ [PathNext]_allVars => FifoType'
<1> SUFFICES ASSUME TypeOK, FifoType, [PathNext]_allVars
             PROVE  FifoType'
  OBVIOUS
<1>1. ASSUME UNCHANGED <<fifo, flight>>
      PROVE  FifoType'
  BY <1>1 DEF FifoType
<1>2. CASE PathSend
  <2>1. PICK n \in Nics : Fifo!Send(n, Top.pkt)
    BY <1>2 DEF PathSend
  <2>2. Top.pkt \in Packets
    <3>1. queue \in Seq(Task) /\ queue # <<>>
      BY <1>2 DEF PathSend, ProcessIo, Processing, TypeOK
    <3>2. Len(queue) \in 1 .. Len(queue)
      BY <3>1
    <3>3. queue[Len(queue)] \in Task
      BY <3>1, <3>2
    <3> QED
      BY <3>3 DEF Top, Task
  <2>3. Append(fifo[n], Top.pkt) \in Seq(Packets)
    BY <2>2 DEF FifoType
  <2> QED
    BY <2>1, <2>3 DEF Fifo!Send, FifoType
<1>3. ASSUME NEW n \in Nics, PathTxDone(n)
      PROVE  FifoType'
  <2>1. Fifo!Release(n, 1) /\ flight[n] # <<>>
    BY <1>3 DEF PathTxDone
  <2>2. SubSeq(flight[n], 1 + 1, Len(flight[n])) \in Seq(Packets)
    BY DEF FifoType
  <2> QED
    BY <2>1, <2>2 DEF Fifo!Release, FifoType
<1>4. ASSUME NEW n \in Nics, PathTransmit(n)
      PROVE  FifoType'
  <2>1. Fifo!Transmit(n) /\ fifo[n] # <<>>
    BY <1>4 DEF PathTransmit, Fifo!Transmit
  <2>2. Tail(fifo[n]) \in Seq(Packets) /\ Append(flight[n], Head(fifo[n])) \in Seq(Packets)
    BY <2>1 DEF FifoType
  <2> QED
    BY <2>1, <2>2 DEF Fifo!Transmit, FifoType
<1>5. CASE Quiet \/ ((Shutdown \/ Terminated) /\ UNCHANGED pathVars)
  BY <1>1, <1>5 DEF Quiet, pathVars
<1>6. CASE PathPollUser \/ PathRecv \/ PathDrop
  BY <1>1, <1>6 DEF PathPollUser, PathRecv, PathDrop
<1>7. CASE PathOther
  BY <1>1, <1>7 DEF PathOther, pathVars
<1>8. CASE Unseen
  BY <1>1, <1>8 DEF Unseen
<1> QED
  BY <1>2, <1>3, <1>4, <1>5, <1>6, <1>7, <1>8, PathCases

(* The inductive invariant of the worker, together with the type of what   *)
(* the adapters have, is one of the composition.                           *)
THEOREM PathInvariance == PathSpec => []PathInv
<1>1. PathInit => PathInv
  BY InitIInv DEF PathInit, PathInv, FifoType, Fifo!Init
<1>2. PathInv /\ [PathNext]_allVars => PathInv'
  BY PathStepsWorker, FifoTypeStep, TypeStep, QueueStep, RefStep DEF PathInv, IInv
<1> QED
  BY <1>1, <1>2, PTL DEF PathSpec

(* The composition implements module Worker: the queues of the adapters    *)
(* and the buffers of the packets never make the worker do what it would   *)
(* not do without them, so every safety theorem about Spec holds of it.    *)
THEOREM PathImplementsWorker == PathSpec => Spec
<1>1. PathInit => Init
  BY DEF PathInit
<1>2. PathInv /\ [PathNext]_allVars => [Next]_vars
  BY PathStepsWorker DEF PathInv
<1> QED
  BY <1>1, <1>2, PathInvariance, PTL DEF PathSpec, Spec

(* The composition uses its adapters within what they promise: whatever    *)
(* the worker does in between, the packets that process hands to an        *)
(* adapter and those that come back through packet_free_callback are a     *)
(* behaviour of TxFifo, which module IoNode implements.                    *)
THEOREM PathUsesFifo == PathSpec => Fifo!Spec
<1>1. PathInit => Fifo!Init
  BY DEF PathInit
<1>2. PathInv /\ [PathNext]_allVars => [Fifo!Next]_(Fifo!vars)
  <2> SUFFICES ASSUME TypeOK, FifoType, [PathNext]_allVars
               PROVE  Fifo!Next \/ UNCHANGED Fifo!vars
    BY DEF PathInv, IInv
  <2>1. ASSUME UNCHANGED <<fifo, flight>>
        PROVE  UNCHANGED Fifo!vars
    BY <2>1 DEF Fifo!vars
  <2>2. CASE PathSend
    <3>1. Top.pkt \in Packets
      BY <2>2, TopType DEF PathSend, ProcessIo, Processing
    <3> QED
      BY <2>2, <3>1 DEF PathSend, Fifo!Next
  <2>3. ASSUME NEW n \in Nics, PathTxDone(n)
        PROVE  Fifo!Next
    <3>1. Fifo!Release(n, 1) /\ flight[n] # <<>>
      BY <2>3 DEF PathTxDone
    <3>2. 1 \in 1 .. Len(flight[n])
      BY <3>1 DEF FifoType
    <3> QED
      BY <3>1, <3>2 DEF Fifo!Next
  <2>4. ASSUME NEW n \in Nics, PathTransmit(n)
        PROVE  Fifo!Next
    BY <2>4 DEF PathTransmit, Fifo!Next
  <2>5. CASE Quiet \/ ((Shutdown \/ Terminated) /\ UNCHANGED pathVars)
    BY <2>1, <2>5 DEF Quiet, pathVars
  <2>6. CASE PathPollUser \/ PathRecv \/ PathDrop
    BY <2>1, <2>6 DEF PathPollUser, PathRecv, PathDrop
  <2>7. CASE PathOther
    BY <2>1, <2>7 DEF PathOther, pathVars
  <2>8. CASE Unseen
    BY <2>1, <2>8 DEF Unseen
  <2> QED
    BY <2>2, <2>3, <2>4, <2>5, <2>6, <2>7, <2>8, PathCases
<1> QED
  BY <1>1, <1>2, PathInvariance, PTL DEF PathSpec, Fifo!Spec

(* The buffers and the rings of the adapters: what is buffered is at the   *)
(* end of the list of an interface, a ring has no more frames than         *)
(* descriptors, and a full buffer is being flushed, by a worker that is in *)
(* the node.                                                               *)
TxInv ==
  /\ buffered \in [Nics -> Nat]
  /\ \A n \in Nics : buffered[n] <= Len(fifo[n]) /\ InRing(n) <= RingSize[n]
  /\ \A n \in Nics : buffered[n] < RxBurst \/ (buffered[n] = RxBurst /\ flushing = {n})
  /\ flushing # {} => pc \in {"flush", "send", "destroy", "failed"}

(* A burst takes no more than the ring has room for, and a frame that      *)
(* leaves stays in the ring until a burst gives it back.                   *)
LEMMA TxStep ==
  ASSUME PathInv, TxInv, [PathNext]_allVars
  PROVE  TxInv'
<1>0. /\ RxBurst \in Nat \ {0} /\ RingSize \in [Nics -> Nat \ {0}]
      /\ fifo \in [Nics -> Seq(Packets)] /\ flight \in [Nics -> Seq(Packets)]
      /\ buffered \in [Nics -> Nat]
  BY PoolAssumption, NicAssumption DEF PathInv, FifoType, TxInv
<1>1. ASSUME UNCHANGED <<fifo, flight, buffered, flushing>>,
             flushing # {} => pc' \in {"flush", "send", "destroy", "failed"}
      PROVE  TxInv'
  BY <1>1 DEF TxInv, InRing
<1>2. CASE Local /\ UNCHANGED pathVars
  <2>1. flushing = {}
    BY <1>2 DEF TxInv, Local, Enter, EnterFails, InitNode, InitFails, InitDone, LoopHead,
         PollUserExhausted, PollIo, PollDone, Forward, DrainDone, Polling, Processing
  <2> QED
    BY <1>1, <1>2, <2>1 DEF pathVars
<1>3. CASE PathPollUser \/ PathDrop
  <2>1. flushing = {}
    BY <1>3 DEF TxInv, PathPollUser, PathDrop, PollUser, Drop, Polling, Processing
  <2> QED
    BY <1>1, <1>3, <2>1 DEF PathPollUser, PathDrop
<1>4. CASE PathRecv \/ Leave
  <2>1. flushing = {} /\ UNCHANGED <<fifo, flight, buffered, flushing>>
    BY <1>4 DEF PathRecv, Leave, Flushed, txVars, pathVars
  <2> QED
    BY <1>1, <2>1
<1>5. CASE PathFlushFails
  BY <1>1, <1>5 DEF PathFlushFails, FlushFails, pathVars
<1>6. CASE PathSend
  <2>1. PICK n \in Nics :
          /\ Fifo!Send(n, Top.pkt)
          /\ buffered' = [buffered EXCEPT ![n] = @ + 1]
          /\ flushing' = IF buffered[n] + 1 = RxBurst THEN {n} ELSE {}
    BY <1>6 DEF PathSend
  <2>2. pc' = "send" /\ flushing = {}
    BY <1>6 DEF PathSend, ProcessIo, Processing, TxInv
  <2>3. flight' = flight /\ fifo' = [fifo EXCEPT ![n] = Append(@, Top.pkt)]
    BY <2>1 DEF Fifo!Send
  <2>4. ASSUME NEW m \in Nics PROVE buffered[m] < RxBurst
    BY <2>2 DEF TxInv
  <2>5. ASSUME NEW m \in Nics
        PROVE  /\ buffered'[m] <= Len(fifo'[m]) /\ InRing(m)' <= RingSize[m]
               /\ buffered'[m] < RxBurst \/ (buffered'[m] = RxBurst /\ flushing' = {m})
    <3>1. CASE m = n
      <4>1. buffered'[m] = buffered[m] + 1 /\ Len(fifo'[m]) = Len(fifo[m]) + 1 /\ flight'[m] = flight[m]
        <5>1. fifo'[m] = Append(fifo[m], Top.pkt)
          BY <1>0, <2>3, <3>1
        <5>2. fifo[m] \in Seq(Packets)
          BY <1>0
        <5>3. Len(Append(fifo[m], Top.pkt)) = Len(fifo[m]) + 1
          BY <5>2, AppendProperties, TopType, <1>6 DEF PathInv, IInv, PathSend, ProcessIo, Processing
        <5> QED
          BY <1>0, <2>1, <2>3, <3>1, <5>1, <5>3
      <4>2. buffered[m] <= Len(fifo[m]) /\ InRing(m) <= RingSize[m] /\ buffered[m] < RxBurst
            /\ Len(fifo[m]) \in Nat /\ Len(flight[m]) \in Nat /\ buffered[m] \in Nat
        BY <1>0, <2>4 DEF TxInv
      <4> QED
        BY <1>0, <2>1, <3>1, <4>1, <4>2 DEF InRing
    <3>2. CASE m # n
      <4>1. buffered'[m] = buffered[m] /\ fifo'[m] = fifo[m] /\ flight'[m] = flight[m]
        BY <1>0, <2>1, <2>3, <3>2
      <4> QED
        BY <2>4, <4>1 DEF TxInv, InRing
    <3> QED
      BY <3>1, <3>2
  <2>6. buffered' \in [Nics -> Nat]
    BY <1>0, <2>1
  <2> QED
    BY <2>2, <2>5, <2>6 DEF TxInv
<1>7. ASSUME NEW n \in Nics, FlushBegins(n)
      PROVE  TxInv'
  <2>1. flushing = {} /\ flushing' = {n} /\ UNCHANGED <<pc, fifo, flight, buffered>> /\ pc \in {"flush", "destroy"}
    BY <1>7 DEF FlushBegins, vars
  <2>2. \A m \in Nics : buffered[m] < RxBurst
    BY <2>1 DEF TxInv
  <2> QED
    BY <2>1, <2>2 DEF TxInv, InRing
<1>8. ASSUME NEW n \in Nics, FlushTakes(n)
      PROVE  TxInv'
  <2>1. /\ flushing = {n} /\ UNCHANGED <<pc, fifo, flight, flushing>> /\ buffered[n] > 0
        /\ InRing(n) < RingSize[n] /\ buffered' = [buffered EXCEPT ![n] = @ - 1]
    BY <1>8 DEF FlushTakes, vars
  <2>2. ASSUME NEW m \in Nics
        PROVE  /\ buffered'[m] \in Nat
               /\ buffered'[m] <= Len(fifo'[m]) /\ InRing(m)' <= RingSize[m]
               /\ buffered'[m] < RxBurst \/ (buffered'[m] = RxBurst /\ flushing' = {m})
    <3>1. /\ buffered[m] <= Len(fifo[m]) /\ InRing(m) <= RingSize[m]
          /\ buffered[m] < RxBurst \/ (buffered[m] = RxBurst /\ flushing = {m})
          /\ Len(fifo[m]) \in Nat /\ Len(flight[m]) \in Nat /\ buffered[m] \in Nat /\ RingSize[m] \in Nat
      BY <1>0 DEF TxInv
    <3>2. CASE m = n
      <4>1. buffered'[m] = buffered[m] - 1
        BY <1>0, <2>1, <3>2
      <4> QED
        BY <1>0, <2>1, <3>1, <3>2, <4>1 DEF InRing
    <3>3. CASE m # n
      <4>1. buffered'[m] = buffered[m]
        BY <1>0, <2>1, <3>3
      <4> QED
        BY <2>1, <3>1, <4>1 DEF InRing
    <3> QED
      BY <3>2, <3>3
  <2>3. buffered' \in [Nics -> Nat]
    BY <1>0, <2>1, <2>2
  <2> QED
    BY <2>1, <2>2, <2>3 DEF TxInv
<1>9. ASSUME NEW n \in Nics, FlushReturns(n)
      PROVE  TxInv'
  <2>1. flushing = {n} /\ flushing' = {} /\ UNCHANGED <<pc, fifo, flight, buffered>> /\ buffered[n] = 0
    BY <1>9 DEF FlushReturns, vars
  <2>2. ASSUME NEW m \in Nics PROVE buffered[m] < RxBurst
    <3>1. CASE m = n
      BY <1>0, <2>1, <3>1
    <3>2. CASE m # n
      BY <2>1, <3>2 DEF TxInv
    <3> QED
      BY <3>1, <3>2
  <2> QED
    BY <2>1, <2>2 DEF TxInv, InRing
<1>10. ASSUME NEW n \in Nics, PathTxDone(n)
       PROVE  TxInv'
  <2>1. /\ UNCHANGED <<pc, fifo, buffered, flushing>> /\ flight[n] # <<>>
        /\ flight' = [flight EXCEPT ![n] = SubSeq(@, 1 + 1, Len(@))]
    BY <1>10 DEF PathTxDone, TxDone, Fifo!Release, txVars
  <2>2. ASSUME NEW m \in Nics PROVE Len(flight'[m]) <= Len(flight[m]) /\ Len(flight'[m]) \in Nat
    <3>1. flight[m] \in Seq(Packets) /\ Len(flight[m]) \in Nat
      BY <1>0
    <3>2. CASE m = n
      <4>1. flight'[m] = SubSeq(flight[m], 2, Len(flight[m]))
        BY <1>0, <2>1, <3>2
      <4>2. Len(flight[m]) >= 1
        BY <2>1, <3>1, <3>2
      <4>3. Len(SubSeq(flight[m], 2, Len(flight[m]))) = Len(flight[m]) - 1
        BY <3>1, <4>2
      <4> QED
        BY <3>1, <4>1, <4>2, <4>3
    <3>3. CASE m # n
      BY <1>0, <2>1, <3>1, <3>3
    <3> QED
      BY <3>2, <3>3
  <2>3. ASSUME NEW m \in Nics PROVE InRing(m)' <= RingSize[m]
    <3>1. /\ InRing(m) <= RingSize[m] /\ RingSize[m] \in Nat /\ buffered[m] \in Nat
          /\ Len(fifo[m]) \in Nat /\ Len(flight[m]) \in Nat
      BY <1>0 DEF TxInv
    <3> QED
      BY <2>1, <2>2, <3>1 DEF InRing
  <2> QED
    BY <2>1, <2>3 DEF TxInv
<1>11. ASSUME NEW n \in Nics, PathTransmit(n)
       PROVE  TxInv'
  <2>1. /\ UNCHANGED <<pc, buffered, flushing>> /\ Len(fifo[n]) > buffered[n] /\ fifo[n] # <<>>
        /\ fifo' = [fifo EXCEPT ![n] = Tail(@)]
        /\ flight' = [flight EXCEPT ![n] = Append(@, Head(fifo[n]))]
    BY <1>11 DEF PathTransmit, Fifo!Transmit, txVars, vars
  <2>2. ASSUME NEW m \in Nics
        PROVE  buffered'[m] <= Len(fifo'[m]) /\ InRing(m)' <= RingSize[m]
    <3>1. /\ buffered[m] <= Len(fifo[m]) /\ InRing(m) <= RingSize[m] /\ buffered[m] \in Nat
          /\ Len(fifo[m]) \in Nat /\ Len(flight[m]) \in Nat /\ RingSize[m] \in Nat
          /\ fifo[m] \in Seq(Packets) /\ flight[m] \in Seq(Packets)
      BY <1>0 DEF TxInv
    <3>2. CASE m = n
      <4>1. fifo'[m] = Tail(fifo[m]) /\ flight'[m] = Append(flight[m], Head(fifo[m])) /\ fifo[m] # <<>>
        BY <1>0, <2>1, <3>2
      <4>2. Len(fifo'[m]) = Len(fifo[m]) - 1
        BY <3>1, <4>1
      <4>3. Len(flight'[m]) = Len(flight[m]) + 1
        BY <3>1, <4>1
      <4> QED
        BY <2>1, <3>1, <3>2, <4>2, <4>3 DEF InRing
    <3>3. CASE m # n
      <4>1. fifo'[m] = fifo[m] /\ flight'[m] = flight[m]
        BY <1>0, <2>1, <3>3
      <4> QED
        BY <2>1, <3>1, <4>1 DEF InRing
    <3> QED
      BY <3>2, <3>3
  <2> QED
    BY <2>1, <2>2 DEF TxInv
<1>12. CASE PathOther
  <2>1. UNCHANGED <<pc, fifo, flight, buffered, flushing>>
    BY <1>12 DEF PathOther, OtherAllocates, OtherFrees, pathVars, txVars
  <2> QED
    BY <1>1, <2>1 DEF TxInv
<1>13. CASE ((Shutdown \/ Terminated) /\ UNCHANGED pathVars) \/ UNCHANGED allVars
  <2>1. UNCHANGED <<pc, fifo, flight, buffered, flushing>>
    BY <1>13 DEF Shutdown, Terminated, pathVars, allVars, vars
  <2> QED
    BY <1>1, <2>1 DEF TxInv
<1> QED
  BY <1>2, <1>3, <1>4, <1>5, <1>6, <1>7, <1>8, <1>9, <1>10, <1>11, <1>12, <1>13
     DEF PathNext, PathStep, Flush

(* The flush keeps to the ring and to tx_bufs: no interface ever has more  *)
(* frames than descriptors, and send never writes behind tx_bufs, because  *)
(* a buffer that is full is flushed before the worker takes another task.  *)
THEOREM RingsBounded == PathSpec => []TxInv
<1>1. PathInit => TxInv
  BY PoolAssumption, NicAssumption DEF PathInit, TxInv, Fifo!Init, InRing
<1> QED
  BY <1>1, TxStep, PathInvariance, PTL DEF PathSpec

(* With its adapters and buffers, too, the worker counts references        *)
(* exactly, stays within task_queue and loses no packet when it stops.     *)
THEOREM PathSafe == PathSpec => [](RefcntExact /\ PooledClean /\ QueueBound /\ CleanStop)
BY PathImplementsWorker, RefcountsExact, PoolClean, QueueBounded, StopsClean, PTL

-----------------------------------------------------------------------------
(* The mbufs of received packets.                                          *)

(* The packets in use that carry an mbuf. *)
Loaded == {p \in mbufTy : ~ InPool(p)}

BufInv == mbufTy \subseteq Packets /\ MbufBalance

(* They can be counted. *)
LEMMA LoadedFinite ==
  ASSUME mbufTy \subseteq Packets
  PROVE  IsFiniteSet(Loaded) /\ Cardinality(Loaded) \in Nat
<1>1. Loaded \subseteq Packets
  BY DEF Loaded
<1> QED
  BY <1>1, PoolAssumption, FS_Subset, FS_CardinalityType

(* Only what is in use has a task or is held by an adapter. *)
LEMMA UsedNotPooled ==
  ASSUME IInv, NEW p \in Packets, (\E i \in 1 .. Len(queue) : queue[i].pkt = p) \/ held[p] > 0
  PROVE  ~ InPool(p) /\ pool[p] = 0 /\ foreign[p] = 0
<1>1. /\ pool[p] \in Nat /\ foreign[p] \in Nat /\ held[p] \in Nat
      /\ Cardinality(TasksOf(queue, p)) \in Nat
      /\ Holders(p) = Cardinality(TasksOf(queue, p)) + held[p]
  BY CountTypes DEF IInv
<1>2. (\E i \in 1 .. Len(queue) : queue[i].pkt = p) => Cardinality(TasksOf(queue, p)) # 0
  <2>1. IsFiniteSet(TasksOf(queue, p))
    BY TasksFinite DEF IInv, TypeOK
  <2>2. Cardinality(TasksOf(queue, p)) = 0 => TasksOf(queue, p) = {}
    BY <2>1, FS_EmptySet
  <2> QED
    BY <2>2 DEF TasksOf
<1>3. Holders(p) # 0
  BY <1>1, <1>2
<1>4. ~ InPool(p)
  BY <1>3 DEF IInv, PooledClean
<1> QED
  BY <1>1, <1>4 DEF InPool

(* A step that neither loads nor frees an mbuf. *)
LEMMA SameLoaded ==
  ASSUME BufInv, pc # "failed" \/ pc' = "failed", lent' = lent, mbufTy' \subseteq Packets,
         \A p \in Packets : (p \in mbufTy' /\ ~ InPool(p)') <=> (p \in mbufTy /\ ~ InPool(p))
  PROVE  BufInv'
<1>1. Loaded' = Loaded
  BY DEF Loaded, BufInv
<1> QED
  BY <1>1 DEF BufInv, MbufBalance, Loaded

(* What a poll takes from the pool: packets that were in it, once each,    *)
(* and that nobody has after that.                                         *)
LEMMA PollAllocates ==
  ASSUME IInv, PollUser \/ Recv
  PROVE  /\ Allocated \subseteq Packets
         /\ \A p \in Allocated : InPool(p) /\ ~ InPool(p)'
         /\ \A p \in Packets : p \notin Allocated => (InPool(p)' <=> InPool(p))
         /\ pc # "failed"
<1>1. PICK k \in Nat : \E ps \in Allocations(k) : Enqueue(toPoll[pos], ps)
  <2>1. CASE PollUser
    BY <2>1, PoolAssumption DEF PollUser
  <2>2. CASE Recv
    BY <2>2, PoolAssumption DEF Recv
  <2> QED
    BY <2>1, <2>2
<1>2. PICK ps \in Allocations(k) : Enqueue(toPoll[pos], ps)
  BY <1>1
<1>3. /\ Len(ps) = k
      /\ \A i \in 1 .. k : ps[i] \in Packets /\ pool[ps[i]] > 0
  BY AllocationsType
<1>4. foreign' = foreign /\ pc # "failed"
  BY DEF PollUser, Recv, Polling
<1>5. ASSUME NEW p \in Packets
      PROVE  /\ pool[p] \in Nat /\ foreign[p] \in Nat
             /\ \/ pool'[p] = pool[p] - 1 /\ pool[p] > 0
                \/ pool'[p] = pool[p]
  <2>1. pool[p] \in Nat /\ foreign[p] \in Nat
    BY CountTypes DEF IInv
  <2>2. pool'[p] = IF \E i \in 1 .. Len(ps) : ps[i] = p THEN pool[p] - 1 ELSE pool[p]
    BY <1>2 DEF Enqueue, Allocate
  <2> QED
    BY <1>3, <2>1, <2>2
<1>6. ASSUME NEW p \in Allocated
      PROVE  p \in Packets /\ InPool(p) /\ ~ InPool(p)'
  <2>1. p \in Packets /\ pool'[p] = pool[p] - 1 /\ pool[p] > 0
    BY <1>5 DEF Allocated
  <2>2. InPool(p)
    BY <1>5, <2>1 DEF InPool
  <2>3. pool[p] + foreign[p] = 1
    BY <2>1, <2>2 DEF IInv, PooledClean
  <2>4. pool'[p] + foreign'[p] = 0
    BY <1>4, <1>5, <2>1, <2>3
  <2> QED
    BY <2>1, <2>2, <2>4 DEF InPool
<1>7. ASSUME NEW p \in Packets, p \notin Allocated
      PROVE  InPool(p)' <=> InPool(p)
  <2>1. pool'[p] = pool[p]
    BY <1>5, <1>7 DEF Allocated
  <2> QED
    BY <1>4, <2>1 DEF InPool
<1> QED
  BY <1>4, <1>6, <1>7

(* A reference is given up: the mbuf goes with the last one. *)
LEMMA FreeLoaded ==
  ASSUME IInv, BufInv, NEW x \in Packets, ~ InPool(x), pool[x] = 0, foreign[x] = 0,
         Deallocate(x), FreeMbuf(x), UNCHANGED foreign, pc # "failed"
  PROVE  BufInv'
<1>1. pool \in [Packets -> Nat] /\ foreign \in [Packets -> Nat]
  BY DEF IInv, TypeOK
<1>2. mbufTy' = mbufTy /\ mbufTy \subseteq Packets
  BY DEF FreeMbuf, BufInv
<1>3. CASE refcnt[x] # 1
  <2>1. pool' = pool /\ lent' = lent
    BY <1>3 DEF Deallocate, FreeMbuf
  <2> QED
    BY <1>2, <2>1, SameLoaded DEF InPool
<1>4. CASE refcnt[x] = 1
  <2>1. pool' = [pool EXCEPT ![x] = @ + 1]
    BY <1>4 DEF Deallocate
  <2>2. InPool(x)'
    <3>1. pool'[x] = 1 /\ foreign'[x] = 0
      BY <1>1, <2>1
    <3> QED
      BY <3>1 DEF InPool
  <2>3. \A p \in Packets : p # x => (InPool(p)' <=> InPool(p))
    BY <1>1, <2>1 DEF InPool
  <2>4. Loaded' = Loaded \ {x}
    BY <1>2, <2>2, <2>3 DEF Loaded
  <2>5. x \in Loaded <=> x \in mbufTy
    BY DEF Loaded
  <2>6. Cardinality(Loaded') = IF x \in Loaded THEN Cardinality(Loaded) - 1 ELSE Cardinality(Loaded)
    BY <1>2, <2>4, LoadedFinite, FS_RemoveElement
  <2>7. lent = Cardinality(Loaded) /\ lent' = IF x \in mbufTy THEN lent - 1 ELSE lent
    BY <1>4 DEF BufInv, MbufBalance, Loaded, FreeMbuf
  <2>8. lent' = Cardinality(Loaded')
    BY <2>5, <2>6, <2>7
  <2> QED
    BY <1>2, <2>8 DEF BufInv, MbufBalance, Loaded
<1> QED
  BY <1>3, <1>4

(* The number of mbufs lent stays that of the packets that carry one. *)
LEMMA BufStep ==
  ASSUME PathInv, BufInv, [PathNext]_allVars
  PROVE  BufInv'
<1>0. mbufTy \subseteq Packets /\ IInv /\ TypeOK
  BY DEF BufInv, PathInv, IInv
<1>1. ASSUME UNCHANGED <<pool, foreign, mbufTy, lent>>, pc # "failed" \/ pc' = "failed"
      PROVE  BufInv'
  BY <1>0, <1>1, SameLoaded DEF InPool
<1>2. CASE Quiet
  <2>1. CASE RecvExhausted
    <3>1. pc' = "failed" /\ mbufTy' = mbufTy
      BY <1>2, <2>1 DEF Quiet, RecvExhausted, pathVars
    <3> QED
      BY <1>0, <3>1 DEF BufInv, MbufBalance
  <2>2. CASE ~ RecvExhausted
    <3>1. UNCHANGED <<pool, foreign>> /\ pc # "failed"
      BY <1>2, <2>2 DEF Quiet, Local, Enter, EnterFails, InitNode, InitFails, InitDone, LoopHead,
           PollUserExhausted, PollIo, RecvNop, PollDone, Forward, SendDone, FlushFails, DrainDone,
           Destroy, Polling, Processing
    <3> QED
      BY <1>1, <1>2, <3>1 DEF Quiet, pathVars
  <2> QED
    BY <2>1, <2>2
<1>3. CASE PathPollUser
  <2>1. mbufTy' = mbufTy \ Allocated /\ lent' = lent
    BY <1>3 DEF PathPollUser, FillUser
  <2>2. /\ \A p \in Allocated : InPool(p) /\ ~ InPool(p)'
        /\ \A p \in Packets : p \notin Allocated => (InPool(p)' <=> InPool(p))
        /\ pc # "failed"
    BY <1>0, <1>3, PollAllocates DEF PathPollUser
  <2> QED
    BY <1>0, <2>1, <2>2, SameLoaded
<1>4. CASE PathRecv
  <2>1. mbufTy' = mbufTy \cup Allocated /\ lent' = lent + Cardinality(Allocated)
    BY <1>4 DEF PathRecv, FillRecv
  <2>2. /\ Allocated \subseteq Packets
        /\ \A p \in Allocated : InPool(p) /\ ~ InPool(p)'
        /\ \A p \in Packets : p \notin Allocated => (InPool(p)' <=> InPool(p))
        /\ pc # "failed"
    BY <1>0, <1>4, PollAllocates DEF PathRecv
  <2>3. Loaded' = Loaded \cup Allocated /\ Loaded \cap Allocated = {}
    BY <1>0, <2>1, <2>2 DEF Loaded
  <2>4. IsFiniteSet(Allocated) /\ Cardinality(Allocated) \in Nat
    BY <2>2, PoolAssumption, FS_Subset, FS_CardinalityType
  <2>5. IsFiniteSet(Loaded) /\ Cardinality(Loaded) \in Nat /\ Cardinality(Loaded \cap Allocated) = 0
    BY <1>0, <2>3, LoadedFinite, FS_EmptySet
  <2>6. Cardinality(Loaded \cup Allocated)
          = Cardinality(Loaded) + Cardinality(Allocated) - Cardinality(Loaded \cap Allocated)
    BY <2>4, <2>5, FS_Union
  <2>7. lent = Cardinality(Loaded)
    BY <2>2 DEF BufInv, MbufBalance, Loaded
  <2>8. lent' = Cardinality(Loaded')
    BY <2>1, <2>3, <2>4, <2>5, <2>6, <2>7
  <2> QED
    BY <1>0, <2>1, <2>2, <2>8 DEF BufInv, MbufBalance, Loaded
<1>5. CASE PathDrop
  <2>1. Drop /\ FreeMbuf(Top.pkt) /\ pc # "failed" /\ queue # <<>> /\ Deallocate(Top.pkt) /\ foreign' = foreign
    BY <1>5 DEF PathDrop, Drop, Processing
  <2>2. Top \in Task /\ Top.pkt \in Packets /\ \E i \in 1 .. Len(queue) : queue[i].pkt = Top.pkt
    <3>1. queue \in Seq(Task) /\ Len(queue) \in 1 .. Len(queue)
      BY <1>0, <2>1 DEF TypeOK
    <3>2. queue[Len(queue)] \in Task
      BY <3>1
    <3> QED
      BY <3>1, <3>2 DEF Top, Task
  <2> QED
    BY <1>0, <2>1, <2>2, UsedNotPooled, FreeLoaded
<1>6. CASE PathSend
  BY <1>1, <1>6 DEF PathSend, ProcessIo, Processing, bufVars
<1>7. ASSUME NEW n \in Nics, PathTxDone(n)
      PROVE  BufInv'
  <2>1. PICK x \in Packets : x = Head(flight[n])
    BY <1>7 DEF PathTxDone, PathInv, FifoType
  <2>2. /\ FreeMbuf(x) /\ pc # "failed" /\ held[x] > 0 /\ Deallocate(x) /\ foreign' = foreign
    BY <1>7, <2>1 DEF PathTxDone, TxDone
  <2> QED
    BY <1>0, <2>2, UsedNotPooled, FreeLoaded
<1>8. ASSUME NEW n \in Nics, PathTransmit(n)
      PROVE  BufInv'
  BY <1>1, <1>8 DEF PathTransmit, vars, bufVars
<1>9. ASSUME NEW x \in Packets, OtherAllocates(x), UNCHANGED pathVars
      PROVE  BufInv'
  <2>1. /\ pool \in [Packets -> Nat] /\ foreign \in [Packets -> Nat] /\ pc' = pc
        /\ pool' = [pool EXCEPT ![x] = @ - 1] /\ foreign' = [foreign EXCEPT ![x] = @ + 1]
    BY <1>0, <1>9 DEF OtherAllocates, TypeOK
  <2>2. \A p \in Packets : pool'[p] + foreign'[p] = pool[p] + foreign[p]
    BY <2>1
  <2> QED
    BY <1>0, <1>9, <2>1, <2>2, SameLoaded DEF InPool, pathVars
<1>10. ASSUME NEW x \in Packets, OtherFrees(x), mbufTy' \in {mbufTy \cup {x}, mbufTy \ {x}}, lent' = lent
       PROVE  BufInv'
  <2>1. /\ pool \in [Packets -> Nat] /\ foreign \in [Packets -> Nat] /\ pc' = pc /\ foreign[x] > 0
        /\ pool' = [pool EXCEPT ![x] = @ + 1] /\ foreign' = [foreign EXCEPT ![x] = @ - 1]
    BY <1>0, <1>10 DEF OtherFrees, TypeOK
  <2>2. \A p \in Packets : pool'[p] + foreign'[p] = pool[p] + foreign[p]
    BY <2>1
  <2>3. InPool(x)
    BY <2>1 DEF InPool
  <2>4. \A p \in Packets : InPool(p)' <=> InPool(p)
    BY <2>2 DEF InPool
  <2> QED
    BY <1>0, <1>10, <2>1, <2>3, <2>4, SameLoaded
<1>11. CASE (Shutdown \/ Terminated) /\ UNCHANGED pathVars
  BY <1>1, <1>11 DEF Shutdown, Terminated, pathVars, vars
<1>12. CASE Unseen
  BY <1>1, <1>12 DEF Unseen, vars
<1> QED
  BY <1>2, <1>3, <1>4, <1>5, <1>6, <1>7, <1>8, <1>9, <1>10, <1>11, <1>12, PathCases
     DEF PathOther

(* MbufBalance, for every graph, pool and number of workers and            *)
(* interfaces: the mbufs that are lent are those under the packets in use, *)
(* one each.                                                               *)
THEOREM MbufsBalance == PathSpec => []MbufBalance
<1>1. PathInit => BufInv
  <2> SUFFICES ASSUME PathInit PROVE BufInv
    OBVIOUS
  <2>1. {p \in mbufTy : ~ InPool(p)} = {} /\ lent = 0 /\ mbufTy \subseteq Packets
    BY DEF PathInit
  <2> QED
    BY <2>1, FS_EmptySet DEF BufInv, MbufBalance
<1>2. BufInv => MbufBalance
  BY DEF BufInv
<1> QED
  BY <1>1, <1>2, BufStep, PathInvariance, PTL DEF PathSpec

-----------------------------------------------------------------------------
(* What the adapters hold.                                                 *)

(* The places of packet p, as pairs of an interface and a position. *)
LEMMA PlaceOf ==
  ASSUME NEW q, NEW p, NEW e
  PROVE  e \in Places(q, p) <=>
           \E n \in Nics : \E i \in 1 .. Len(q[n]) : q[n][i] = p /\ e = <<n, i>>
BY DEF Places

(* Position i of interface m is a place of p when p is there. *)
LEMMA PlaceAt ==
  ASSUME NEW q, NEW p, NEW m \in Nics, NEW i
  PROVE  <<m, i>> \in Places(q, p) <=> i \in 1 .. Len(q[m]) /\ q[m][i] = p
<1>1. ASSUME <<m, i>> \in Places(q, p)
      PROVE  i \in 1 .. Len(q[m]) /\ q[m][i] = p
  <2>1. PICK n \in Nics : \E j \in 1 .. Len(q[n]) : q[n][j] = p /\ <<m, i>> = <<n, j>>
    BY <1>1, PlaceOf
  <2>2. n = m
    BY <2>1
  <2> QED
    BY <2>1, <2>2
<1> QED
  BY <1>1, PlaceOf

(* A packet is put at the end of a list, or taken from the head of one. *)
Lists(q, q2, n) ==
  /\ q \in [Nics -> Seq(Packets)] /\ q2 \in [Nics -> Seq(Packets)] /\ n \in Nics
  /\ \A m \in Nics : m # n => q2[m] = q[m]

Puts(q, q2, n, x) == Lists(q, q2, n) /\ x \in Packets /\ q2[n] = Append(q[n], x)

Takes(q, q2, n, x) ==
  Lists(q, q2, n) /\ q[n] # <<>> /\ x = Head(q[n]) /\ q2[n] = Tail(q[n])

(* A packet at the end of a list has one place more. *)
LEMMA PlacesAppend ==
  ASSUME NEW q, NEW q2, NEW n, NEW x, NEW p, Puts(q, q2, n, x), IsFiniteSet(Places(q, p))
  PROVE  /\ IsFiniteSet(Places(q2, p))
         /\ Cardinality(Places(q2, p)) = Cardinality(Places(q, p)) + (IF x = p THEN 1 ELSE 0)
<1> USE DEF Puts, Lists
<1>1. PICK k : k = Len(q[n]) + 1
  OBVIOUS
<1>2. q[n] \in Seq(Packets) /\ k \in Nat \ {0} /\ Len(q[n]) = k - 1
  BY <1>1
<1>3. /\ Len(q2[n]) = k /\ q2[n][k] = x
      /\ \A i \in 1 .. k - 1 : q2[n][i] = q[n][i]
      /\ \A m \in Nics : m # n => q2[m] = q[m]
  BY <1>1, <1>2, AppendProperties
<1>4. ASSUME NEW m \in Nics, NEW i
      PROVE  (i \in 1 .. Len(q2[m]) /\ q2[m][i] = p)
               <=> ((i \in 1 .. Len(q[m]) /\ q[m][i] = p) \/ (m = n /\ i = k /\ x = p))
  <2>1. CASE m # n
    BY <1>3, <2>1
  <2>2. CASE m = n
    <3>1. i \in 1 .. k <=> i \in 1 .. k - 1 \/ i = k
      BY <1>2
    <3>2. k \notin 1 .. k - 1
      BY <1>2
    <3> QED
      BY <1>2, <1>3, <2>2, <3>1, <3>2
  <2> QED
    BY <2>1, <2>2
<1>5. ASSUME NEW e
      PROVE  e \in Places(q2, p) <=> e \in Places(q, p) \/ (x = p /\ e = <<n, k>>)
  <2>1. ASSUME NEW m \in Nics, NEW i, e = <<m, i>>
        PROVE  e \in Places(q2, p) <=> e \in Places(q, p) \/ (x = p /\ e = <<n, k>>)
    <3>1. e \in Places(q2, p) <=> i \in 1 .. Len(q2[m]) /\ q2[m][i] = p
      BY <2>1, PlaceAt
    <3>2. e \in Places(q, p) <=> i \in 1 .. Len(q[m]) /\ q[m][i] = p
      BY <2>1, PlaceAt
    <3>3. e = <<n, k>> <=> m = n /\ i = k
      BY <2>1
    <3> QED
      BY <1>4, <3>1, <3>2, <3>3
  <2>2. e \in Places(q2, p) \/ e \in Places(q, p) \/ e = <<n, k>>
          => \E m \in Nics : \E i : e = <<m, i>>
    BY PlaceOf
  <2> QED
    BY <2>1, <2>2
<1>6. CASE x # p
  <2>1. Places(q2, p) = Places(q, p)
    BY <1>5, <1>6
  <2> QED
    BY <1>6, <2>1, FS_CardinalityType
<1>7. CASE x = p
  <2>1. Places(q2, p) = Places(q, p) \cup {<<n, k>>}
    BY <1>5, <1>7
  <2>2. <<n, k>> \notin Places(q, p)
    BY <1>2, PlaceOf
  <2> QED
    BY <1>7, <2>1, <2>2, FS_AddElement
<1> QED
  BY <1>6, <1>7

(* The packet at the head of a list has one place less when it is taken    *)
(* away, and the others move up.                                           *)
LEMMA PlacesTail ==
  ASSUME NEW q, NEW q2, NEW n, NEW x, NEW p, Takes(q, q2, n, x), IsFiniteSet(Places(q, p))
  PROVE  /\ IsFiniteSet(Places(q2, p))
         /\ Cardinality(Places(q, p)) = Cardinality(Places(q2, p)) + (IF x = p THEN 1 ELSE 0)
<1> USE DEF Takes, Lists
<1>1. PICK k : k = Len(q[n])
  OBVIOUS
<1>2. q[n] \in Seq(Packets) /\ k \in Nat \ {0}
  BY <1>1
<1>3. /\ Len(q2[n]) = k - 1
      /\ \A i \in 1 .. k - 1 : q2[n][i] = q[n][i + 1]
      /\ \A m \in Nics : m # n => q2[m] = q[m]
  BY <1>1, <1>2, HeadTailProperties
<1>4. x = q[n][1]
  BY <1>2
<1> DEFINE S == Places(q2, p)
           T == Places(q, p) \ {<<n, 1>>}
           f == [e \in S |-> IF e[1] = n THEN <<n, e[2] + 1>> ELSE e]
<1>5. ASSUME NEW m \in Nics, NEW i
      PROVE  <<m, i>> \in S <=> i \in 1 .. Len(q2[m]) /\ q2[m][i] = p
  BY PlaceAt
<1>6. ASSUME NEW m \in Nics, NEW i
      PROVE  <<m, i>> \in T <=> i \in 1 .. Len(q[m]) /\ q[m][i] = p /\ ~ (m = n /\ i = 1)
  BY PlaceAt
<1>7. /\ \A e \in S : \E m \in Nics, i \in Nat : e = <<m, i>>
      /\ \A e \in T : \E m \in Nics, i \in Nat : e = <<m, i>>
  <2>1. \A m \in Nics : Len(q[m]) \in Nat /\ Len(q2[m]) \in Nat
    BY <1>2, <1>3
  <2> QED
    BY <2>1, PlaceOf
<1> HIDE DEF S, T
<1>8. ASSUME NEW i \in Nat
      PROVE  <<n, i>> \in S <=> <<n, i + 1>> \in T
  <2>1. i \in 1 .. k - 1 <=> i + 1 \in 1 .. k /\ i + 1 # 1
    BY <1>2
  <2>2. <<n, i>> \in S <=> i \in 1 .. k - 1 /\ q[n][i + 1] = p
    BY <1>3, <1>5
  <2>3. <<n, i + 1>> \in T <=> i + 1 \in 1 .. k /\ q[n][i + 1] = p /\ i + 1 # 1
    BY <1>1, <1>6
  <2> QED
    BY <2>1, <2>2, <2>3
<1>9. ASSUME NEW m \in Nics, NEW i \in Nat, m # n
      PROVE  <<m, i>> \in S <=> <<m, i>> \in T
  BY <1>3, <1>5, <1>6, <1>9
<1>10. ASSUME NEW m \in Nics, NEW i \in Nat, <<m, i>> \in S
       PROVE  f[<<m, i>>] = (IF m = n THEN <<n, i + 1>> ELSE <<m, i>>) /\ f[<<m, i>>] \in T
  BY <1>8, <1>9, <1>10
<1>11. f \in [S -> T]
  BY <1>7, <1>10
<1>12. ASSUME NEW a \in S, NEW b \in S, f[a] = f[b]
       PROVE  a = b
  <2>1. PICK m \in Nics, i \in Nat : a = <<m, i>>
    BY <1>7
  <2>2. PICK m2 \in Nics, i2 \in Nat : b = <<m2, i2>>
    BY <1>7
  <2> QED
    BY <1>10, <1>12, <2>1, <2>2
<1>13. ASSUME NEW t \in T
       PROVE  \E s \in S : f[s] = t
  <2>1. PICK m \in Nics, i \in Nat : t = <<m, i>>
    BY <1>7
  <2>2. CASE m # n
    BY <1>9, <1>10, <2>1, <2>2
  <2>3. CASE m = n
    <3>1. i \in 1 .. k /\ i # 1
      BY <1>1, <1>6, <2>1, <2>3
    <3>2. PICK j \in Nat : i = j + 1
      BY <1>2, <3>1
    <3> QED
      BY <1>8, <1>10, <2>1, <2>3, <3>2
  <2> QED
    BY <2>2, <2>3
<1> HIDE DEF f
<1>14. ExistsBijection(S, T)
  BY <1>11, <1>12, <1>13, Fun_IsBij DEF ExistsBijection
<1>15. IsFiniteSet(T) /\ Cardinality(T) \in Nat
       /\ Cardinality(T) = IF <<n, 1>> \in Places(q, p) THEN Cardinality(Places(q, p)) - 1
                           ELSE Cardinality(Places(q, p))
  BY FS_RemoveElement, FS_CardinalityType DEF T
<1>16. IsFiniteSet(S) /\ Cardinality(S) = Cardinality(T)
  <2>1. ExistsBijection(T, S)
    BY <1>14, Fun_ExistsBijSymmetric
  <2> QED
    BY <1>15, <2>1, FS_Bijection
<1>17. <<n, 1>> \in Places(q, p) <=> x = p
  <2>1. 1 \in 1 .. Len(q[n])
    BY <1>1, <1>2
  <2> QED
    BY <1>4, <2>1, PlaceOf
<1>18. Cardinality(Places(q, p)) \in Nat
  BY FS_CardinalityType
<1> QED
  BY <1>15, <1>16, <1>17, <1>18 DEF S

(* The references of the adapters are the places of their lists. *)
HeldInv ==
  \A p \in Packets :
    /\ IsFiniteSet(Places(fifo, p)) /\ IsFiniteSet(Places(flight, p))
    /\ held[p] = Cardinality(Places(fifo, p)) + Cardinality(Places(flight, p))

(* Every reference an adapter gets or gives back is a place of its lists. *)
LEMMA HeldStep ==
  ASSUME PathInv, HeldInv, [PathNext]_allVars
  PROVE  HeldInv'
<1>0. PICK q, q2, g, g2 : q = fifo /\ q2 = fifo' /\ g = flight /\ g2 = flight'
  OBVIOUS
<1>1. /\ IInv /\ TypeOK /\ held \in [Packets -> Nat]
      /\ q \in [Nics -> Seq(Packets)] /\ g \in [Nics -> Seq(Packets)]
      /\ q2 \in [Nics -> Seq(Packets)] /\ g2 \in [Nics -> Seq(Packets)]
  BY <1>0, FifoTypeStep DEF PathInv, IInv, TypeOK, FifoType
<1>2. ASSUME NEW p \in Packets
      PROVE  /\ IsFiniteSet(Places(q, p)) /\ IsFiniteSet(Places(g, p))
             /\ Cardinality(Places(q, p)) \in Nat /\ Cardinality(Places(g, p)) \in Nat
             /\ held[p] = Cardinality(Places(q, p)) + Cardinality(Places(g, p))
             /\ held[p] \in Nat
  BY <1>0, <1>1, FS_CardinalityType DEF HeldInv
<1>3. ASSUME \A p \in Packets : /\ IsFiniteSet(Places(q2, p)) /\ IsFiniteSet(Places(g2, p))
                                /\ held'[p] = Cardinality(Places(q2, p)) + Cardinality(Places(g2, p))
      PROVE  HeldInv'
  BY <1>0, <1>3 DEF HeldInv
<1>4. CASE PathSend
  <2>1. PICK n \in Nics : Fifo!Send(n, Top.pkt)
    BY <1>4 DEF PathSend
  <2>2. PICK x \in Packets : x = Top.pkt
    BY <1>1, <1>4, TopType DEF PathSend, ProcessIo, Processing
  <2>3. held' = [held EXCEPT ![x] = @ + 1] /\ g2 = g
        /\ q2[n] = Append(q[n], x) /\ \A m \in Nics : m # n => q2[m] = q[m]
    BY <1>0, <1>1, <1>4, <2>1, <2>2 DEF PathSend, ProcessIo, Fifo!Send
  <2>4. Puts(q, q2, n, x)
    BY <1>1, <2>3 DEF Puts, Lists
  <2>5. ASSUME NEW p \in Packets
        PROVE  /\ IsFiniteSet(Places(q2, p)) /\ IsFiniteSet(Places(g2, p))
               /\ held'[p] = Cardinality(Places(q2, p)) + Cardinality(Places(g2, p))
    <3>1. /\ IsFiniteSet(Places(q2, p))
          /\ Cardinality(Places(q2, p)) = Cardinality(Places(q, p)) + (IF x = p THEN 1 ELSE 0)
      BY <1>2, <2>4, PlacesAppend
    <3>2. held'[p] = held[p] + (IF x = p THEN 1 ELSE 0)
      BY <1>1, <2>3
    <3> QED
      BY <1>2, <2>3, <3>1, <3>2
  <2> QED
    BY <1>3, <2>5
<1>5. ASSUME NEW n \in Nics, PathTxDone(n)
      PROVE  HeldInv'
  <2>1. g[n] # <<>> /\ g[n] \in Seq(Packets)
    BY <1>0, <1>1, <1>5 DEF PathTxDone
  <2>2. PICK x \in Packets : x = Head(g[n])
    BY <2>1
  <2>3. g2[n] = Tail(g[n])
    <3>1. g2[n] = SubSeq(g[n], 1 + 1, Len(g[n]))
      BY <1>0, <1>1, <1>5 DEF PathTxDone, Fifo!Release
    <3>2. 1 + 1 = 2
      OBVIOUS
    <3> QED
      BY <2>1, <3>1, <3>2, TailIsSubSeq
  <2>4. held' = [held EXCEPT ![x] = @ - 1] /\ q2 = q
        /\ \A m \in Nics : m # n => g2[m] = g[m]
    BY <1>0, <1>1, <1>5, <2>2 DEF PathTxDone, TxDone, Fifo!Release
  <2>5. Takes(g, g2, n, x)
    BY <1>1, <2>1, <2>2, <2>3, <2>4 DEF Takes, Lists
  <2>6. ASSUME NEW p \in Packets
        PROVE  /\ IsFiniteSet(Places(q2, p)) /\ IsFiniteSet(Places(g2, p))
               /\ held'[p] = Cardinality(Places(q2, p)) + Cardinality(Places(g2, p))
    <3>1. /\ IsFiniteSet(Places(g2, p))
          /\ Cardinality(Places(g, p)) = Cardinality(Places(g2, p)) + (IF x = p THEN 1 ELSE 0)
      BY <1>2, <2>5, PlacesTail
    <3>2. held'[p] = held[p] - (IF x = p THEN 1 ELSE 0)
      BY <1>1, <2>4
    <3>3. Cardinality(Places(g2, p)) \in Nat
      BY <3>1, FS_CardinalityType
    <3> QED
      BY <1>2, <2>4, <3>1, <3>2, <3>3
  <2> QED
    BY <1>3, <2>6
<1>6. ASSUME NEW n \in Nics, PathTransmit(n)
      PROVE  HeldInv'
  <2>1. q[n] # <<>> /\ held' = held
        /\ q2[n] = Tail(q[n]) /\ (\A m \in Nics : m # n => q2[m] = q[m])
        /\ g2[n] = Append(g[n], Head(q[n])) /\ \A m \in Nics : m # n => g2[m] = g[m]
    BY <1>0, <1>1, <1>6 DEF PathTransmit, Fifo!Transmit, vars
  <2>2. PICK x \in Packets : x = Head(q[n]) /\ g2[n] = Append(g[n], x)
    BY <1>1, <2>1
  <2>3. Takes(q, q2, n, x) /\ Puts(g, g2, n, x)
    BY <1>1, <2>1, <2>2 DEF Takes, Puts, Lists
  <2>4. ASSUME NEW p \in Packets
        PROVE  /\ IsFiniteSet(Places(q2, p)) /\ IsFiniteSet(Places(g2, p))
               /\ held'[p] = Cardinality(Places(q2, p)) + Cardinality(Places(g2, p))
    <3>1. /\ IsFiniteSet(Places(q2, p))
          /\ Cardinality(Places(q, p)) = Cardinality(Places(q2, p)) + (IF x = p THEN 1 ELSE 0)
      BY <1>2, <2>3, PlacesTail
    <3>2. /\ IsFiniteSet(Places(g2, p))
          /\ Cardinality(Places(g2, p)) = Cardinality(Places(g, p)) + (IF x = p THEN 1 ELSE 0)
      BY <1>2, <2>3, PlacesAppend
    <3>3. Cardinality(Places(q2, p)) \in Nat
      BY <3>1, FS_CardinalityType
    <3> QED
      BY <1>2, <2>1, <3>1, <3>2, <3>3
  <2> QED
    BY <1>3, <2>4
<1>7. ASSUME UNCHANGED <<held, fifo, flight>>
      PROVE  HeldInv'
  BY <1>7 DEF HeldInv
<1>8. CASE Quiet
  <2>1. held' = held
    BY <1>8 DEF Quiet, Local, Enter, EnterFails, InitNode, InitFails, InitDone, LoopHead,
         PollUserExhausted, PollIo, RecvNop, RecvExhausted, PollDone, Forward, SendDone, FlushFails,
         DrainDone, Destroy
  <2> QED
    BY <1>7, <1>8, <2>1 DEF Quiet, pathVars
<1>9. CASE PathPollUser \/ PathRecv \/ PathDrop
  BY <1>7, <1>9 DEF PathPollUser, PathRecv, PathDrop, PollUser, Recv, Drop
<1>10. CASE PathOther
  BY <1>7, <1>10 DEF PathOther, OtherAllocates, OtherFrees, pathVars
<1>11. CASE (Shutdown \/ Terminated) /\ UNCHANGED pathVars
  BY <1>7, <1>11 DEF Shutdown, Terminated, pathVars, vars
<1>12. CASE Unseen
  BY <1>7, <1>12 DEF Unseen, vars
<1> QED
  BY <1>4, <1>5, <1>6, <1>8, <1>9, <1>10, <1>11, <1>12, PathCases

-----------------------------------------------------------------------------
(* What is received is not sent on.                                        *)

(* R has the nodes that what is received can come to, and no adapter. *)
ReceivesTo(R) ==
  /\ R \subseteq Nodes
  /\ \A n \in R : Kind[n] # "io"
  /\ \A n \in Nodes : Kind[n] = "io" \/ (n \in R /\ Forwards(n)) =>
       \A i \in 1 .. Len(Links[n]) : Links[n][i] \in R

(* The graph sends on nothing that it has received. *)
SendsNothingReceived == \E R \in SUBSET Nodes : ReceivesTo(R)

(* The worker is in a flush for an adapter, the tasks of packets that were *)
(* received are for nodes of R, and no adapter has such a packet.          *)
OwnInv(R) ==
  /\ pc = "flush" => Kind[toPoll[pos]] = "io"
  /\ \A i \in 1 .. Len(queue) : queue[i].pkt \in mbufTy => queue[i].node \in R
  /\ \A p \in Packets : held[p] > 0 => p \notin mbufTy

(* What a poll queues: tasks for the packets it has taken, at the node its *)
(* link leads to.                                                          *)
LEMMA PollQueues ==
  ASSUME IInv, PollUser \/ Recv, NEW i \in 1 .. Len(queue')
  PROVE  \/ i \in 1 .. Len(queue) /\ queue'[i] = queue[i]
         \/ /\ queue'[i].pkt \in Allocated
            /\ toPoll[pos] \in Nodes /\ Len(Links[toPoll[pos]]) = 1
            /\ queue'[i].node = Links[toPoll[pos]][1]
<1>1. PICK k \in 1 .. MaxBurst : \E ps \in Allocations(k) : Enqueue(toPoll[pos], ps)
  <2>1. CASE PollUser
    <3>1. UserBurst \in 1 .. MaxBurst
      BY MaxBurstType, PoolAssumption
    <3> QED
      BY <2>1, <3>1 DEF PollUser
  <2>2. CASE Recv
    <3>1. \A k \in 1 .. RxBurst : k \in 1 .. MaxBurst
      BY MaxBurstType, PoolAssumption
    <3> QED
      BY <2>2, <3>1 DEF Recv
  <2> QED
    BY <2>1, <2>2
<1>2. PICK ps \in Allocations(k) : Enqueue(toPoll[pos], ps)
  BY <1>1
<1>3. k \in Nat \ {0} /\ pos <= Len(toPoll)
  BY MaxBurstType DEF PollUser, Recv, Polling, IInv, QueueInv
<1>4. /\ ps \in Seq(Packets) /\ Len(ps) = k /\ Len(ps) \in Nat \ {0}
      /\ \A j \in 1 .. k : ps[j] \in Packets /\ pool[ps[j]] > 0
  BY <1>3, AllocationsType
<1>5. pos \in 1 .. Len(toPoll) /\ toPoll[pos] \in Nodes
  BY <1>3 DEF IInv, TypeOK
<1>6. Len(Links[toPoll[pos]]) = 1
  BY <1>5, LinkAssumption DEF IInv, QueueInv
<1>7. PICK t : t = PolledTasks(toPoll[pos], ps)
  OBVIOUS
<1>8. /\ t \in Seq(Task) /\ Len(t) = k
      /\ \A j \in 1 .. k : t[j] = [node |-> Links[toPoll[pos]][1], pkt |-> ps[j]]
  BY <1>4, <1>5, <1>6, <1>7, PolledTasksSingle
<1>9. queue' = queue \o t /\ queue \in Seq(Task)
  BY <1>2, <1>7 DEF Enqueue, IInv, TypeOK
<1>10. CASE i \in 1 .. Len(queue)
  BY <1>8, <1>9, <1>10
<1>11. CASE i \notin 1 .. Len(queue)
  <2>1. PICK j \in 1 .. k : queue'[i] = t[j]
    <3>1. Len(queue) \in Nat /\ i \in 1 .. Len(queue) + k
      BY <1>8, <1>9
    <3>2. i - Len(queue) \in 1 .. k /\ queue'[i] = t[i - Len(queue)]
      BY <1>8, <1>9, <1>11, <3>1
    <3> QED
      BY <3>2
  <2>2. queue'[i].pkt = ps[j] /\ queue'[i].node = Links[toPoll[pos]][1]
    BY <1>8, <2>1
  <2>3. ps[j] \in Allocated
    <3>1. ps[j] \in Packets /\ pool[ps[j]] \in Nat
      BY <1>4 DEF IInv, TypeOK
    <3>2. pool'[ps[j]] = pool[ps[j]] - 1
      BY <1>2, <1>4, <3>1 DEF Enqueue, Allocate
    <3> QED
      BY <3>1, <3>2 DEF Allocated
  <2> QED
    BY <1>5, <1>6, <2>2, <2>3
<1> QED
  BY <1>10, <1>11

(* What is received stays among the nodes of R, and out of the adapters. *)
LEMMA OwnStep ==
  ASSUME NEW R, ReceivesTo(R), PathInv, mbufTy \subseteq Packets, OwnInv(R), [PathNext]_allVars
  PROVE  OwnInv(R)'
<1>0. IInv /\ TypeOK /\ held \in [Packets -> Nat] /\ queue \in Seq(Task) /\ Len(queue) \in Nat
  BY DEF PathInv, IInv, TypeOK
<1>1. ASSUME UNCHANGED <<queue, held, mbufTy>>, pc' = "flush" => Kind[toPoll'[pos']] = "io"
      PROVE  OwnInv(R)'
  BY <1>1 DEF OwnInv
<1>2. ASSUME NEW p \in Packets, InPool(p)
      PROVE  held[p] = 0 /\ \A i \in 1 .. Len(queue) : queue[i].pkt # p
  <2>1. held[p] \in Nat
    BY <1>0
  <2> QED
    BY <1>0, <1>2, <2>1, UsedNotPooled
<1>3. CASE Quiet
  <2>1. CASE Forward
    <3>1. PICK n \in Nodes, p \in Packets : n = Top.node /\ p = Top.pkt
      BY <1>0, <2>1, TopType DEF Forward, Processing
    <3>2. PICK s : s = [i \in 1 .. Len(Links[n]) |-> [node |-> Links[n][i], pkt |-> p]]
      OBVIOUS
    <3>3. /\ queue # <<>> /\ Kind[n] \in {"forward", "filter"} /\ pc' = "drain"
          /\ queue' = Popped \o s /\ UNCHANGED <<held, mbufTy>>
      BY <1>3, <2>1, <3>1, <3>2 DEF Quiet, Forward, Processing, pathVars
    <3>4. /\ s \in Seq(Task) /\ Len(s) = Len(Links[n]) /\ Len(s) \in Nat
          /\ \A i \in 1 .. Len(s) : s[i].node = Links[n][i] /\ s[i].pkt = p
      BY <3>2, CopiesType
    <3>5. /\ Popped \in Seq(Task) /\ Len(Popped) = Len(queue) - 1 /\ Len(queue) \in 1 .. Len(queue)
          /\ \A i \in 1 .. Len(queue) - 1 : Popped[i] = queue[i]
          /\ Top = queue[Len(queue)]
      BY <1>0, <3>3, TopType
    <3>6. ASSUME NEW i \in 1 .. Len(queue'), queue'[i].pkt \in mbufTy
          PROVE  queue'[i].node \in R
      <4>1. CASE i \in 1 .. Len(queue) - 1
        <5>1. queue'[i] = queue[i] /\ i \in 1 .. Len(queue)
          BY <3>3, <3>4, <3>5, <4>1
        <5> QED
          BY <3>6, <5>1 DEF OwnInv
      <4>2. CASE i \notin 1 .. Len(queue) - 1
        <5>1. PICK j \in 1 .. Len(s) : queue'[i] = s[j]
          <6>1. i - Len(Popped) \in 1 .. Len(s) /\ queue'[i] = s[i - Len(Popped)]
            BY <3>3, <3>4, <3>5, <4>2
          <6> QED
            BY <6>1
        <5>2. p \in mbufTy /\ queue'[i].node = Links[n][j] /\ j \in 1 .. Len(Links[n])
          BY <3>4, <3>6, <5>1
        <5>3. n \in R
          BY <3>1, <3>5, <5>2 DEF OwnInv
        <5> QED
          BY <3>3, <5>2, <5>3 DEF ReceivesTo, Forwards
      <4> QED
        BY <4>1, <4>2
    <3> QED
      BY <3>3, <3>6 DEF OwnInv
  <2>2. CASE ~ Forward
    <3>1. UNCHANGED <<queue, held>>
      BY <1>3, <2>2 DEF Quiet, Local, Enter, EnterFails, InitNode, InitFails, InitDone, LoopHead,
         PollUserExhausted, PollIo, RecvNop, RecvExhausted, PollDone, SendDone, FlushFails,
         DrainDone, Destroy
    <3>2. pc' = "flush" => Kind[toPoll'[pos']] = "io"
      BY <1>3, <2>2 DEF Quiet, Local, Enter, EnterFails, InitNode, InitFails, InitDone, LoopHead,
         PollUserExhausted, PollIo, Polling, RecvNop, RecvExhausted, PollDone, SendDone, FlushFails,
         DrainDone, Destroy
    <3> QED
      BY <1>1, <1>3, <3>1, <3>2 DEF Quiet, pathVars
  <2> QED
    BY <2>1, <2>2
<1>4. CASE PathPollUser
  <2>1. PollUser /\ mbufTy' = mbufTy \ Allocated /\ held' = held /\ pc' = "poll"
    BY <1>4 DEF PathPollUser, FillUser, PollUser, Enqueue
  <2>2. ASSUME NEW i \in 1 .. Len(queue'), queue'[i].pkt \in mbufTy'
        PROVE  queue'[i].node \in R
    <3>1. queue'[i].pkt \notin Allocated
      BY <2>1, <2>2
    <3>2. i \in 1 .. Len(queue) /\ queue'[i] = queue[i]
      BY <1>0, <2>1, <3>1, PollQueues
    <3> QED
      BY <2>1, <2>2, <3>2 DEF OwnInv
  <2> QED
    BY <2>1, <2>2 DEF OwnInv
<1>5. CASE PathRecv
  <2>1. Recv /\ mbufTy' = mbufTy \cup Allocated /\ held' = held /\ pc' = "poll" /\ pc = "flush"
    BY <1>5 DEF PathRecv, FillRecv, Recv, Enqueue
  <2>2. \A p \in Allocated : p \in Packets /\ InPool(p)
    BY <1>0, <2>1, PollAllocates
  <2>3. ASSUME NEW i \in 1 .. Len(queue'), queue'[i].pkt \in mbufTy'
        PROVE  queue'[i].node \in R
    <3>1. CASE i \in 1 .. Len(queue) /\ queue'[i] = queue[i]
      <4>1. queue[i].pkt \notin Allocated
        BY <1>2, <2>2, <3>1
      <4> QED
        BY <2>1, <2>3, <3>1, <4>1 DEF OwnInv
    <3>2. CASE /\ toPoll[pos] \in Nodes /\ Len(Links[toPoll[pos]]) = 1
               /\ queue'[i].node = Links[toPoll[pos]][1]
      <4>1. Kind[toPoll[pos]] = "io"
        BY <2>1 DEF OwnInv
      <4>2. 1 \in 1 .. Len(Links[toPoll[pos]])
        BY <3>2
      <4> QED
        BY <3>2, <4>1, <4>2 DEF ReceivesTo
    <3> QED
      BY <1>0, <2>1, <3>1, <3>2, PollQueues
  <2>4. ASSUME NEW p \in Packets, held'[p] > 0
        PROVE  p \notin mbufTy'
    <3>1. held[p] > 0 /\ held[p] # 0
      BY <1>0, <2>1, <2>4
    <3>2. p \notin Allocated
      BY <1>2, <2>2, <3>1
    <3> QED
      BY <2>1, <3>1, <3>2 DEF OwnInv
  <2> QED
    BY <2>1, <2>3, <2>4 DEF OwnInv
<1>6. ASSUME queue # <<>>, queue' = Popped, mbufTy' = mbufTy
      PROVE  \A i \in 1 .. Len(queue') : queue'[i].pkt \in mbufTy' => queue'[i].node \in R
  <2>1. /\ Len(Popped) = Len(queue) - 1
        /\ \A i \in 1 .. Len(queue) - 1 : Popped[i] = queue[i]
    BY <1>0, <1>6, TopType
  <2>2. \A i \in 1 .. Len(queue) - 1 : i \in 1 .. Len(queue)
    BY <1>0
  <2> QED
    BY <1>6, <2>1, <2>2 DEF OwnInv
<1>7. CASE PathDrop
  <2>1. pc' = "drain" /\ held' = held /\ queue # <<>> /\ queue' = Popped /\ mbufTy' = mbufTy
    BY <1>7 DEF PathDrop, Drop, Processing, FreeMbuf
  <2> QED
    BY <1>6, <2>1 DEF OwnInv
<1>8. CASE PathSend
  <2>1. /\ pc' = "send" /\ queue # <<>> /\ queue' = Popped /\ mbufTy' = mbufTy
        /\ Kind[Top.node] = "io" /\ held' = [held EXCEPT ![Top.pkt] = @ + 1]
    BY <1>8 DEF PathSend, ProcessIo, Processing, bufVars
  <2>2. Top.node \in Nodes /\ Top.pkt \in Packets /\ Top = queue[Len(queue)] /\ Len(queue) \in 1 .. Len(queue)
    BY <1>0, <2>1, TopType
  <2>3. Top.pkt \notin mbufTy
    BY <2>1, <2>2 DEF OwnInv, ReceivesTo
  <2>4. ASSUME NEW p \in Packets, held'[p] > 0
        PROVE  p \notin mbufTy'
    <3>1. CASE p = Top.pkt
      BY <2>1, <2>3, <3>1
    <3>2. CASE p # Top.pkt
      BY <1>0, <2>1, <2>4, <3>2 DEF OwnInv
    <3> QED
      BY <3>1, <3>2
  <2> QED
    BY <1>6, <2>1, <2>4 DEF OwnInv
<1>9. ASSUME NEW n \in Nics, PathTxDone(n)
      PROVE  OwnInv(R)'
  <2>1. PICK x \in Packets : x = Head(flight[n])
    BY <1>9 DEF PathTxDone, PathInv, FifoType
  <2>2. /\ UNCHANGED <<pc, toPoll, pos, queue, mbufTy>> /\ held' = [held EXCEPT ![x] = @ - 1]
    BY <1>9, <2>1 DEF PathTxDone, TxDone, FreeMbuf
  <2>3. ASSUME NEW p \in Packets, held'[p] > 0
        PROVE  held[p] > 0
    BY <1>0, <2>2, <2>3
  <2> QED
    BY <2>2, <2>3 DEF OwnInv
<1>10. ASSUME NEW n \in Nics, PathTransmit(n)
       PROVE  OwnInv(R)'
  BY <1>10 DEF PathTransmit, vars, bufVars, OwnInv
<1>11. ASSUME NEW x \in Packets, OtherAllocates(x), UNCHANGED pathVars
       PROVE  OwnInv(R)'
  BY <1>11 DEF OtherAllocates, pathVars, OwnInv
<1>12. ASSUME NEW x \in Packets, OtherFrees(x), mbufTy' \in {mbufTy \cup {x}, mbufTy \ {x}}
       PROVE  OwnInv(R)'
  <2>1. InPool(x)
    <3>1. pool[x] \in Nat /\ foreign[x] \in Nat /\ foreign[x] > 0
      BY <1>0, <1>12 DEF OtherFrees, TypeOK
    <3> QED
      BY <3>1 DEF InPool
  <2>2. UNCHANGED <<pc, toPoll, pos, queue, held>> /\ \A p : p # x => (p \in mbufTy' <=> p \in mbufTy)
    BY <1>12 DEF OtherFrees
  <2>3. held[x] = 0 /\ \A i \in 1 .. Len(queue) : queue[i].pkt # x
    BY <1>2, <2>1
  <2>4. ~ (held[x] > 0)
    BY <2>3
  <2> QED
    BY <2>2, <2>3, <2>4 DEF OwnInv
<1>13. CASE (Shutdown \/ Terminated) /\ UNCHANGED pathVars
  BY <1>13 DEF Shutdown, Terminated, pathVars, vars, OwnInv
<1>14. CASE Unseen
  BY <1>14 DEF Unseen, vars, OwnInv
<1> QED
  BY <1>3, <1>4, <1>5, <1>7, <1>8, <1>9, <1>10, <1>11, <1>12, <1>13, <1>14, PathCases
     DEF PathOther

(* SendsOwnBuffer, for every graph that sends on nothing it has received:  *)
(* what an adapter has to send is in the slot of a packet in use, and the  *)
(* adapters have a reference for every place in their lists.               *)
THEOREM BuffersOwn == SendsNothingReceived => (PathSpec => []SendsOwnBuffer)
<1> SUFFICES ASSUME NEW R, ReceivesTo(R) PROVE PathSpec => []SendsOwnBuffer
  BY DEF SendsNothingReceived
<1>1. PathInit => BufInv /\ HeldInv /\ OwnInv(R)
  <2> SUFFICES ASSUME PathInit PROVE BufInv /\ HeldInv /\ OwnInv(R)
    OBVIOUS
  <2>1. {p \in mbufTy : ~ InPool(p)} = {} /\ lent = 0 /\ mbufTy \subseteq Packets
    BY DEF PathInit
  <2>2. ASSUME NEW p \in Packets PROVE Places(fifo, p) = {} /\ Places(flight, p) = {} /\ held[p] = 0
    <3>1. \A n \in Nics : Len(fifo[n]) = 0 /\ Len(flight[n]) = 0
      BY DEF PathInit, Fifo!Init
    <3> QED
      BY <3>1 DEF Places, PathInit, Init
  <2>3. HeldInv
    BY <2>2, FS_EmptySet DEF HeldInv
  <2>4. OwnInv(R)
    BY <2>2 DEF OwnInv, PathInit, Init
  <2> QED
    BY <2>1, <2>3, <2>4, FS_EmptySet DEF BufInv, MbufBalance
<1>2. PathInv /\ BufInv /\ HeldInv /\ OwnInv(R) /\ [PathNext]_allVars => BufInv' /\ HeldInv' /\ OwnInv(R)'
  BY BufStep, HeldStep, OwnStep DEF BufInv
<1>3. PathInv /\ HeldInv /\ OwnInv(R) => SendsOwnBuffer
  BY UsedNotPooled DEF PathInv, HeldInv, OwnInv, SendsOwnBuffer
<1> QED
  BY <1>1, <1>2, <1>3, PathInvariance, PTL DEF PathSpec
=============================================================================
