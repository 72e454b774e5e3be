--------------------------- MODULE StartupProofs ---------------------------
(***************************************************************************)
(* Proofs about module Startup, for any number of workers, lcores, graph   *)
(* entries and interfaces.  What Engine::run and Server::run promise each  *)
(* other, and what the workers promise each other through QUEUE_ID and     *)
(* INIT_ONCE, holds in every interleaving; that a port is ready and has    *)
(* queues for all holds for the stacks named by SamePort and SameEntry.    *)
(***************************************************************************)
EXTENDS Startup, FiniteSetTheorems, TLAPS

(* The interfaces of the stack are on one port. *)
SamePort == \A i, j \in Nics : Port[i] = Port[j]

(* The workers come from one graph entry. *)
SameEntry == \A v, w \in Workers : Entry[v] = Entry[w]

(* Where a worker has claimed its queue. *)
Past == {"once", "portInit", "wait", "ready", "running", "stopped"}

Claimed == {w \in Workers : pc[w] \in Past}

(* The server is up before main goes on, and main launches every worker    *)
(* once.                                                                   *)
ServerInv ==
  /\ main = "spawn" => server = "none"
  /\ serverUp <=> server \in {"up", "down"}
  /\ main \notin {"spawn", "spin"} => serverUp
  /\ \A w \in Workers : pc[w] # "none" => serverUp
  /\ \A w \in Workers : w > launched => pc[w] = "none"

(* The workers on the lcores are those that have started and not stopped;  *)
(* there is one on an lcore.                                               *)
LcoreInv ==
  /\ \A w \in Workers : w \in lcore <=> pc[w] \notin {"none", "stopped"}
  /\ \A v, w \in lcore : Cpu[v] = Cpu[w] => v = w
  /\ main = "done" => lcore = {}

(* QUEUE_ID counts the workers that have claimed a queue, each its own.    *)
QueueInv ==
  /\ queueId = Cardinality(Claimed)
  /\ \A w \in Claimed : queue[w] < queueId
  /\ \A v, w \in Claimed : v # w => queue[v] # queue[w]

(* INIT_ONCE lets one worker in, with its first interface, and nobody pass *)
(* before that one has set the port up.                                    *)
OnceInv ==
  /\ \A w \in Workers :
       /\ pc[w] \in {"none", "enter", "queue"} => nic[w] = 1
       /\ pc[w] \in {"once", "portInit", "wait", "ready"} => nic[w] <= Len(Port)
       /\ pc[w] = "portInit" => once = "running" /\ nic[w] = 1
       /\ pc[w] \in {"wait", "ready"} => once = "done"
       /\ pc[w] \in {"running", "stopped"} => once = "done" \/ Len(Port) = 0
       /\ nic[w] > 1 => once = "done"
  /\ \A v, w \in Workers : pc[v] = "portInit" /\ pc[w] = "portInit" => v = w

(* Then the port of the first interface has the queues of that worker.     *)
PortInv ==
  once = "done" => Len(Port) # 0 /\ \E w \in Workers : queues[Port[1]] = NumQueues(w)

IInv == TypeOK /\ ServerInv /\ LcoreInv /\ QueueInv /\ OnceInv /\ PortInv

-----------------------------------------------------------------------------
(* The workers are finitely many. *)
LEMMA WorkerSets ==
  /\ IsFiniteSet(Workers)
  /\ Cardinality(Workers) = NumWorkers
  /\ \A A \in SUBSET Workers : /\ IsFiniteSet(A)
                               /\ Cardinality(A) \in 0 .. NumWorkers
                               /\ \A w \in Workers \ A :
                                    /\ Cardinality(A \cup {w}) = Cardinality(A) + 1
                                    /\ Cardinality(A) < NumWorkers
<1>1. IsFiniteSet(Workers) /\ Cardinality(Workers) = NumWorkers /\ NumWorkers \in Nat
  BY FS_Interval, StartupAssumption DEF Workers
<1>2. ASSUME NEW A \in SUBSET Workers
      PROVE  IsFiniteSet(A) /\ Cardinality(A) \in Nat /\ Cardinality(A) <= NumWorkers
  BY <1>1, FS_Subset, FS_CardinalityType
<1>3. ASSUME NEW A \in SUBSET Workers, NEW w \in Workers \ A
      PROVE  Cardinality(A \cup {w}) = Cardinality(A) + 1 /\ Cardinality(A) < NumWorkers
  <2>1. Cardinality(A \cup {w}) = Cardinality(A) + 1
    BY <1>2, FS_AddElement
  <2>2. Cardinality(A \cup {w}) <= NumWorkers
    BY <1>2
  <2> QED
    BY <1>1, <1>2, <2>1, <2>2
<1> QED
  BY <1>1, <1>2, <1>3

(* A worker's graph entry has at least its own cpu, and all of them if the *)
(* stack has one entry.                                                    *)
LEMMA QueueNumbers ==
  ASSUME NEW w \in Workers
  PROVE  NumQueues(w) \in 1 .. NumWorkers /\ (SameEntry => NumQueues(w) = NumWorkers)
<1> DEFINE Peers == {v \in Workers : Entry[v] = Entry[w]}
<1>1. Peers \in SUBSET Workers /\ w \in Peers
  OBVIOUS
<1>2. Cardinality(Peers) \in 0 .. NumWorkers /\ IsFiniteSet(Peers)
  BY <1>1, WorkerSets
<1>3. Cardinality(Peers) # 0
  BY <1>1, <1>2, FS_EmptySet
<1>4. SameEntry => Peers = Workers
  BY DEF SameEntry
<1>5. SameEntry => Cardinality(Peers) = NumWorkers
  BY <1>4, WorkerSets
<1> QED
  BY <1>2, <1>3, <1>5, StartupAssumption DEF NumQueues

(* What a step of the start-up can be. *)
LEMMA StepCases ==
  ASSUME [Next]_vars
  PROVE  \/ SpawnServer \/ SpinDone \/ Launch \/ LaunchDone \/ Join \/ WaitLcores
         \/ Bind \/ BindFails \/ ServerReady \/ ServerDown
         \/ \E w \in Workers :
              \/ EnterOk(w) \/ EnterFails(w) \/ TakeQueue(w) \/ OnceFirst(w) \/ OnceLater(w)
              \/ PortInit(w) \/ PortInitFails(w) \/ WaitDone(w) \/ AdapterInit(w)
              \/ AdapterInitFails(w) \/ WorkerStops(w)
         \/ Shutdown
         \/ UNCHANGED vars
BY DEF Next, MainStep, ServerStep, WorkerStep, Over

(* Every step keeps the types: the counter of queues does not pass the     *)
(* number of workers, as each worker claims one.                           *)
LEMMA TypeStep ==
  ASSUME TypeOK, QueueInv, OnceInv, [Next]_vars
  PROVE  TypeOK'
<1> USE DEF mainVars, initVars, Step
<1>0. NumWorkers \in Nat /\ Len(Port) \in Nat /\ Workers = 1 .. NumWorkers
  BY StartupAssumption DEF Workers
<1>1. CASE SpawnServer \/ SpinDone \/ LaunchDone \/ Join \/ WaitLcores \/ Bind \/ BindFails
           \/ ServerReady \/ ServerDown \/ Shutdown
  <2>1. CASE SpawnServer \/ SpinDone \/ LaunchDone \/ Join \/ WaitLcores
    BY <2>1 DEF SpawnServer, SpinDone, LaunchDone, Join, WaitLcores, TypeOK
  <2>2. CASE Bind \/ BindFails \/ ServerDown
    BY <2>2 DEF Bind, BindFails, ServerDown, TypeOK
  <2>3. CASE ServerReady
    BY <2>3 DEF ServerReady, TypeOK
  <2>4. CASE Shutdown
    BY <2>4 DEF Shutdown, TypeOK
  <2> QED
    BY <1>1, <2>1, <2>2, <2>3, <2>4
<1>2. CASE Launch
  <2>1. launched + 1 \in Workers /\ launched' \in 0 .. NumWorkers
    BY <1>0, <1>2 DEF Launch, TypeOK
  <2>2. lcore' \subseteq Workers /\ pc' \in [Workers -> Labels]
    BY <1>2, <2>1 DEF Launch, TypeOK, Labels
  <2> QED
    BY <1>2, <2>1, <2>2 DEF Launch, TypeOK
<1>3. ASSUME NEW w \in Workers,
             EnterOk(w) \/ EnterFails(w) \/ PortInitFails(w) \/ WaitDone(w) \/ AdapterInitFails(w)
             \/ WorkerStops(w) \/ OnceFirst(w) \/ OnceLater(w)
      PROVE  TypeOK'
  <2>1. CASE EnterFails(w) \/ PortInitFails(w) \/ AdapterInitFails(w)
    <3>1. aborted' = TRUE
          /\ UNCHANGED <<main, launched, server, serverUp, lcore, pc, queue, nic,
                         queueId, once, initDone, queues, stop>>
      BY <2>1 DEF EnterFails, PortInitFails, AdapterInitFails
    <3> QED
      BY <3>1 DEF TypeOK
  <2>2. CASE EnterOk(w) \/ WaitDone(w) \/ OnceLater(w)
    BY <2>2 DEF EnterOk, WaitDone, OnceLater, TypeOK, Labels
  <2>3. CASE WorkerStops(w)
    BY <2>3 DEF WorkerStops, TypeOK, Labels
  <2>4. CASE OnceFirst(w)
    BY <2>4 DEF OnceFirst, TypeOK, Labels
  <2> QED
    BY <1>3, <2>1, <2>2, <2>3, <2>4
<1>4. ASSUME NEW w \in Workers, TakeQueue(w)
      PROVE  TypeOK'
  <2>1. Claimed \in SUBSET Workers /\ w \in Workers \ Claimed
    BY <1>4 DEF TakeQueue, Claimed, Past
  <2>2. queueId < NumWorkers
    BY <2>1, WorkerSets DEF QueueInv
  <2>3. queueId + 1 \in 0 .. NumWorkers
    BY <1>0, <2>2 DEF TypeOK
  <2>4. AdapterLoop(1) \in Labels
    BY DEF AdapterLoop, Labels
  <2>5. pc' \in [Workers -> Labels] /\ queue' \in [Workers -> 0 .. NumWorkers]
        /\ queueId' \in 0 .. NumWorkers
    BY <1>4, <2>3, <2>4 DEF TakeQueue, TypeOK
  <2> QED
    BY <1>4, <2>5 DEF TakeQueue, TypeOK
<1>5. ASSUME NEW w \in Workers, PortInit(w)
      PROVE  TypeOK'
  <2>1. NumQueues(w) \in 0 .. NumWorkers
    BY <1>0, QueueNumbers
  <2>2. queues' \in [Ports -> 0 .. NumWorkers]
    BY <1>5, <2>1 DEF PortInit, TypeOK
  <2> QED
    BY <1>5, <2>2 DEF PortInit, TypeOK, Labels
<1>6. ASSUME NEW w \in Workers, AdapterInit(w)
      PROVE  TypeOK'
  <2>1. nic[w] + 1 \in 1 .. Len(Port) + 1
    BY <1>0, <1>6 DEF AdapterInit, OnceInv, TypeOK
  <2>2. AdapterLoop(nic[w] + 1) \in Labels
    BY DEF AdapterLoop, Labels
  <2> QED
    BY <1>6, <2>1, <2>2 DEF AdapterInit, TypeOK
<1>7. CASE UNCHANGED vars
  BY <1>7 DEF vars, TypeOK
<1> QED
  BY <1>1, <1>2, <1>3, <1>4, <1>5, <1>6, <1>7, StepCases

(* Every step keeps what main and the server know of each other. *)
LEMMA ServerStepInv ==
  ASSUME TypeOK, ServerInv, [Next]_vars
  PROVE  ServerInv'
<1> USE DEF mainVars, initVars, Step
<1>0. pc \in [Workers -> Labels] /\ launched \in 0 .. NumWorkers /\ NumWorkers \in Nat
      /\ Workers = 1 .. NumWorkers /\ serverUp \in BOOLEAN
  BY StartupAssumption DEF TypeOK, Workers
<1>1. CASE SpawnServer \/ SpinDone \/ LaunchDone \/ Join \/ WaitLcores \/ Bind \/ BindFails
           \/ ServerReady \/ ServerDown \/ Shutdown
  BY <1>1 DEF SpawnServer, SpinDone, LaunchDone, Join, WaitLcores, Bind, BindFails, ServerReady,
              ServerDown, Shutdown, ServerInv
<1>2. CASE Launch
  BY <1>0, <1>2 DEF Launch, ServerInv
<1>3. ASSUME NEW w \in Workers, NEW l, pc[w] # "none", pc' = [pc EXCEPT ![w] = l] \/ pc' = pc,
             UNCHANGED <<main, launched, server, serverUp>>
      PROVE  ServerInv'
  BY <1>0, <1>3 DEF ServerInv
<1>4. ASSUME NEW w \in Workers,
              \/ EnterOk(w) \/ EnterFails(w) \/ TakeQueue(w) \/ OnceFirst(w) \/ OnceLater(w)
              \/ PortInit(w) \/ PortInitFails(w) \/ WaitDone(w) \/ AdapterInit(w)
              \/ AdapterInitFails(w) \/ WorkerStops(w)
      PROVE  ServerInv'
  <2>1. pc[w] # "none" /\ UNCHANGED <<main, launched, server, serverUp>>
        /\ ((\E l : pc' = [pc EXCEPT ![w] = l]) \/ pc' = pc)
    BY <1>4 DEF EnterOk, EnterFails, TakeQueue, OnceFirst, OnceLater, PortInit, PortInitFails,
                WaitDone, AdapterInit, AdapterInitFails, WorkerStops
  <2> QED
    BY <1>3, <2>1
<1>5. CASE UNCHANGED vars
  BY <1>5 DEF vars, ServerInv
<1> QED
  BY <1>1, <1>2, <1>4, <1>5, StepCases

(* Every step keeps the workers on their lcores, one on each. *)
LEMMA LcoreStep ==
  ASSUME TypeOK, ServerInv, LcoreInv, [Next]_vars
  PROVE  LcoreInv'
<1> USE DEF mainVars, initVars, Step
<1>0. pc \in [Workers -> Labels] /\ launched \in 0 .. NumWorkers /\ NumWorkers \in Nat
      /\ Workers = 1 .. NumWorkers /\ lcore \subseteq Workers
  BY StartupAssumption DEF TypeOK, Workers
<1>1. CASE SpawnServer \/ SpinDone \/ LaunchDone \/ Join \/ WaitLcores \/ Bind \/ BindFails
           \/ ServerReady \/ ServerDown \/ Shutdown
  BY <1>1 DEF SpawnServer, SpinDone, LaunchDone, Join, WaitLcores, Bind, BindFails, ServerReady,
              ServerDown, Shutdown, LcoreInv
<1>2. CASE Launch
  <2>1. PICK w \in Workers : w = launched + 1
    BY <1>0, <1>2 DEF Launch
  <2>2. pc[w] = "none" /\ main = "launch" /\ main' = main
    BY <1>0, <1>2, <2>1 DEF Launch, ServerInv
  <2>3. CASE lcore' = lcore /\ pc' = pc
    BY <2>2, <2>3 DEF LcoreInv
  <2>4. CASE /\ \A v \in lcore : Cpu[v] # Cpu[w]
             /\ lcore' = lcore \cup {w}
             /\ pc' = [pc EXCEPT ![w] = "enter"]
    BY <1>0, <2>2, <2>4 DEF LcoreInv
  <2> QED
    BY <1>2, <2>1, <2>3, <2>4 DEF Launch
<1>3. ASSUME NEW w \in Workers, NEW l \in Labels \ {"none", "stopped"},
             pc[w] \notin {"none", "stopped"}, pc' = [pc EXCEPT ![w] = l] \/ pc' = pc,
             UNCHANGED <<main, lcore>>
      PROVE  LcoreInv'
  BY <1>0, <1>3 DEF LcoreInv
<1>4. ASSUME NEW w \in Workers,
              \/ EnterOk(w) \/ EnterFails(w) \/ TakeQueue(w) \/ OnceFirst(w) \/ OnceLater(w)
              \/ PortInit(w) \/ PortInitFails(w) \/ WaitDone(w) \/ AdapterInit(w)
              \/ AdapterInitFails(w)
      PROVE  LcoreInv'
  <2>1. pc[w] \notin {"none", "stopped"} /\ UNCHANGED <<main, lcore>>
        /\ ((\E l \in Labels \ {"none", "stopped"} : pc' = [pc EXCEPT ![w] = l]) \/ pc' = pc)
    BY <1>4 DEF EnterOk, EnterFails, TakeQueue, OnceFirst, OnceLater, PortInit, PortInitFails,
                WaitDone, AdapterInit, AdapterInitFails, AdapterLoop, Labels
  <2>2. "once" \in Labels \ {"none", "stopped"}
    BY DEF Labels
  <2> QED
    BY <1>3, <2>1, <2>2
<1>5. ASSUME NEW w \in Workers, WorkerStops(w)
      PROVE  LcoreInv'
  BY <1>0, <1>5 DEF WorkerStops, LcoreInv
<1>6. CASE UNCHANGED vars
  BY <1>6 DEF vars, LcoreInv
<1> QED
  BY <1>1, <1>2, <1>4, <1>5, <1>6, StepCases

(* Every step keeps the queues apart: only QUEUE_ID.fetch_add gives one.   *)
LEMMA QueueStep ==
  ASSUME TypeOK, ServerInv, QueueInv, [Next]_vars
  PROVE  QueueInv'
<1> USE DEF mainVars, initVars, Step
<1>0. pc \in [Workers -> Labels] /\ launched \in 0 .. NumWorkers /\ NumWorkers \in Nat
      /\ Workers = 1 .. NumWorkers /\ queue \in [Workers -> 0 .. NumWorkers]
      /\ queueId \in 0 .. NumWorkers
  BY StartupAssumption DEF TypeOK, Workers
<1>1. ASSUME UNCHANGED <<queueId, queue>>,
             \A w \in Workers : pc[w] \in Past <=> pc'[w] \in Past
      PROVE  QueueInv'
  <2>1. Claimed' = Claimed
    BY <1>1 DEF Claimed
  <2> QED
    BY <1>1, <2>1 DEF QueueInv
<1>2. CASE Launch
  <2>1. launched + 1 \in Workers /\ pc[launched + 1] = "none"
    BY <1>0, <1>2 DEF Launch, ServerInv
  <2> QED
    BY <1>0, <1>1, <1>2, <2>1 DEF Launch, Past
<1>3. ASSUME NEW w \in Workers, TakeQueue(w)
      PROVE  QueueInv'
  <2>1. pc[w] = "queue" /\ pc' = [pc EXCEPT ![w] = AdapterLoop(1)]
        /\ queue' = [queue EXCEPT ![w] = queueId] /\ queueId' = queueId + 1
    BY <1>3 DEF TakeQueue
  <2>2. AdapterLoop(1) \in Past /\ "queue" \notin Past
    BY DEF AdapterLoop, Past
  <2>3. Claimed' = Claimed \cup {w} /\ w \notin Claimed /\ Claimed \in SUBSET Workers
    BY <1>0, <2>1, <2>2 DEF Claimed
  <2>4. Cardinality(Claimed') = Cardinality(Claimed) + 1
    BY <2>3, WorkerSets
  <2>5. \A v \in Claimed : queue'[v] = queue[v] /\ queue[v] < queueId
    BY <1>0, <2>1, <2>3 DEF QueueInv
  <2>6. queue'[w] = queueId
    BY <1>0, <2>1
  <2> QED
    BY <1>0, <2>1, <2>3, <2>4, <2>5, <2>6 DEF QueueInv
<1>4. CASE SpawnServer \/ SpinDone \/ LaunchDone \/ Join \/ WaitLcores \/ Bind \/ BindFails
           \/ ServerReady \/ ServerDown \/ Shutdown
  BY <1>1, <1>4 DEF SpawnServer, SpinDone, LaunchDone, Join, WaitLcores, Bind, BindFails, ServerReady,
              ServerDown, Shutdown
<1>5. ASSUME NEW w \in Workers,
              \/ EnterOk(w) \/ EnterFails(w) \/ OnceFirst(w) \/ OnceLater(w)
              \/ PortInit(w) \/ PortInitFails(w) \/ WaitDone(w) \/ AdapterInit(w)
              \/ AdapterInitFails(w) \/ WorkerStops(w)
      PROVE  QueueInv'
  <2>1. /\ UNCHANGED <<queueId, queue>>
        /\ \/ pc' = pc
           \/ \E l \in Labels : pc' = [pc EXCEPT ![w] = l] /\ (pc[w] \in Past <=> l \in Past)
    BY <1>5 DEF EnterOk, EnterFails, OnceFirst, OnceLater, PortInit, PortInitFails, AdapterLoop,
                WaitDone, AdapterInit, AdapterInitFails, WorkerStops, Past, Labels
  <2> QED
    BY <1>0, <1>1, <2>1
<1>6. CASE UNCHANGED vars
  BY <1>1, <1>6 DEF vars
<1> QED
  BY <1>2, <1>3, <1>4, <1>5, <1>6, StepCases

(* Every step keeps what INIT_ONCE promises. *)
LEMMA OnceStep ==
  ASSUME TypeOK, ServerInv, OnceInv, PortInv, [Next]_vars
  PROVE  OnceInv'
<1> USE DEF mainVars, initVars, Step
<1>0. /\ pc \in [Workers -> Labels] /\ launched \in 0 .. NumWorkers /\ NumWorkers \in Nat
      /\ Workers = 1 .. NumWorkers /\ nic \in [Workers -> 1 .. Len(Port) + 1]
      /\ queues \in [Ports -> 0 .. NumWorkers] /\ Len(Port) \in Nat
  BY StartupAssumption DEF TypeOK, Workers
<1>1. ASSUME UNCHANGED <<pc, nic, once, queues>>
      PROVE  OnceInv'
  BY <1>1 DEF OnceInv
<1>2. CASE Launch
  <2>1. PICK w \in Workers : w = launched + 1 /\ pc[w] = "none"
    BY <1>0, <1>2 DEF Launch, ServerInv
  <2>2. pc' = pc \/ pc' = [pc EXCEPT ![w] = "enter"]
    BY <1>2, <2>1 DEF Launch
  <2>3. UNCHANGED <<nic, once, queues>>
    BY <1>2 DEF Launch
  <2> QED
    BY <1>0, <1>1, <2>1, <2>2, <2>3 DEF OnceInv
<1>3. CASE SpawnServer \/ SpinDone \/ LaunchDone \/ Join \/ WaitLcores \/ Bind \/ BindFails
           \/ ServerReady \/ ServerDown \/ Shutdown
  BY <1>1, <1>3 DEF SpawnServer, SpinDone, LaunchDone, Join, WaitLcores, Bind, BindFails, ServerReady,
              ServerDown, Shutdown
<1>4. ASSUME NEW w \in Workers, EnterFails(w) \/ PortInitFails(w) \/ AdapterInitFails(w)
      PROVE  OnceInv'
  BY <1>1, <1>4 DEF EnterFails, PortInitFails, AdapterInitFails
<1>5. ASSUME NEW w \in Workers, EnterOk(w) \/ WaitDone(w) \/ WorkerStops(w) \/ OnceLater(w)
      PROVE  OnceInv'
  <2>1. UNCHANGED <<nic, once>>
    BY <1>5 DEF EnterOk, WaitDone, WorkerStops, OnceLater
  <2>2. CASE EnterOk(w)
    <3>1. pc[w] = "enter" /\ pc' = [pc EXCEPT ![w] = "queue"]
      BY <2>2 DEF EnterOk
    <3> QED
      BY <1>0, <2>1, <3>1 DEF OnceInv
  <2>3. CASE WaitDone(w)
    <3>1. pc[w] = "wait" /\ pc' = [pc EXCEPT ![w] = "ready"]
      BY <2>3 DEF WaitDone
    <3> QED
      BY <1>0, <2>1, <3>1 DEF OnceInv
  <2>4. CASE WorkerStops(w)
    <3>1. pc[w] = "running" /\ pc' = [pc EXCEPT ![w] = "stopped"]
      BY <2>4 DEF WorkerStops
    <3> QED
      BY <1>0, <2>1, <3>1 DEF OnceInv
  <2>5. CASE OnceLater(w)
    <3>1. pc[w] = "once" /\ once = "done" /\ pc' = [pc EXCEPT ![w] = "wait"]
      BY <2>5 DEF OnceLater
    <3> QED
      BY <1>0, <2>1, <3>1 DEF OnceInv
  <2> QED
    BY <1>5, <2>2, <2>3, <2>4, <2>5
<1>6. ASSUME NEW w \in Workers, TakeQueue(w)
      PROVE  OnceInv'
  <2>1. nic[w] = 1
    BY <1>6 DEF TakeQueue, OnceInv
  <2>2. once = "done" => Len(Port) >= 1
    BY <1>0 DEF PortInv
  <2>3. pc' = [pc EXCEPT ![w] = AdapterLoop(1)] /\ UNCHANGED <<nic, once, queues>>
    BY <1>6 DEF TakeQueue
  <2> QED
    BY <1>0, <1>6, <2>1, <2>2, <2>3 DEF AdapterLoop, OnceInv
<1>7. ASSUME NEW w \in Workers, OnceFirst(w)
      PROVE  OnceInv'
  <2>1. pc[w] = "once" /\ once = "new" /\ once' = "running" /\ nic[w] <= Len(Port)
        /\ pc' = [pc EXCEPT ![w] = "portInit"] /\ UNCHANGED <<nic, queues>>
    BY <1>7 DEF OnceFirst, OnceInv
  <2>2. \A v \in Workers : nic[v] = 1 /\ pc[v] \notin {"portInit", "wait", "ready"}
    BY <1>0, <2>1 DEF OnceInv
  <2>3. \A v \in Workers : pc[v] \in {"running", "stopped"} => Len(Port) = 0
    BY <2>1 DEF OnceInv
  <2>4. \A v \in Workers : pc[v] \notin {"running", "stopped"}
    BY <1>0, <2>1, <2>2, <2>3
  <2> QED
    BY <1>0, <2>1, <2>2, <2>4 DEF OnceInv
<1>8. ASSUME NEW w \in Workers, PortInit(w)
      PROVE  OnceInv'
  <2>1. pc[w] = "portInit" /\ once' = "done" /\ nic[w] = 1 /\ nic[w] <= Len(Port)
        /\ pc' = [pc EXCEPT ![w] = "wait"] /\ UNCHANGED nic
    BY <1>8 DEF PortInit, OnceInv
  <2>2. \A v \in Workers : v # w => pc[v] # "portInit"
    BY <2>1 DEF OnceInv
  <2> QED
    BY <1>0, <2>1, <2>2 DEF OnceInv
<1>9. ASSUME NEW w \in Workers, AdapterInit(w)
      PROVE  OnceInv'
  <2>1. pc[w] = "ready" /\ once = "done" /\ UNCHANGED <<once, queues>>
        /\ pc' = [pc EXCEPT ![w] = AdapterLoop(nic[w] + 1)] /\ nic' = [nic EXCEPT ![w] = nic[w] + 1]
    BY <1>9 DEF AdapterInit, OnceInv
  <2> QED
    BY <1>0, <2>1 DEF AdapterLoop, OnceInv
<1>10. CASE UNCHANGED vars
  BY <1>1, <1>10 DEF vars
<1> QED
  BY <1>2, <1>3, <1>4, <1>5, <1>6, <1>7, <1>8, <1>9, <1>10, StepCases

(* Every step keeps the port that is set up. *)
LEMMA PortStep ==
  ASSUME TypeOK, OnceInv, PortInv, [Next]_vars
  PROVE  PortInv'
<1> USE DEF mainVars, initVars, Step
<1>0. queues \in [Ports -> 0 .. NumWorkers] /\ Len(Port) \in Nat
  BY StartupAssumption DEF TypeOK
<1>1. ASSUME UNCHANGED queues, once' = once \/ once' # "done"
      PROVE  PortInv'
  BY <1>1 DEF PortInv, NumQueues
<1>2. ASSUME NEW w \in Workers, PortInit(w)
      PROVE  PortInv'
  <2>1. nic[w] = 1 /\ nic[w] <= Len(Port) /\ queues' = [queues EXCEPT ![Port[nic[w]]] = NumQueues(w)]
    BY <1>2 DEF PortInit, OnceInv
  <2>2. Port[1] \in Ports /\ Len(Port) # 0
    BY <1>0, <2>1 DEF Ports, Nics
  <2>3. queues'[Port[1]] = NumQueues(w)
    BY <1>0, <2>1, <2>2
  <2> QED
    BY <2>2, <2>3 DEF PortInv, NumQueues
<1>3. ASSUME NEW w \in Workers,
             EnterOk(w) \/ EnterFails(w) \/ TakeQueue(w) \/ OnceFirst(w) \/ OnceLater(w)
             \/ PortInitFails(w) \/ WaitDone(w) \/ AdapterInit(w) \/ AdapterInitFails(w)
             \/ WorkerStops(w)
      PROVE  PortInv'
  BY <1>1, <1>3 DEF EnterOk, EnterFails, TakeQueue, OnceFirst, OnceLater, PortInitFails, WaitDone,
                    AdapterInit, AdapterInitFails, WorkerStops
<1>4. CASE SpawnServer \/ SpinDone \/ Launch \/ LaunchDone \/ Join \/ WaitLcores \/ Bind
           \/ BindFails \/ ServerReady \/ ServerDown \/ Shutdown \/ UNCHANGED vars
  BY <1>1, <1>4 DEF SpawnServer, SpinDone, Launch, LaunchDone, Join, WaitLcores, Bind, BindFails,
                    ServerReady, ServerDown, Shutdown, vars
<1> QED
  BY <1>2, <1>3, <1>4, StepCases

-----------------------------------------------------------------------------
(* Nothing has started. *)
LEMMA InitIInv == Init => IInv
<1> SUFFICES ASSUME Init
             PROVE  IInv
  OBVIOUS
<1>1. TypeOK
  <2>1. Len(Port) \in Nat /\ NumWorkers \in Nat
    BY StartupAssumption
  <2>2. nic \in [Workers -> 1 .. Len(Port) + 1] /\ queue \in [Workers -> 0 .. NumWorkers]
        /\ queues \in [Ports -> 0 .. NumWorkers] /\ launched \in 0 .. NumWorkers
        /\ queueId \in 0 .. NumWorkers
    BY <2>1 DEF Init
  <2> QED
    BY <2>2 DEF Init, TypeOK, Labels
<1>2. ServerInv /\ LcoreInv /\ OnceInv /\ PortInv
  BY StartupAssumption DEF Init, ServerInv, LcoreInv, OnceInv, PortInv
<1>3. Claimed = {}
  BY DEF Init, Claimed, Past
<1>4. QueueInv
  BY <1>3, FS_EmptySet DEF Init, QueueInv
<1> QED
  BY <1>1, <1>2, <1>4 DEF IInv

(* The invariant holds from the start of the process to its end. *)
THEOREM Invariance == Spec => []IInv
<1>1. IInv /\ [Next]_vars => IInv'
  BY TypeStep, ServerStepInv, LcoreStep, QueueStep, OnceStep, PortStep DEF IInv
<1> QED
  BY InitIInv, <1>1, PTL DEF Spec

(* QUEUE_ID stays below the number of workers, and the loop over the       *)
(* interfaces within them.                                                 *)
THEOREM TypeCorrect == Spec => []TypeOK
BY Invariance, PTL DEF IInv

(* A worker's first request finds the server listening: SERVER_UP_FLAG is  *)
(* set after bind and Engine::run waits for it.                            *)
THEOREM ServerIsFirst == Spec => []ServerFirst
<1>1. IInv => ServerFirst
  BY DEF IInv, ServerInv, ServerFirst
<1> QED
  BY <1>1, Invariance, PTL

(* Dpdk::init passes its wait only with the port initialised, in a stack   *)
(* with one port.  With two it does not (PortReady is violated): INIT_ONCE *)
(* and INIT_DONE_FLAG are shared by all ports.                             *)
THEOREM PortIsReady == Spec => [](SamePort => PortReady)
<1>1. IInv => (SamePort => PortReady)
  <2> SUFFICES ASSUME IInv, SamePort, NEW w \in Workers, pc[w] = "ready"
               PROVE  queues[Port[nic[w]]] # 0
    BY DEF PortReady
  <2>1. once = "done" /\ nic[w] \in Nics /\ Len(Port) \in Nat
    BY StartupAssumption DEF IInv, TypeOK, OnceInv, Nics
  <2>2. PICK v \in Workers : queues[Port[1]] = NumQueues(v)
    BY <2>1 DEF IInv, PortInv
  <2>3. 1 \in Nics
    BY <2>1 DEF Nics
  <2>4. Port[nic[w]] = Port[1]
    BY <2>1, <2>3 DEF SamePort
  <2>5. NumQueues(v) # 0
    BY QueueNumbers, StartupAssumption
  <2> QED
    BY <2>2, <2>4, <2>5
<1> QED
  BY <1>1, Invariance, PTL

(* Two workers never poll the same queue, whatever the stack: QUEUE_ID is  *)
(* advanced atomically.                                                    *)
THEOREM QueuesApart ==
  Spec => [](\A v, w \in Workers :
               v # w /\ pc[v] = "running" /\ pc[w] = "running" => queue[v] # queue[w])
<1>1. IInv => (\A v, w \in Workers :
                 v # w /\ pc[v] = "running" /\ pc[w] = "running" => queue[v] # queue[w])
  BY DEF IInv, QueueInv, Claimed, Past
<1> QED
  BY <1>1, Invariance, PTL

(* Every worker polls a queue of its own that port_init has configured, in *)
(* a stack with one port and one graph entry: num_queues is the number of  *)
(* cpus of the worker's own entry, while QUEUE_ID counts all workers.      *)
THEOREM QueuesConfigured == Spec => [](SamePort /\ SameEntry => OwnQueue)
<1>1. IInv => (SamePort /\ SameEntry => OwnQueue)
  <2> SUFFICES ASSUME IInv, SamePort, SameEntry, NEW w \in Workers, pc[w] = "running"
               PROVE  /\ \A i \in Nics : queue[w] < queues[Port[i]]
                      /\ \A v \in Workers \ {w} : pc[v] = "running" => queue[v] # queue[w]
    BY DEF OwnQueue
  <2>1. w \in Claimed /\ \A v \in Workers : pc[v] = "running" => v \in Claimed
    BY DEF Claimed, Past
  <2>2. \A v \in Workers \ {w} : pc[v] = "running" => queue[v] # queue[w]
    BY <2>1 DEF IInv, QueueInv
  <2>3. ASSUME NEW i \in Nics
        PROVE  queue[w] < queues[Port[i]]
    <3>1. Len(Port) \in Nat /\ Len(Port) # 0 /\ 1 \in Nics
      BY StartupAssumption DEF Nics
    <3>2. PICK v \in Workers : queues[Port[1]] = NumQueues(v)
      BY <3>1 DEF IInv, OnceInv, PortInv
    <3>3. queues[Port[i]] = NumWorkers
      BY <3>1, <3>2, QueueNumbers DEF SamePort
    <3>4. queue[w] < queueId /\ queueId \in 0 .. NumWorkers /\ queue[w] \in 0 .. NumWorkers
      BY <2>1 DEF IInv, QueueInv, TypeOK
    <3> QED
      BY <3>3, <3>4, StartupAssumption
  <2> QED
    BY <2>2, <2>3
<1> QED
  BY <1>1, Invariance, PTL

(* An lcore runs one worker at most, and Engine::run does not return       *)
(* before every worker it launched has left its loop.                      *)
THEOREM ReturnsLast ==
  Spec => [](/\ \A v, w \in lcore : Cpu[v] = Cpu[w] => v = w
             /\ main = "done" => \A w \in Workers : pc[w] \in {"none", "stopped"})
<1>1. IInv => /\ \A v, w \in lcore : Cpu[v] = Cpu[w] => v = w
              /\ main = "done" => \A w \in Workers : pc[w] \in {"none", "stopped"}
  BY DEF IInv, LcoreInv
<1> QED
  BY <1>1, Invariance, PTL
=============================================================================
