-------------------------- MODULE MemoryPoolProofs --------------------------
(***************************************************************************)
(* Proofs about module MemoryPool, for any number of threads, ids and      *)
(* slots.  The caches are not locked: that no slot is ever in two places   *)
(* rests on who has which id, on the lock around the creation of the pool, *)
(* and on the id that a packet carries while an adapter has it.            *)
(***************************************************************************)
EXTENDS MemoryPool, FiniteSetTheorems, TLAPS

(* Where a thread has an id. *)
Entered == {"lock", "lookup", "reserve", "create", "cache", "run", "panic"}

(* No two threads have the same id, and the table knows them all. *)
IdsInv ==
  /\ \A t \in Threads : ids[t] \subseteq used
  /\ \A t, u \in Threads : t # u => ids[t] \cap ids[u] = {}
  /\ \A t \in Threads : pc[t] \in {"out", "gone"} => ids[t] = {}
  /\ \A t \in Threads : pc[t] \in Entered => \E i \in Ids : ids[t] = {i}

(* GUARD is held by the one thread that is between Lock and the return,    *)
(* and the zone is what this thread thinks it is.  A zone without a pool   *)
(* is left behind only by a thread that is about to end the process.       *)
GuardInv ==
  /\ \A t \in Threads :
       /\ pc[t] \in {"lookup", "reserve", "create"} => guard = t
       /\ pc[t] = "reserve" => zone = "none"
       /\ pc[t] = "create" => zone = "reserved"
       /\ pc[t] \in {"run", "gone"} => zone = "ready"
       /\ pc[t] = "dead" => \A u \in Threads : pc[u] = "dead"
       /\ pc[t] = "cache" => zone = "ready" \/ \E u \in Threads : pc[u] = "panic"
       /\ pc[t] = "cache" => zone # "none"
  /\ zone = "reserved" => \E t \in Threads : pc[t] \in {"create", "panic", "dead"}

(* A thread has packets only after it entered; one that an adapter has     *)
(* names the id of the thread that sent it.                                *)
OwnInv ==
  \A t \in Threads :
    /\ pc[t] \in {"out", "lock", "lookup", "reserve", "create", "cache"} =>
         use[t] = {} /\ sent[t] = {}
    /\ pc[t] = "run" => \A x \in sent[t] : ids[t] = {x[2]}

(* The slots in the ring, in the caches, with the threads, with the        *)
(* adapters and lost are apart, two by two.                                *)
Apart ==
  /\ common \cap lost = {}
  /\ \A i \in Ids : cache[i] \cap common = {} /\ cache[i] \cap lost = {}
  /\ \A i, j \in Ids : i # j => cache[i] \cap cache[j] = {}
  /\ \A t \in Threads : use[t] \cap common = {} /\ use[t] \cap lost = {}
  /\ \A t \in Threads, i \in Ids : use[t] \cap cache[i] = {}
  /\ \A t, u \in Threads : t # u => use[t] \cap use[u] = {}
  /\ \A t \in Threads : \A x \in sent[t] :
       /\ x[1] \notin common /\ x[1] \notin lost
       /\ \A i \in Ids : x[1] \notin cache[i]
       /\ \A u \in Threads : x[1] \notin use[u]
  /\ \A t, u \in Threads : \A x \in sent[t], y \in sent[u] : x[1] = y[1] => t = u /\ x = y

(* Slot s is somewhere. *)
Somewhere(s) ==
  \/ s \in common
  \/ s \in lost
  \/ \E i \in Ids : s \in cache[i]
  \/ \E t \in Threads : s \in use[t]
  \/ \E t \in Threads, i \in Ids : <<s, i>> \in sent[t]

(* Before the pool is created there is no slot, then every slot has a      *)
(* place.                                                                  *)
SlotInv ==
  /\ Apart
  /\ zone = "ready" => \A s \in Slots : Somewhere(s)
  /\ zone # "ready" =>
       /\ common = {} /\ lost = {}
       /\ \A i \in Ids : cache[i] = {}
       /\ \A t \in Threads : use[t] = {} /\ sent[t] = {}

(* Slots that no running thread can allocate: they are lost, or in the     *)
(* cache of an id that no running thread has.                              *)
Idle == {i \in Ids : \A t \in Threads : pc[t] \in {"run", "panic"} => i \notin ids[t]}
Waste == lost \cup UNION {cache[i] : i \in Idle}

Left == {t \in Threads : pc[t] = "gone"}

(* A cache is bounded, and every thread that left wasted one of them.      *)
BoundInv ==
  /\ \A i \in Ids : Cardinality(cache[i]) <= FlushThreshold
  /\ IsFiniteSet(Left)
  /\ (\A t \in Threads : pc[t] # "dead") => Cardinality(Waste) <= FlushThreshold * Cardinality(Left)

(* An id without a cache has nothing in it. *)
CachedInv == \A i \in Ids : i \notin cached => cache[i] = {}

IInv == TypeOK /\ IdsInv /\ GuardInv /\ OwnInv /\ SlotInv /\ BoundInv /\ CachedInv

-----------------------------------------------------------------------------
(* A thread that has entered has one id, ctx.thread_id. *)
LEMMA IdOfThread ==
  ASSUME TypeOK, IdsInv, NEW t \in Threads, pc[t] \in Entered
  PROVE  IdOf(t) \in Ids /\ ids[t] = {IdOf(t)}
BY DEF IdsInv, IdOf

(* The steps that leave the slots where they are. *)
SetupStep(t) == Lock(t) \/ Lookup(t) \/ Reserve(t) \/ CreateFails(t) \/ Abort(t)

SlotStep(t) ==
  \/ CreatePool(t) \/ CreateCache(t)
  \/ \E k \in Bursts : Allocate(t, k)
  \/ \E s \in Slots : Deallocate(t, s) \/ Send(t, s) \/ \E i \in Ids : TxDone(t, s, i)

(* Every step is one of these. *)
LEMMA StepCases ==
  ASSUME [Next]_vars
  PROVE  \/ \E t \in Threads : Enter(t) \/ Exit(t) \/ SetupStep(t) \/ SlotStep(t)
         \/ \E t \in Threads, k \in Bursts : AllocateFails(t, k)
         \/ \E i \in Ids : FreeId(i)
         \/ UNCHANGED vars
BY DEF Next, Setup, Run, Finished, SetupStep, SlotStep

(* What rte_mempool_generic_put does: the slots of the ring and of the     *)
(* cache stay what they were, and the new one is among them.               *)
LEMMA PutFacts ==
  ASSUME TypeOK, NEW i \in Ids, NEW s \in Slots, Put(i, s)
  PROVE  \E new \in SUBSET Slots :
           /\ cache' = [cache EXCEPT ![i] = new]
           /\ common' \cup new = common \cup cache[i] \cup {s}
           /\ common \subseteq common'
           /\ s \notin common \cup cache[i] /\ common \cap cache[i] = {} => common' \cap new = {}
<1>1. cache[i] \in SUBSET Slots /\ common \subseteq Slots /\ cache \in [Ids -> SUBSET Slots]
  BY DEF TypeOK
<1> USE <1>1
<1>2. CASE i \notin cached /\ common' = common \cup {s} /\ UNCHANGED cache
  <2>1. cache' = [cache EXCEPT ![i] = cache[i]]
    BY <1>1, <1>2
  <2> WITNESS cache[i] \in SUBSET Slots
  <2> QED
    BY <1>2, <2>1
<1>3. CASE cache' = [cache EXCEPT ![i] = @ \cup {s}] /\ UNCHANGED common
  <2> WITNESS cache[i] \cup {s} \in SUBSET Slots
  <2> QED
    BY <1>1, <1>3
<1>4. CASE common' = common \cup cache[i] /\ cache' = [cache EXCEPT ![i] = {s}]
  <2> WITNESS {s} \in SUBSET Slots
  <2> QED
    BY <1>1, <1>4
<1> QED
  BY <1>2, <1>3, <1>4 DEF Put

(* What rte_mempool_generic_get does: what is handed out and what goes to  *)
(* the cache comes from the ring and from the cache.                       *)
LEMMA GetFacts ==
  ASSUME TypeOK, NEW i \in Ids, NEW k \in Bursts, NEW got \in kSubset(k, common \cup cache[i]),
         Get(i, got)
  PROVE  \E fill \in SUBSET (common \ got) :
           /\ cache' = [cache EXCEPT ![i] = (cache[i] \ got) \cup fill]
           /\ common' = common \ (got \cup fill)
           /\ got \subseteq common \cup cache[i]
<1>1. got \subseteq common \cup cache[i]
  BY DEF kSubset
<1>2. cache \in [Ids -> SUBSET Slots]
  BY DEF TypeOK
<1> DEFINE refills == /\ i \in cached
                      /\ Cardinality(got \ cache[i]) > 0
                      /\ CacheSize + Cardinality(got \ cache[i]) <= Cardinality(common)
<1>3. PICK fill \in IF refills THEN kSubset(CacheSize, common \ got) ELSE {{}} :
           /\ cache' = [cache EXCEPT ![i] = (@ \ got) \cup fill]
           /\ common' = common \ (got \cup fill)
  BY DEF Get
<1>4. fill \in SUBSET (common \ got)
  BY DEF kSubset
<1> QED
  BY <1>1, <1>2, <1>3, <1>4

-----------------------------------------------------------------------------
(* Types, ids, the lock and the packets of a thread.                       *)

(* Every step keeps the types. *)
LEMMA TypeStep ==
  ASSUME TypeOK, IdsInv, [Next]_vars
  PROVE  TypeOK'
<1> USE DEF TypeOK, Labels, Goto, At, idVars, slotVars
<1>1. ASSUME NEW t \in Threads, Enter(t) \/ Exit(t)
      PROVE  TypeOK'
  BY <1>1 DEF Enter, Exit, Id!Grant, Id!GiveUp
<1>2. ASSUME NEW t \in Threads, SetupStep(t)
      PROVE  TypeOK'
  BY <1>2 DEF SetupStep, Lock, Lookup, Reserve, CreateFails, Abort
<1>3. ASSUME NEW t \in Threads, CreatePool(t)
      PROVE  TypeOK'
  BY <1>3 DEF CreatePool
<1>4. ASSUME NEW t \in Threads, CreateCache(t)
      PROVE  TypeOK'
  <2>1. IdOf(t) \in Ids
    BY <1>4, IdOfThread DEF CreateCache, Entered
  <2> QED
    BY <1>4, <2>1 DEF CreateCache
<1>5. ASSUME NEW t \in Threads, NEW k \in Bursts, Allocate(t, k)
      PROVE  TypeOK'
  <2>1. IdOf(t) \in Ids
    BY <1>5, IdOfThread DEF Allocate, Entered
  <2>2. PICK got \in kSubset(k, common \cup cache[IdOf(t)]) :
          Get(IdOf(t), got) /\ use' = [use EXCEPT ![t] = @ \cup got]
    BY <1>5 DEF Allocate
  <2>3. PICK fill \in SUBSET (common \ got) :
           /\ cache' = [cache EXCEPT ![IdOf(t)] = (cache[IdOf(t)] \ got) \cup fill]
           /\ common' = common \ (got \cup fill)
           /\ got \subseteq common \cup cache[IdOf(t)]
    BY <2>1, <2>2, GetFacts
  <2>4. common' \subseteq Slots /\ cache' \in [Ids -> SUBSET Slots] /\ use' \in [Threads -> SUBSET Slots]
    BY <2>1, <2>2, <2>3
  <2> QED
    BY <1>5, <2>4 DEF Allocate
<1>6. ASSUME NEW i \in Ids, NEW s \in Slots, Put(i, s)
      PROVE  common' \subseteq Slots /\ cache' \in [Ids -> SUBSET Slots]
  BY <1>6, PutFacts
<1>7. ASSUME NEW t \in Threads, NEW s \in Slots, Deallocate(t, s)
      PROVE  TypeOK'
  <2>1. IdOf(t) \in Ids
    BY <1>7, IdOfThread DEF Deallocate, Entered
  <2> QED
    BY <1>6, <1>7, <2>1 DEF Deallocate
<1>8. ASSUME NEW t \in Threads, NEW s \in Slots, Send(t, s)
      PROVE  TypeOK'
  <2>1. IdOf(t) \in Ids
    BY <1>8, IdOfThread DEF Send, Entered
  <2> QED
    BY <1>8, <2>1 DEF Send
<1>9. ASSUME NEW t \in Threads, NEW s \in Slots, NEW i \in Ids, TxDone(t, s, i)
      PROVE  TypeOK'
  BY <1>6, <1>9 DEF TxDone
<1>10. ASSUME NEW t \in Threads, NEW k \in Bursts, AllocateFails(t, k)
       PROVE  TypeOK'
  BY <1>10 DEF AllocateFails
<1>11. ASSUME NEW i \in Ids, FreeId(i)
       PROVE  TypeOK'
  BY <1>11 DEF FreeId, Id!Free
<1>12. CASE UNCHANGED vars
  BY <1>12 DEF vars
<1> QED
  BY <1>1, <1>2, <1>3, <1>4, <1>5, <1>7, <1>8, <1>9, <1>10, <1>11, <1>12, StepCases DEF SlotStep

(* What a slot step leaves alone. *)
LEMMA SlotStepFrame ==
  ASSUME TypeOK, NEW t \in Threads, SlotStep(t)
  PROVE  /\ ids' = ids /\ used' = used
         /\ \A u \in Threads : u # t =>
              pc'[u] = pc[u] /\ use'[u] = use[u] /\ sent'[u] = sent[u]
         /\ pc[t] \in Entered /\ pc'[t] \in Entered
BY DEF SlotStep, CreatePool, CreateCache, Allocate, Deallocate, Send, TxDone, TypeOK,
       Goto, At, idVars, Entered

(* Every step keeps what is known of ids. *)
LEMMA IdsStep ==
  ASSUME TypeOK, IdsInv, [Next]_vars
  PROVE  IdsInv'
<1> USE DEF Goto, At, idVars
<1>0. pc \in [Threads -> Labels] /\ ids \in [Threads -> SUBSET Ids]
  BY DEF TypeOK
<1>1. ASSUME NEW t \in Threads, Enter(t)
      PROVE  IdsInv'
  <2>1. PICK i \in Ids : Id!Grant(t, i)
    BY <1>1 DEF Enter
  <2>2. ids[t] = {} /\ ids' = [ids EXCEPT ![t] = {i}] /\ used' = used \cup {i} /\ i \notin used
    BY <1>0, <1>1, <2>1 DEF Enter, Id!Grant, IdsInv
  <2>3. pc' = [pc EXCEPT ![t] = "lock"]
    BY <1>1 DEF Enter
  <2> QED
    BY <1>0, <2>2, <2>3 DEF IdsInv, Entered
<1>2. ASSUME NEW t \in Threads, Exit(t)
      PROVE  IdsInv'
  BY <1>0, <1>2 DEF Exit, Id!GiveUp, IdsInv, Entered
<1>3. ASSUME NEW t \in Threads, SetupStep(t)
      PROVE  IdsInv'
  BY <1>0, <1>3 DEF SetupStep, Lock, Lookup, Reserve, CreateFails, Abort, IdsInv, Entered
<1>4. ASSUME NEW t \in Threads, SlotStep(t)
      PROVE  IdsInv'
  BY <1>0, <1>4, SlotStepFrame DEF IdsInv, Entered
<1>5. ASSUME NEW t \in Threads, NEW k \in Bursts, AllocateFails(t, k)
      PROVE  IdsInv'
  BY <1>0, <1>5 DEF AllocateFails, IdsInv, Entered
<1>6. ASSUME NEW i \in Ids, FreeId(i)
      PROVE  IdsInv'
  BY <1>0, <1>6 DEF FreeId, Id!Free, IdsInv
<1>7. CASE UNCHANGED vars
  BY <1>7 DEF vars, IdsInv
<1> QED
  BY <1>1, <1>2, <1>3, <1>4, <1>5, <1>6, <1>7, StepCases

(* Every step keeps what is known of the lock and the zone. *)
LEMMA GuardStep ==
  ASSUME TypeOK, GuardInv, [Next]_vars
  PROVE  GuardInv'
<1> USE DEF Goto, At, slotVars
<1>0. pc \in [Threads -> Labels] /\ Nobody \notin Threads
      /\ guard \in Threads \cup {Nobody} /\ zone \in {"none", "reserved", "ready"}
  BY MemoryAssumption DEF TypeOK
<1>1. ASSUME NEW t \in Threads, Enter(t) \/ Exit(t)
      PROVE  GuardInv'
  BY <1>0, <1>1 DEF Enter, Exit, GuardInv
<1>2. ASSUME NEW t \in Threads, Lock(t)
      PROVE  GuardInv'
  BY <1>0, <1>2 DEF Lock, GuardInv
<1>3. ASSUME NEW t \in Threads, Lookup(t)
      PROVE  GuardInv'
  BY <1>0, <1>3 DEF Lookup, GuardInv
<1>4. ASSUME NEW t \in Threads, Reserve(t)
      PROVE  GuardInv'
  BY <1>0, <1>4 DEF Reserve, GuardInv
<1>5. ASSUME NEW t \in Threads, CreatePool(t)
      PROVE  GuardInv'
  BY <1>0, <1>5 DEF CreatePool, GuardInv
<1>6. ASSUME NEW t \in Threads, CreateFails(t)
      PROVE  GuardInv'
  BY <1>0, <1>6 DEF CreateFails, GuardInv
<1>7. ASSUME NEW t \in Threads, CreateCache(t)
      PROVE  GuardInv'
  BY <1>0, <1>7 DEF CreateCache, GuardInv
<1>8. ASSUME NEW t \in Threads, Abort(t)
      PROVE  GuardInv'
  BY <1>0, <1>8 DEF Abort, GuardInv
<1>9. ASSUME NEW t \in Threads, NEW k \in Bursts, AllocateFails(t, k)
      PROVE  GuardInv'
  BY <1>0, <1>9 DEF AllocateFails, GuardInv
<1>10. ASSUME pc' = pc, guard' = guard, zone' = zone
       PROVE  GuardInv'
  BY <1>10 DEF GuardInv
<1> QED
  BY <1>1, <1>2, <1>3, <1>4, <1>5, <1>6, <1>7, <1>8, <1>9, <1>10, StepCases
     DEF SetupStep, SlotStep, Allocate, Deallocate, Send, TxDone, FreeId, vars

(* Every step keeps what is known of the packets of a thread. *)
LEMMA OwnStep ==
  ASSUME TypeOK, IdsInv, OwnInv, [Next]_vars
  PROVE  OwnInv'
<1> USE DEF Goto, At, idVars, slotVars
<1>0. pc \in [Threads -> Labels] /\ use \in [Threads -> SUBSET Slots]
      /\ sent \in [Threads -> SUBSET (Slots \X Ids)] /\ ids \in [Threads -> SUBSET Ids]
  BY DEF TypeOK
<1>1. ASSUME NEW t \in Threads, Enter(t) \/ Exit(t)
      PROVE  OwnInv'
  BY <1>0, <1>1 DEF Enter, Exit, Id!Grant, Id!GiveUp, OwnInv
<1>2. ASSUME NEW t \in Threads, SetupStep(t) \/ CreatePool(t) \/ CreateCache(t)
      PROVE  OwnInv'
  BY <1>0, <1>2 DEF SetupStep, Lock, Lookup, Reserve, CreatePool, CreateFails, CreateCache, Abort, OwnInv
<1>3. ASSUME NEW t \in Threads, NEW k \in Bursts, AllocateFails(t, k)
      PROVE  OwnInv'
  BY <1>0, <1>3 DEF AllocateFails, OwnInv
<1>4. ASSUME NEW t \in Threads, NEW k \in Bursts, Allocate(t, k)
      PROVE  OwnInv'
  BY <1>0, <1>4 DEF Allocate, OwnInv
<1>5. ASSUME NEW t \in Threads, NEW s \in Slots, Send(t, s)
      PROVE  OwnInv'
  <2>1. ids[t] = {IdOf(t)}
    BY <1>5, IdOfThread DEF Send, Entered
  <2> QED
    BY <1>0, <1>5, <2>1 DEF Send, OwnInv
<1>6. ASSUME NEW t \in Threads, NEW s \in Slots, Deallocate(t, s)
      PROVE  OwnInv'
  BY <1>0, <1>6 DEF Deallocate, OwnInv
<1>9. ASSUME NEW t \in Threads, NEW s \in Slots, NEW i \in Ids, TxDone(t, s, i)
      PROVE  OwnInv'
  <2>1. \A u \in Threads : sent'[u] \subseteq sent[u]
    BY <1>0, <1>9 DEF TxDone
  <2> QED
    BY <1>0, <1>9, <2>1 DEF TxDone, OwnInv
<1>7. ASSUME NEW i \in Ids, FreeId(i)
      PROVE  OwnInv'
  BY <1>7 DEF FreeId, Id!Free, OwnInv
<1>8. CASE UNCHANGED vars
  BY <1>8 DEF vars, OwnInv
<1> QED
  BY <1>1, <1>2, <1>3, <1>4, <1>5, <1>6, <1>7, <1>8, <1>9, StepCases DEF SlotStep

-----------------------------------------------------------------------------
(* Slots.                                                                  *)

(* A slot that a thread gives back, or the driver for it. *)
LEMMA PutKeepsApart ==
  ASSUME TypeOK, Apart, NEW i \in Ids, NEW s \in Slots, Put(i, s), lost' = lost,
         s \notin common, s \notin lost, \A j \in Ids : s \notin cache[j]
  PROVE  /\ common' \cap lost' = {}
         /\ \A j \in Ids : cache'[j] \cap common' = {} /\ cache'[j] \cap lost' = {}
         /\ \A j, k \in Ids : j # k => cache'[j] \cap cache'[k] = {}
         /\ \A x : x \in common' \/ (\E j \in Ids : x \in cache'[j])
                     <=> x = s \/ x \in common \/ \E j \in Ids : x \in cache[j]
<1>1. PICK new \in SUBSET Slots :
           /\ cache' = [cache EXCEPT ![i] = new]
           /\ common' \cup new = common \cup cache[i] \cup {s}
           /\ common \subseteq common'
           /\ s \notin common \cup cache[i] /\ common \cap cache[i] = {} => common' \cap new = {}
  BY PutFacts
<1>2. common' \cap new = {} /\ common' \subseteq common \cup cache[i] \cup {s}
      /\ new \subseteq common \cup cache[i] \cup {s}
  BY <1>1 DEF Apart
<1>3. new \subseteq cache[i] \cup {s}
  BY <1>1, <1>2
<1>4. cache'[i] = new /\ \A j \in Ids : j # i => cache'[j] = cache[j]
  BY <1>1 DEF TypeOK
<1>5. common' \cap lost' = {} /\ \A j \in Ids : cache'[j] \cap lost' = {}
  BY <1>2, <1>3, <1>4 DEF Apart
<1>6. \A j \in Ids : cache'[j] \cap common' = {}
  BY <1>2, <1>4 DEF Apart
<1>7. \A j, k \in Ids : j # k => cache'[j] \cap cache'[k] = {}
  BY <1>3, <1>4 DEF Apart
<1>8. ASSUME NEW x
      PROVE  x \in common' \/ (\E j \in Ids : x \in cache'[j])
               <=> x = s \/ x \in common \/ \E j \in Ids : x \in cache[j]
  BY <1>1, <1>4
<1> QED
  BY <1>5, <1>6, <1>7, <1>8

(* What a thread allocates. *)
LEMMA AllocateFacts ==
  ASSUME TypeOK, IdsInv, NEW t \in Threads, NEW k \in Bursts, Allocate(t, k)
  PROVE  \E i \in Ids, got \in SUBSET Slots, fill \in SUBSET Slots :
           /\ i = IdOf(t)
           /\ got \subseteq common \cup cache[i]
           /\ fill \subseteq common \ got
           /\ cache' = [cache EXCEPT ![i] = (cache[i] \ got) \cup fill]
           /\ common' = common \ (got \cup fill)
           /\ use' = [use EXCEPT ![t] = use[t] \cup got]
<1>1. PICK i \in Ids : i = IdOf(t)
  BY IdOfThread DEF Allocate, At, Entered
<1>2. PICK got \in kSubset(k, common \cup cache[i]) :
        Get(i, got) /\ use' = [use EXCEPT ![t] = @ \cup got]
  BY <1>1 DEF Allocate
<1>3. PICK fill \in SUBSET (common \ got) :
         /\ cache' = [cache EXCEPT ![i] = (cache[i] \ got) \cup fill]
         /\ common' = common \ (got \cup fill)
         /\ got \subseteq common \cup cache[i]
  BY <1>2, GetFacts
<1>4. got \in SUBSET Slots /\ fill \in SUBSET Slots
  BY <1>3 DEF TypeOK
<1> QED
  BY <1>1, <1>2, <1>3, <1>4

(* The slots that a thread may allocate are nobody else's. *)
LEMMA AllocateKeepsApart ==
  ASSUME TypeOK, IdsInv, Apart, NEW t \in Threads, NEW k \in Bursts, Allocate(t, k)
  PROVE  /\ Apart'
         /\ \A s \in Slots : Somewhere(s) => Somewhere(s)'
<1>3. PICK i \in Ids, got \in SUBSET Slots, fill \in SUBSET Slots :
           /\ i = IdOf(t)
           /\ got \subseteq common \cup cache[i]
           /\ fill \subseteq common \ got
           /\ cache' = [cache EXCEPT ![i] = (cache[i] \ got) \cup fill]
           /\ common' = common \ (got \cup fill)
           /\ use' = [use EXCEPT ![t] = use[t] \cup got]
  BY AllocateFacts
<1>4. /\ cache'[i] = (cache[i] \ got) \cup fill /\ \A j \in Ids : j # i => cache'[j] = cache[j]
      /\ use'[t] = use[t] \cup got /\ \A u \in Threads : u # t => use'[u] = use[u]
      /\ sent' = sent /\ lost' = lost
  BY <1>3 DEF TypeOK, Allocate
<1>5. common' \subseteq common /\ common' \cap got = {} /\ common' \cap fill = {} /\ fill \subseteq common
      /\ fill \cap got = {}
  BY <1>3
<1>6. Apart'
  <2>1. common' \cap lost' = {}
    BY <1>4, <1>5 DEF Apart
  <2>2. \A j \in Ids : cache'[j] \cap common' = {} /\ cache'[j] \cap lost' = {}
    BY <1>4, <1>5 DEF Apart
  <2>3. \A j, l \in Ids : j # l => cache'[j] \cap cache'[l] = {}
    BY <1>4, <1>5 DEF Apart
  <2>4. \A u \in Threads : use'[u] \cap common' = {} /\ use'[u] \cap lost' = {}
    BY <1>3, <1>4, <1>5 DEF Apart
  <2>5. ASSUME NEW u \in Threads, NEW j \in Ids
        PROVE  use'[u] \cap cache'[j] = {}
    <3>1. use[u] \cap cache[j] = {} /\ use[u] \cap common = {}
      BY DEF Apart
    <3>2. j # i => got \cap cache[j] = {}
      BY <1>3 DEF Apart
    <3>3. cache'[j] \subseteq cache[j] \cup fill /\ got \cap cache'[j] = {}
      BY <1>4, <1>5, <3>2
    <3> QED
      BY <1>4, <1>5, <3>1, <3>3
  <2>6. \A u, v \in Threads : u # v => use'[u] \cap use'[v] = {}
    BY <1>3, <1>4 DEF Apart
  <2>7. ASSUME NEW u \in Threads, NEW x \in sent'[u]
        PROVE  /\ x[1] \notin common' /\ x[1] \notin lost'
               /\ \A j \in Ids : x[1] \notin cache'[j]
               /\ \A v \in Threads : x[1] \notin use'[v]
    <3>1. x \in sent[u]
      BY <1>4
    <3>2. /\ x[1] \notin common /\ x[1] \notin lost
          /\ \A j \in Ids : x[1] \notin cache[j]
          /\ \A v \in Threads : x[1] \notin use[v]
      BY <3>1 DEF Apart
    <3> QED
      BY <1>3, <1>4, <1>5, <3>2
  <2> QED
    BY <1>4, <2>1, <2>2, <2>3, <2>4, <2>5, <2>6, <2>7 DEF Apart
<1>7. ASSUME NEW s \in Slots, Somewhere(s)
      PROVE  Somewhere(s)'
  <2>1. CASE s \in common
    BY <1>3, <1>4, <2>1 DEF Somewhere
  <2>2. ASSUME NEW j \in Ids, s \in cache[j]
        PROVE  Somewhere(s)'
    BY <1>3, <1>4, <2>2 DEF Somewhere
  <2>3. CASE s \in lost \/ (\E u \in Threads : s \in use[u])
               \/ \E u \in Threads, j \in Ids : <<s, j>> \in sent[u]
    BY <1>4, <2>3 DEF Somewhere
  <2> QED
    BY <1>7, <2>1, <2>2, <2>3 DEF Somewhere
<1> QED
  BY <1>6, <1>7

(* A thread gives back a slot of its own. *)
LEMMA DeallocateKeepsApart ==
  ASSUME TypeOK, IdsInv, Apart, NEW t \in Threads, NEW s \in Slots, Deallocate(t, s)
  PROVE  /\ Apart'
         /\ \A x \in Slots : Somewhere(x) => Somewhere(x)'
<1>1. IdOf(t) \in Ids
  BY IdOfThread DEF Deallocate, At, Entered
<1>2. /\ s \in use[t] /\ Put(IdOf(t), s) /\ lost' = lost /\ sent' = sent
      /\ use'[t] = use[t] \ {s} /\ \A u \in Threads : u # t => use'[u] = use[u]
  BY DEF Deallocate, TypeOK
<1>3. s \notin common /\ s \notin lost /\ \A j \in Ids : s \notin cache[j]
  BY <1>2 DEF Apart
<1>4. /\ common' \cap lost' = {}
      /\ \A j \in Ids : cache'[j] \cap common' = {} /\ cache'[j] \cap lost' = {}
      /\ \A j, k \in Ids : j # k => cache'[j] \cap cache'[k] = {}
      /\ \A x : x \in common' \/ (\E j \in Ids : x \in cache'[j])
                  <=> x = s \/ x \in common \/ \E j \in Ids : x \in cache[j]
  BY <1>1, <1>2, <1>3, PutKeepsApart
<1>5. \A u \in Threads : s \notin use'[u] /\ use'[u] \subseteq use[u]
  BY <1>2 DEF Apart
<1>6. \A u \in Threads : \A y \in sent[u] : y[1] # s
  BY <1>2 DEF Apart
<1>7. Apart'
  <2>1. \A u \in Threads : use'[u] \cap common' = {} /\ use'[u] \cap lost' = {}
    BY <1>2, <1>4, <1>5 DEF Apart
  <2>2. \A u \in Threads, i \in Ids : use'[u] \cap cache'[i] = {}
    BY <1>4, <1>5 DEF Apart
  <2>3. \A u, v \in Threads : u # v => use'[u] \cap use'[v] = {}
    BY <1>5 DEF Apart
  <2>4. ASSUME NEW u \in Threads, NEW y \in sent'[u]
        PROVE  /\ y[1] \notin common' /\ y[1] \notin lost'
               /\ \A i \in Ids : y[1] \notin cache'[i]
               /\ \A v \in Threads : y[1] \notin use'[v]
    BY <1>2, <1>4, <1>5, <1>6 DEF Apart
  <2> QED
    BY <1>2, <1>4, <2>1, <2>2, <2>3, <2>4 DEF Apart
<1>8. ASSUME NEW x \in Slots, Somewhere(x)
      PROVE  Somewhere(x)'
  <2>1. CASE x = s \/ x \in common \/ \E j \in Ids : x \in cache[j]
    BY <1>4, <2>1 DEF Somewhere
  <2>2. CASE x # s /\ \E u \in Threads : x \in use[u]
    BY <1>2, <2>2 DEF Somewhere
  <2>3. CASE x \in lost \/ \E u \in Threads, j \in Ids : <<x, j>> \in sent[u]
    BY <1>2, <2>3 DEF Somewhere
  <2> QED
    BY <1>8, <2>1, <2>2, <2>3 DEF Somewhere
<1> QED
  BY <1>7, <1>8

(* A thread hands one of its slots to an adapter. *)
LEMMA SendKeepsApart ==
  ASSUME TypeOK, IdsInv, Apart, NEW t \in Threads, NEW s \in Slots, Send(t, s)
  PROVE  /\ Apart'
         /\ \A x \in Slots : Somewhere(x) => Somewhere(x)'
<1>1. PICK i \in Ids : i = IdOf(t)
  BY IdOfThread DEF Send, At, Entered
<1>2. /\ s \in use[t] /\ common' = common /\ cache' = cache /\ lost' = lost
      /\ use'[t] = use[t] \ {s} /\ \A u \in Threads : u # t => use'[u] = use[u]
      /\ sent'[t] = sent[t] \cup {<<s, i>>} /\ \A u \in Threads : u # t => sent'[u] = sent[u]
  BY <1>1 DEF Send, TypeOK
<1>3. s \notin common /\ s \notin lost /\ \A j \in Ids : s \notin cache[j]
  BY <1>2 DEF Apart
<1>4. \A u \in Threads : s \notin use'[u] /\ use'[u] \subseteq use[u]
  BY <1>2 DEF Apart
<1>5. \A u \in Threads : \A y \in sent[u] : y[1] # s
  BY <1>2 DEF Apart
<1>6. \A u \in Threads : \A y \in sent'[u] : y \in sent[u] \/ (u = t /\ y = <<s, i>>)
  BY <1>2
<1>7. Apart'
  <2>1. ASSUME NEW u \in Threads, NEW y \in sent'[u]
        PROVE  /\ y[1] \notin common' /\ y[1] \notin lost'
               /\ \A j \in Ids : y[1] \notin cache'[j]
               /\ \A v \in Threads : y[1] \notin use'[v]
    <3>1. CASE y \in sent[u]
      BY <1>2, <1>4, <3>1 DEF Apart
    <3>2. CASE y = <<s, i>>
      BY <1>2, <1>3, <1>4, <3>2
    <3> QED
      BY <1>6, <3>1, <3>2
  <2>2. ASSUME NEW u \in Threads, NEW v \in Threads, NEW y \in sent'[u], NEW z \in sent'[v], y[1] = z[1]
        PROVE  u = v /\ y = z
    <3>1. (y \in sent[u] \/ (u = t /\ y = <<s, i>>)) /\ (z \in sent[v] \/ (v = t /\ z = <<s, i>>))
      BY <1>6
    <3>2. CASE y \in sent[u] /\ z \in sent[v]
      BY <2>2, <3>2 DEF Apart
    <3>3. CASE y = <<s, i>> \/ z = <<s, i>>
      BY <1>5, <2>2, <3>1, <3>3
    <3> QED
      BY <3>1, <3>2, <3>3
  <2>3. /\ \A u \in Threads : use'[u] \cap common' = {} /\ use'[u] \cap lost' = {}
        /\ \A u \in Threads, j \in Ids : use'[u] \cap cache'[j] = {}
        /\ \A u, v \in Threads : u # v => use'[u] \cap use'[v] = {}
    BY <1>2, <1>4 DEF Apart
  <2> QED
    BY <1>2, <2>1, <2>2, <2>3 DEF Apart
<1>8. ASSUME NEW x \in Slots, Somewhere(x)
      PROVE  Somewhere(x)'
  <2>1. CASE x = s
    BY <1>2, <2>1 DEF Somewhere
  <2>2. CASE x # s /\ \E u \in Threads : x \in use[u]
    BY <1>2, <2>2 DEF Somewhere
  <2>3. CASE x \in common \/ x \in lost \/ (\E j \in Ids : x \in cache[j])
               \/ \E u \in Threads, j \in Ids : <<x, j>> \in sent[u]
    BY <1>2, <2>3 DEF Somewhere
  <2> QED
    BY <1>8, <2>1, <2>2, <2>3 DEF Somewhere
<1> QED
  BY <1>7, <1>8

(* The driver gives back a slot that was sent. *)
LEMMA TxDoneKeepsApart ==
  ASSUME TypeOK, Apart, NEW t \in Threads, NEW s \in Slots, NEW i \in Ids, TxDone(t, s, i)
  PROVE  /\ Apart'
         /\ \A x \in Slots : Somewhere(x) => Somewhere(x)'
<1>2. /\ <<s, i>> \in sent[t] /\ Put(i, s) /\ lost' = lost /\ use' = use
      /\ sent'[t] = sent[t] \ {<<s, i>>} /\ \A u \in Threads : u # t => sent'[u] = sent[u]
  BY DEF TxDone, TypeOK
<1>3. /\ <<s, i>>[1] \notin common /\ <<s, i>>[1] \notin lost
      /\ \A j \in Ids : <<s, i>>[1] \notin cache[j]
      /\ \A u \in Threads : <<s, i>>[1] \notin use[u]
  BY <1>2 DEF Apart
<1>4. /\ common' \cap lost' = {}
      /\ \A j \in Ids : cache'[j] \cap common' = {} /\ cache'[j] \cap lost' = {}
      /\ \A j, k \in Ids : j # k => cache'[j] \cap cache'[k] = {}
      /\ \A x : x \in common' \/ (\E j \in Ids : x \in cache'[j])
                  <=> x = s \/ x \in common \/ \E j \in Ids : x \in cache[j]
  BY <1>2, <1>3, PutKeepsApart
<1>5. ASSUME NEW u \in Threads, NEW y \in sent'[u]
      PROVE  y \in sent[u] /\ y[1] # s
  <2>1. y \in sent[u] /\ ~ (u = t /\ y = <<s, i>>)
    BY <1>2
  <2>2. y[1] = <<s, i>>[1] => u = t /\ y = <<s, i>>
    BY <1>2, <2>1 DEF Apart
  <2> QED
    BY <2>1, <2>2
<1>7. Apart'
  <2>1. \A u \in Threads : use'[u] \cap common' = {} /\ use'[u] \cap lost' = {}
    BY <1>2, <1>3, <1>4 DEF Apart
  <2>2. \A u \in Threads, j \in Ids : use'[u] \cap cache'[j] = {}
    BY <1>2, <1>3, <1>4 DEF Apart
  <2>3. ASSUME NEW u \in Threads, NEW y \in sent'[u]
        PROVE  /\ y[1] \notin common' /\ y[1] \notin lost'
               /\ \A j \in Ids : y[1] \notin cache'[j]
               /\ \A v \in Threads : y[1] \notin use'[v]
    BY <1>2, <1>4, <1>5 DEF Apart
  <2>4. ASSUME NEW u \in Threads, NEW v \in Threads, NEW y \in sent'[u], NEW z \in sent'[v], y[1] = z[1]
        PROVE  u = v /\ y = z
    BY <1>5, <2>4 DEF Apart
  <2>5. \A u, v \in Threads : u # v => use'[u] \cap use'[v] = {}
    BY <1>2 DEF Apart
  <2> QED
    BY <1>4, <2>1, <2>2, <2>3, <2>4, <2>5 DEF Apart
<1>8. ASSUME NEW x \in Slots, Somewhere(x)
      PROVE  Somewhere(x)'
  <2>1. CASE x = s \/ x \in common \/ \E j \in Ids : x \in cache[j]
    BY <1>4, <2>1 DEF Somewhere
  <2>2. ASSUME x # s, NEW u \in Threads, NEW j \in Ids, <<x, j>> \in sent[u]
        PROVE  Somewhere(x)'
    <3>1. <<x, j>> # <<s, i>>
      BY <2>2
    <3>2. <<x, j>> \in sent'[u]
      BY <1>2, <2>2, <3>1
    <3> QED
      BY <3>2 DEF Somewhere
  <2>3. CASE x \in lost \/ \E u \in Threads : x \in use[u]
    BY <1>2, <2>3 DEF Somewhere
  <2> QED
    BY <1>8, <2>1, <2>2, <2>3 DEF Somewhere
<1> QED
  BY <1>7, <1>8

(* The slots of a cache that is replaced are lost. *)
LEMMA CreateCacheKeepsApart ==
  ASSUME TypeOK, IdsInv, Apart, NEW t \in Threads, CreateCache(t)
  PROVE  /\ Apart'
         /\ \A x \in Slots : Somewhere(x) => Somewhere(x)'
<1>1. PICK i \in Ids : i = IdOf(t)
  BY IdOfThread DEF CreateCache, At, Entered
<1>2. /\ common' = common /\ use' = use /\ sent' = sent /\ lost' = lost \cup cache[i]
      /\ cache'[i] = {} /\ \A j \in Ids : j # i => cache'[j] = cache[j]
  BY <1>1 DEF CreateCache, TypeOK
<1>3. Apart'
  <2>1. \A j \in Ids : cache'[j] \cap common' = {} /\ cache'[j] \cap lost' = {}
    BY <1>2 DEF Apart
  <2>2. \A j, l \in Ids : j # l => cache'[j] \cap cache'[l] = {}
    BY <1>2 DEF Apart
  <2>3. \A u \in Threads : use'[u] \cap common' = {} /\ use'[u] \cap lost' = {}
    BY <1>2 DEF Apart
  <2>4. \A u \in Threads, j \in Ids : use'[u] \cap cache'[j] = {}
    BY <1>2 DEF Apart
  <2>5. ASSUME NEW u \in Threads, NEW y \in sent'[u]
        PROVE  /\ y[1] \notin common' /\ y[1] \notin lost'
               /\ \A j \in Ids : y[1] \notin cache'[j]
               /\ \A v \in Threads : y[1] \notin use'[v]
    BY <1>2 DEF Apart
  <2>6. common' \cap lost' = {}
    BY <1>2 DEF Apart
  <2> QED
    BY <1>2, <2>1, <2>2, <2>3, <2>4, <2>5, <2>6 DEF Apart
<1>4. ASSUME NEW x \in Slots, Somewhere(x)
      PROVE  Somewhere(x)'
  BY <1>2, <1>4 DEF Somewhere
<1> QED
  BY <1>3, <1>4

(* Every step keeps what is known of slots. *)
LEMMA SlotInvStep ==
  ASSUME TypeOK, IdsInv, GuardInv, SlotInv, [Next]_vars
  PROVE  SlotInv'
<1> USE DEF At, Goto
<1>1. ASSUME UNCHANGED slotVars, zone' = "ready" <=> zone = "ready"
      PROVE  SlotInv'
  <2>1. Apart'
    BY <1>1 DEF SlotInv, Apart, slotVars
  <2>2. \A s : Somewhere(s) => Somewhere(s)'
    BY <1>1 DEF Somewhere, slotVars
  <2> QED
    BY <1>1, <2>1, <2>2 DEF SlotInv, slotVars
<1>2. ASSUME Apart', zone = "ready", zone' = zone, \A s \in Slots : Somewhere(s) => Somewhere(s)'
      PROVE  SlotInv'
  BY <1>2 DEF SlotInv
<1>3. ASSUME NEW t \in Threads, Enter(t) \/ Exit(t) \/ SetupStep(t)
      PROVE  SlotInv'
  BY <1>1, <1>3 DEF Enter, Exit, SetupStep, Lock, Lookup, Reserve, CreateFails, Abort, GuardInv
<1>4. ASSUME NEW t \in Threads, CreatePool(t)
      PROVE  SlotInv'
  <2>1. zone # "ready"
    BY <1>4 DEF CreatePool, GuardInv
  <2>2. /\ common' = Slots /\ lost' = {} /\ zone' = "ready"
        /\ \A i \in Ids : cache'[i] = {}
        /\ \A u \in Threads : use'[u] = {} /\ sent'[u] = {}
    BY <1>4, <2>1 DEF CreatePool, SlotInv
  <2> QED
    BY <2>2 DEF SlotInv, Apart, Somewhere
<1>5. ASSUME NEW t \in Threads, CreateCache(t)
      PROVE  SlotInv'
  BY <1>2, <1>5, CreateCacheKeepsApart DEF CreateCache, SlotInv
<1>6. ASSUME NEW t \in Threads, NEW k \in Bursts, Allocate(t, k)
      PROVE  SlotInv'
  BY <1>2, <1>6, AllocateKeepsApart DEF Allocate, SlotInv, GuardInv
<1>7. ASSUME NEW t \in Threads, NEW s \in Slots, Deallocate(t, s)
      PROVE  SlotInv'
  BY <1>2, <1>7, DeallocateKeepsApart DEF Deallocate, SlotInv, GuardInv
<1>8. ASSUME NEW t \in Threads, NEW s \in Slots, Send(t, s)
      PROVE  SlotInv'
  BY <1>2, <1>8, SendKeepsApart DEF Send, SlotInv, GuardInv
<1>9. ASSUME NEW t \in Threads, NEW s \in Slots, NEW i \in Ids, TxDone(t, s, i)
      PROVE  SlotInv'
  BY <1>2, <1>9, TxDoneKeepsApart DEF TxDone, SlotInv, GuardInv
<1>10. ASSUME NEW t \in Threads, NEW k \in Bursts, AllocateFails(t, k)
       PROVE  SlotInv'
  BY <1>1, <1>10 DEF AllocateFails
<1>11. ASSUME NEW i \in Ids, FreeId(i)
       PROVE  SlotInv'
  BY <1>1, <1>11 DEF FreeId
<1>12. CASE UNCHANGED vars
  BY <1>1, <1>12 DEF vars, slotVars
<1> QED
  BY <1>3, <1>4, <1>5, <1>6, <1>7, <1>8, <1>9, <1>10, <1>11, <1>12, StepCases DEF SlotStep

-----------------------------------------------------------------------------
(* How much a cache holds, and how much is wasted.                         *)

(* Sets of slots are finite. *)
LEMMA SlotSets ==
  ASSUME NEW A \in SUBSET Slots, NEW B \in SUBSET A
  PROVE  /\ IsFiniteSet(A) /\ Cardinality(A) \in Nat
         /\ Cardinality(B) \in Nat /\ Cardinality(B) <= Cardinality(A)
BY FS_Subset, FS_CardinalityType, MemoryAssumption

(* The threshold of a cache. *)
LEMMA Threshold == FlushThreshold \in Nat /\ FlushThreshold >= 1 /\ CacheSize <= FlushThreshold
BY MemoryAssumption DEF FlushThreshold

(* rte_mempool_generic_put keeps a cache below its threshold. *)
LEMMA PutBound ==
  ASSUME TypeOK, NEW i \in Ids, NEW s \in Slots, Put(i, s),
         \A j \in Ids : Cardinality(cache[j]) <= FlushThreshold
  PROVE  \A j \in Ids : /\ Cardinality(cache'[j]) <= FlushThreshold
                        /\ j # i => cache'[j] = cache[j]
<1>1. cache \in [Ids -> SUBSET Slots] /\ cache[i] \in SUBSET Slots
  BY DEF TypeOK
<1>2. CASE UNCHANGED cache
  BY <1>2
<1>3. CASE Cardinality(cache[i]) < FlushThreshold /\ cache' = [cache EXCEPT ![i] = @ \cup {s}]
  <2>1. Cardinality(cache[i] \cup {s}) <= Cardinality(cache[i]) + 1
    BY <1>1, SlotSets, FS_AddElement
  <2>2. Cardinality(cache[i] \cup {s}) \in Nat /\ Cardinality(cache[i]) \in Nat
    BY <1>1, SlotSets
  <2> QED
    BY <1>1, <1>3, <2>1, <2>2, Threshold
<1>4. CASE cache' = [cache EXCEPT ![i] = {s}]
  BY <1>1, <1>4, FS_Singleton, Threshold
<1> QED
  BY <1>2, <1>3, <1>4 DEF Put

(* rte_mempool_generic_get fills a cache that it has emptied. *)
LEMMA GetBound ==
  ASSUME TypeOK, NEW i \in Ids, NEW got \in SUBSET Slots, Get(i, got),
         \A j \in Ids : Cardinality(cache[j]) <= FlushThreshold
  PROVE  \A j \in Ids : /\ Cardinality(cache'[j]) <= FlushThreshold
                        /\ j # i => cache'[j] = cache[j]
<1>1. cache \in [Ids -> SUBSET Slots] /\ cache[i] \in SUBSET Slots
  BY DEF TypeOK
<1> DEFINE refills == /\ i \in cached
                      /\ Cardinality(got \ cache[i]) > 0
                      /\ CacheSize + Cardinality(got \ cache[i]) <= Cardinality(common)
<1>2. PICK fill \in IF refills THEN kSubset(CacheSize, common \ got) ELSE {{}} :
        cache' = [cache EXCEPT ![i] = (cache[i] \ got) \cup fill]
  BY <1>1 DEF Get
<1>3. CASE refills
  <2>1. got \ cache[i] # {}
    BY <1>3, FS_EmptySet
  <2>2. cache[i] \ got = {}
    BY <2>1 DEF Get
  <2>3. Cardinality(fill) = CacheSize
    BY <1>3 DEF kSubset
  <2>4. cache' = [cache EXCEPT ![i] = fill]
    BY <1>2, <2>2
  <2> QED
    BY <1>1, <2>3, <2>4, Threshold
<1>4. CASE ~ refills
  <2>1. cache' = [cache EXCEPT ![i] = cache[i] \ got]
    BY <1>2, <1>4
  <2>2. Cardinality(cache[i] \ got) <= Cardinality(cache[i])
        /\ Cardinality(cache[i] \ got) \in Nat /\ Cardinality(cache[i]) \in Nat
    BY <1>1, SlotSets
  <2> QED
    BY <1>1, <2>1, <2>2, Threshold
<1> QED
  BY <1>3, <1>4

(* Slots that are wasted are slots. *)
LEMMA WasteType ==
  ASSUME TypeOK
  PROVE  Waste \in SUBSET Slots
BY DEF TypeOK, Waste, Idle

(* A step after which no more is wasted, and nobody has left. *)
LEMMA SameWaste ==
  ASSUME TypeOK, BoundInv, Waste' \subseteq Waste, Left' = Left,
         \A t \in Threads : pc[t] = "dead" => pc'[t] = "dead",
         \A i \in Ids : Cardinality(cache'[i]) <= FlushThreshold
  PROVE  BoundInv'
<1>1. /\ Waste \in SUBSET Slots
      /\ Cardinality(Waste') <= Cardinality(Waste)
      /\ Cardinality(Waste') \in Nat /\ Cardinality(Waste) \in Nat
  BY WasteType, SlotSets
<1>2. Cardinality(Left) \in Nat /\ FlushThreshold \in Nat
  BY Threshold, FS_CardinalityType DEF BoundInv
<1>3. FlushThreshold * Cardinality(Left) \in Nat
  BY <1>2
<1>4. (\A t \in Threads : pc'[t] # "dead") => Cardinality(Waste) <= FlushThreshold * Cardinality(Left)
  BY DEF BoundInv
<1>5. (\A t \in Threads : pc'[t] # "dead") => Cardinality(Waste') <= FlushThreshold * Cardinality(Left)
  BY <1>1, <1>3, <1>4
<1>6. (FlushThreshold * Cardinality(Left))' = FlushThreshold * Cardinality(Left)
  BY DEF FlushThreshold
<1>7. IsFiniteSet(Left')
  BY DEF BoundInv
<1>8. (\A i \in Ids : Cardinality(cache[i]) <= FlushThreshold)'
  BY DEF FlushThreshold
<1> QED
  BY <1>5, <1>6, <1>7, <1>8 DEF BoundInv

(* A thread that works on the cache of its own id wastes nothing. *)
LEMMA OwnCacheWaste ==
  ASSUME TypeOK, IdsInv, BoundInv, NEW t \in Threads, pc[t] = "run", pc' = pc, ids' = ids,
         lost' = lost, NEW i \in Ids, ids[t] = {i},
         \A j \in Ids : /\ Cardinality(cache'[j]) <= FlushThreshold
                        /\ j # i => cache'[j] = cache[j]
  PROVE  BoundInv'
<1>1. Idle' = Idle /\ Left' = Left /\ i \notin Idle
  BY DEF Idle, Left
<1>2. \A j \in Idle : cache'[j] = cache[j]
  BY <1>1 DEF Idle
<1>3. Waste' = Waste
  BY <1>1, <1>2 DEF Waste
<1> QED
  BY <1>1, <1>3, SameWaste

(* Every step keeps the bounds. *)
LEMMA BoundStep ==
  ASSUME TypeOK, IdsInv, OwnInv, BoundInv, [Next]_vars
  PROVE  BoundInv'
<1> USE DEF At, Goto
<1>0. pc \in [Threads -> Labels] /\ ids \in [Threads -> SUBSET Ids]
      /\ cache \in [Ids -> SUBSET Slots]
  BY DEF TypeOK
<1>a. \A i \in Ids : Cardinality(cache[i]) <= FlushThreshold
  BY DEF BoundInv
<1>1. ASSUME NEW t \in Threads, Enter(t)
      PROVE  BoundInv'
  <2>1. /\ pc[t] = "out" /\ pc' = [pc EXCEPT ![t] = "lock"] /\ cache' = cache /\ lost' = lost
        /\ \A u \in Threads : u # t => ids'[u] = ids[u]
    BY <1>0, <1>1 DEF Enter, Id!Grant, slotVars
  <2>2. Idle' = Idle /\ Left' = Left
    BY <1>0, <2>1 DEF Idle, Left
  <2>3. Waste' = Waste
    BY <2>1, <2>2 DEF Waste
  <2> QED
    BY <1>0, <1>a, <2>1, <2>2, <2>3, SameWaste
<1>2. ASSUME NEW t \in Threads, SetupStep(t) \/ CreatePool(t)
      PROVE  BoundInv'
  <2>1. ids' = ids /\ cache' = cache /\ lost' = lost
    BY <1>2 DEF SetupStep, CreatePool, Lock, Lookup, Reserve, CreateFails, Abort, idVars, slotVars
  <2>2. CASE \A u \in Threads : pc'[u] = "dead"
    <3>1. t \in Threads /\ pc'[t] = "dead"
      BY <2>2
    <3>2. Left' = {}
      BY <2>2 DEF Left
    <3>3. (\A i \in Ids : Cardinality(cache[i]) <= FlushThreshold)'
      BY <1>a, <2>1 DEF FlushThreshold
    <3> QED
      BY <3>1, <3>2, <3>3, FS_EmptySet DEF BoundInv
  <2>3. CASE ~ Abort(t)
    <3>1. PICK l \in {"lookup", "reserve", "create", "cache", "panic"} : pc' = [pc EXCEPT ![t] = l]
      BY <1>2, <2>3 DEF SetupStep, CreatePool, Lock, Lookup, Reserve, CreateFails
    <3>2. pc[t] \in {"lock", "lookup", "reserve", "create"}
      BY <1>2, <2>3 DEF SetupStep, CreatePool, Lock, Lookup, Reserve, CreateFails
    <3>3. \A u \in Threads : pc[u] \in {"run", "panic"} => pc'[u] = pc[u]
      BY <1>0, <3>1, <3>2
    <3>4. Idle' \subseteq Idle
      BY <2>1, <3>3 DEF Idle
    <3>5. Left' = Left
      BY <1>0, <3>1, <3>2 DEF Left
    <3>6. Waste' \subseteq Waste
      BY <2>1, <3>4 DEF Waste
    <3> QED
      BY <1>0, <1>a, <2>1, <3>1, <3>2, <3>5, <3>6, SameWaste
  <2> QED
    BY <2>2, <2>3 DEF Abort
<1>3. ASSUME NEW t \in Threads, CreateCache(t)
      PROVE  BoundInv'
  <2>1. PICK i \in Ids : i = IdOf(t) /\ ids[t] = {i}
    BY <1>3, IdOfThread DEF CreateCache, Entered
  <2>2. /\ pc[t] = "cache" /\ pc' = [pc EXCEPT ![t] = "run"] /\ ids' = ids
        /\ lost' = lost \cup cache[i] /\ cache' = [cache EXCEPT ![i] = {}]
    BY <1>3, <2>1 DEF CreateCache, idVars
  <2>3. i \in Idle
    BY <2>1, <2>2 DEF Idle, IdsInv
  <2>4. Idle' \subseteq Idle /\ Left' = Left
    BY <1>0, <2>2 DEF Idle, Left
  <2>5. Waste' \subseteq Waste
    BY <1>0, <2>2, <2>3, <2>4 DEF Waste
  <2>6. \A j \in Ids : Cardinality(cache'[j]) <= FlushThreshold
    BY <1>0, <1>a, <2>2, FS_EmptySet, Threshold
  <2> QED
    BY <1>0, <2>2, <2>4, <2>5, <2>6, SameWaste
<1>4. ASSUME NEW t \in Threads, Exit(t)
      PROVE  BoundInv'
  <2>1. PICK i \in Ids : ids[t] = {i}
    BY <1>4, IdOfThread DEF Exit, Entered
  <2>2. /\ pc[t] = "run" /\ pc' = [pc EXCEPT ![t] = "gone"] /\ cache' = cache /\ lost' = lost
        /\ ids' = [ids EXCEPT ![t] = {}]
    BY <1>4 DEF Exit, Id!GiveUp, slotVars
  <2>3. Idle' \subseteq Idle \cup {i}
    BY <1>0, <2>1, <2>2 DEF Idle
  <2>4. Waste' \subseteq Waste \cup cache[i]
    BY <2>2, <2>3 DEF Waste
  <2>5. Left' = Left \cup {t} /\ t \notin Left
    BY <1>0, <2>2 DEF Left
  <2>6. IsFiniteSet(Left') /\ Cardinality(Left') = Cardinality(Left) + 1 /\ Cardinality(Left) \in Nat
    BY <2>5, FS_AddElement, FS_CardinalityType DEF BoundInv
  <2>7. Cardinality(Waste') <= Cardinality(Waste) + FlushThreshold
        /\ Cardinality(Waste') \in Nat /\ Cardinality(Waste) \in Nat
    <3>1. Waste \in SUBSET Slots /\ cache[i] \in SUBSET Slots /\ Waste \cup cache[i] \in SUBSET Slots
      BY <1>0, WasteType
    <3>2. /\ IsFiniteSet(Waste) /\ IsFiniteSet(cache[i])
          /\ Cardinality(Waste) \in Nat /\ Cardinality(cache[i]) \in Nat
      BY <3>1, SlotSets
    <3>3. Cardinality(Waste \cup cache[i]) <= Cardinality(Waste) + Cardinality(cache[i])
      <4>1. Cardinality(Waste \cap cache[i]) \in Nat
        BY <3>1, SlotSets
      <4>2. Cardinality(Waste \cup cache[i])
              = Cardinality(Waste) + Cardinality(cache[i]) - Cardinality(Waste \cap cache[i])
        BY <3>2, FS_Union
      <4> QED
        BY <3>2, <4>1, <4>2
    <3>4. /\ Cardinality(Waste') <= Cardinality(Waste \cup cache[i])
          /\ Cardinality(Waste') \in Nat /\ Cardinality(Waste \cup cache[i]) \in Nat
      BY <2>4, <3>1, SlotSets
    <3> QED
      BY <1>a, <3>2, <3>3, <3>4, Threshold
  <2>8. FlushThreshold * Cardinality(Left') = FlushThreshold * Cardinality(Left) + FlushThreshold
    BY <2>6, Threshold
  <2>9. (\A u \in Threads : pc'[u] # "dead") => \A u \in Threads : pc[u] # "dead"
    BY <1>0, <2>2
  <2>10. (\A u \in Threads : pc'[u] # "dead") =>
            Cardinality(Waste') <= FlushThreshold * Cardinality(Left')
    <3>1. FlushThreshold * Cardinality(Left) \in Nat /\ FlushThreshold \in Nat
      BY <2>6, Threshold
    <3> HIDE <2>4
    <3>2. (\A u \in Threads : pc'[u] # "dead") => Cardinality(Waste) <= FlushThreshold * Cardinality(Left)
      BY <2>9 DEF BoundInv
    <3> QED
      BY <2>7, <2>8, <3>1, <3>2
  <2>11. (\A j \in Ids : Cardinality(cache[j]) <= FlushThreshold)'
    BY <1>a, <2>2 DEF FlushThreshold
  <2>12. (FlushThreshold * Cardinality(Left))' = FlushThreshold * Cardinality(Left')
    BY DEF FlushThreshold
  <2> QED
    BY <2>6, <2>10, <2>11, <2>12 DEF BoundInv
<1>5. ASSUME NEW t \in Threads, NEW k \in Bursts, Allocate(t, k)
      PROVE  BoundInv'
  <2>1. PICK i \in Ids : i = IdOf(t) /\ ids[t] = {i}
    BY <1>5, IdOfThread DEF Allocate, Entered
  <2>2. PICK got \in kSubset(k, common \cup cache[i]) : Get(i, got)
    BY <1>5, <2>1 DEF Allocate
  <2>3. got \in SUBSET Slots
    BY DEF kSubset, TypeOK
  <2> QED
    BY <1>5, <1>a, <2>1, <2>2, <2>3, GetBound, OwnCacheWaste DEF Allocate, idVars
<1>6. ASSUME NEW t \in Threads, NEW s \in Slots, Deallocate(t, s)
      PROVE  BoundInv'
  <2>1. PICK i \in Ids : i = IdOf(t) /\ ids[t] = {i}
    BY <1>6, IdOfThread DEF Deallocate, Entered
  <2> QED
    BY <1>6, <1>a, <2>1, PutBound, OwnCacheWaste DEF Deallocate, idVars
<1>7. ASSUME NEW t \in Threads, NEW s \in Slots, NEW i \in Ids, TxDone(t, s, i)
      PROVE  BoundInv'
  <2>1. ids[t] = {<<s, i>>[2]}
    BY <1>7 DEF TxDone, OwnInv
  <2>2. ids[t] = {i}
    BY <2>1
  <2> QED
    BY <1>7, <1>a, <2>2, PutBound, OwnCacheWaste DEF TxDone, idVars
<1>8. ASSUME cache' = cache, lost' = lost, ids' = ids,
             \A u \in Threads : pc[u] = "dead" => pc'[u] = "dead",
             \A u \in Threads : pc[u] = "gone" <=> pc'[u] = "gone",
             \A u \in Threads : pc[u] \in {"run", "panic"} <=> pc'[u] \in {"run", "panic"}
      PROVE  BoundInv'
  <2>1. Idle' = Idle /\ Left' = Left
    BY <1>8 DEF Idle, Left
  <2>2. Waste' = Waste
    BY <1>8, <2>1 DEF Waste
  <2> QED
    BY <1>8, <1>a, <2>1, <2>2, SameWaste
<1>9. ASSUME NEW t \in Threads, NEW k \in Bursts, AllocateFails(t, k)
      PROVE  BoundInv'
  BY <1>0, <1>8, <1>9 DEF AllocateFails, idVars, slotVars
<1>10. ASSUME NEW t \in Threads, NEW s \in Slots, Send(t, s)
       PROVE  BoundInv'
  BY <1>8, <1>10 DEF Send, idVars
<1>11. ASSUME NEW i \in Ids, FreeId(i)
       PROVE  BoundInv'
  BY <1>8, <1>11 DEF FreeId, Id!Free, slotVars
<1>12. CASE UNCHANGED vars
  BY <1>8, <1>12 DEF vars
<1> QED
  BY <1>1, <1>2, <1>3, <1>4, <1>5, <1>6, <1>7, <1>9, <1>10, <1>11, <1>12, StepCases DEF SlotStep

-----------------------------------------------------------------------------
(* Only an id with a cache gets slots into it: put and the refill of get   *)
(* look at the pointer first, and create_cache empties what it replaces.   *)
LEMMA CachedStep ==
  ASSUME TypeOK, IdsInv, CachedInv, [Next]_vars
  PROVE  CachedInv'
<1> USE DEF At, Goto
<1>0. cache \in [Ids -> SUBSET Slots] /\ cached \subseteq Ids
  BY DEF TypeOK
<1>1. ASSUME NEW t \in Threads, CreateCache(t)
      PROVE  CachedInv'
  <2>1. IdOf(t) \in Ids
    BY <1>1, IdOfThread DEF CreateCache, Entered
  <2> QED
    BY <1>0, <1>1, <2>1 DEF CreateCache, CachedInv
<1>2. ASSUME NEW i \in Ids, NEW s \in Slots, Put(i, s), cached' = cached
      PROVE  CachedInv'
  BY <1>0, <1>2 DEF Put, CachedInv
<1>3. ASSUME NEW t \in Threads, NEW k \in Bursts, Allocate(t, k)
      PROVE  CachedInv'
  <2>1. IdOf(t) \in Ids
    BY <1>3, IdOfThread DEF Allocate, Entered
  <2>2. PICK got \in kSubset(k, common \cup cache[IdOf(t)]) : Get(IdOf(t), got)
    BY <1>3 DEF Allocate
  <2>3. cached' = cached
    BY <1>3 DEF Allocate
  <2>4. IdOf(t) \notin cached => cache' = [cache EXCEPT ![IdOf(t)] = @ \ got]
    BY <1>0, <2>2 DEF Get
  <2>5. \A j \in Ids : j # IdOf(t) => cache'[j] = cache[j]
    BY <1>0, <2>2 DEF Get
  <2> QED
    BY <1>0, <2>1, <2>3, <2>4, <2>5 DEF CachedInv
<1>4. ASSUME NEW t \in Threads, NEW s \in Slots,
             Deallocate(t, s) \/ \E i \in Ids : TxDone(t, s, i)
      PROVE  CachedInv'
  <2>1. CASE Deallocate(t, s)
    <3>1. IdOf(t) \in Ids
      BY <2>1, IdOfThread DEF Deallocate, Entered
    <3> QED
      BY <1>2, <2>1, <3>1 DEF Deallocate
  <2>2. CASE \E i \in Ids : TxDone(t, s, i)
    BY <1>2, <2>2 DEF TxDone
  <2> QED
    BY <1>4, <2>1, <2>2
<1>5. CASE UNCHANGED <<cached, cache>>
  BY <1>5 DEF CachedInv
<1>6. ASSUME NEW t \in Threads, Enter(t) \/ Exit(t) \/ SetupStep(t) \/ CreatePool(t)
      PROVE  CachedInv'
  BY <1>5, <1>6 DEF Enter, Exit, SetupStep, Lock, Lookup, Reserve, CreateFails, Abort, CreatePool,
                    slotVars
<1>7. ASSUME NEW t \in Threads, NEW s \in Slots, Send(t, s)
      PROVE  CachedInv'
  BY <1>5, <1>7 DEF Send
<1>8. ASSUME NEW t \in Threads, NEW k \in Bursts, AllocateFails(t, k)
      PROVE  CachedInv'
  BY <1>5, <1>8 DEF AllocateFails, slotVars
<1>9. ASSUME NEW i \in Ids, FreeId(i)
      PROVE  CachedInv'
  BY <1>5, <1>9 DEF FreeId, slotVars
<1>10. CASE UNCHANGED vars
  BY <1>5, <1>10 DEF vars
<1> QED
  BY <1>1, <1>3, <1>4, <1>6, <1>7, <1>8, <1>9, <1>10, StepCases DEF SlotStep

(* The process starts with no pool and no thread in it. *)
LEMMA InitIInv == Init => IInv
<1> SUFFICES ASSUME Init
             PROVE  IInv
  OBVIOUS
<1>1. TypeOK
  BY MemoryAssumption DEF Init, TypeOK, Labels
<1>2. IdsInv /\ GuardInv /\ OwnInv /\ SlotInv
  BY MemoryAssumption DEF Init, IdsInv, GuardInv, OwnInv, SlotInv, Apart, Entered
<1>3. Left = {} /\ Waste = {}
  <2>1. \A i \in Idle : cache[i] = {}
    BY DEF Init, Idle
  <2>2. UNION {cache[i] : i \in Idle} = {}
    BY <2>1
  <2> QED
    BY <2>2 DEF Init, Left, Waste
<1>4. IsFiniteSet({}) /\ Cardinality({}) = 0
  BY FS_EmptySet
<1>5. /\ \A i \in Ids : Cardinality(cache[i]) <= FlushThreshold
      /\ CachedInv
  BY <1>4, Threshold DEF Init, CachedInv
<1>6. Cardinality(Waste) <= FlushThreshold * Cardinality(Left)
  BY <1>3, <1>4, Threshold
<1> QED
  BY <1>1, <1>2, <1>3, <1>4, <1>5, <1>6 DEF IInv, BoundInv

(* The invariant holds as long as the process runs. *)
THEOREM Invariance == Spec => []IInv
<1>1. IInv /\ [Next]_vars => IInv'
  BY TypeStep, IdsStep, GuardStep, OwnStep, SlotInvStep, BoundStep, CachedStep DEF IInv
<1> QED
  BY InitIInv, <1>1, PTL DEF Spec

(* No slot is ever allocated to two threads, freed twice, in two caches or *)
(* forgotten: allocate, deallocate, send, the callback of the driver and   *)
(* create_cache move slots, in any interleaving, without a lock.           *)
THEOREM SlotsOneHome == Spec => []OneHome
<1>1. IInv => OneHome
  <2> SUFFICES ASSUME IInv, zone = "ready", NEW s \in Slots
               PROVE  \E h \in Homes(s) : Homes(s) = {h}
    BY DEF OneHome
  <2>1. \A g, h \in Homes(s) : g = h
    <3>0. \A t \in Threads : sent[t] \in SUBSET (Slots \X Ids)
      BY DEF IInv, TypeOK
    <3> SUFFICES ASSUME NEW g \in Homes(s), NEW h \in Homes(s)
                 PROVE  g = h
      OBVIOUS
    <3> DEFINE Place(x) ==
          \/ x = <<"ring", s>> /\ s \in common
          \/ x = <<"lost", s>> /\ s \in lost
          \/ \E i \in Ids : x = <<"cache", i>> /\ s \in cache[i]
          \/ \E t \in Threads : x = <<"use", t>> /\ s \in use[t]
          \/ \E t \in Threads, i \in Ids : x = <<"sent", <<t, i>>>> /\ <<s, i>> \in sent[t]
    <3>1. ASSUME NEW x \in Homes(s)
          PROVE  Place(x)
      <4>1. \/ x \in {<<"ring", z>> : z \in common \cap {s}} \cup {<<"lost", z>> : z \in lost \cap {s}}
            \/ x \in {<<"cache", i>> : i \in {j \in Ids : s \in cache[j]}}
            \/ x \in {<<"use", t>> : t \in {u \in Threads : s \in use[u]}}
            \/ x \in {<<"sent", z>> : z \in {y \in Threads \X Ids : <<s, y[2]>> \in sent[y[1]]}}
        BY <3>1 DEF Homes
      <4>2. CASE x \in {<<"sent", z>> : z \in {y \in Threads \X Ids : <<s, y[2]>> \in sent[y[1]]}}
        <5>1. PICK z \in Threads \X Ids : x = <<"sent", z>> /\ <<s, z[2]>> \in sent[z[1]]
          BY <4>2
        <5>2. z = <<z[1], z[2]>> /\ z[1] \in Threads /\ z[2] \in Ids
          OBVIOUS
        <5>3. x = <<"sent", <<z[1], z[2]>>>>
          BY <5>1, <5>2
        <5> QED
          BY <5>1, <5>2, <5>3
      <4> QED
        BY <4>1, <4>2
    <3>2. Place(g) /\ Place(h)
      BY <3>1
    <3>3. ASSUME NEW t \in Threads, NEW i \in Ids, <<s, i>> \in sent[t]
          PROVE  /\ s \notin common /\ s \notin lost
                 /\ \A j \in Ids : s \notin cache[j]
                 /\ \A u \in Threads : s \notin use[u]
                 /\ \A u \in Threads, j \in Ids : <<s, j>> \in sent[u] => t = u /\ i = j
      <4>1. <<s, i>>[1] = s /\ \A j \in Ids : <<s, j>>[1] = s
        OBVIOUS
      <4> QED
        BY <3>3, <4>1 DEF IInv, SlotInv, Apart
    <3>4. CASE \E t \in Threads, i \in Ids : g = <<"sent", <<t, i>>>> /\ <<s, i>> \in sent[t]
      BY <3>2, <3>3, <3>4
    <3>5. CASE \E t \in Threads, i \in Ids : h = <<"sent", <<t, i>>>> /\ <<s, i>> \in sent[t]
      BY <3>2, <3>3, <3>5
    <3>6. Apart
      BY DEF IInv, SlotInv
    <3>7. CASE g = <<"ring", s>> /\ s \in common
      BY <3>2, <3>5, <3>6, <3>7 DEF Apart
    <3>8. CASE g = <<"lost", s>> /\ s \in lost
      BY <3>2, <3>5, <3>6, <3>8 DEF Apart
    <3>9. ASSUME NEW i \in Ids, g = <<"cache", i>>, s \in cache[i]
          PROVE  g = h
      BY <3>2, <3>5, <3>6, <3>9 DEF Apart
    <3>10. ASSUME NEW t \in Threads, g = <<"use", t>>, s \in use[t]
           PROVE  g = h
      BY <3>2, <3>5, <3>6, <3>10 DEF Apart
    <3> QED
      BY <3>2, <3>4, <3>7, <3>8, <3>9, <3>10
  <2>2. Homes(s) # {}
    <3>1. Somewhere(s)
      BY DEF IInv, SlotInv
    <3>2. ASSUME NEW t \in Threads, NEW i \in Ids, <<s, i>> \in sent[t]
          PROVE  Homes(s) # {}
      <4>1. <<t, i>> \in {y \in Threads \X Ids : <<s, y[2]>> \in sent[y[1]]}
        BY <3>2
      <4>2. <<"sent", <<t, i>>>> \in {<<"sent", x>> : x \in {y \in Threads \X Ids : <<s, y[2]>> \in sent[y[1]]}}
        BY <4>1
      <4>3. <<"sent", <<t, i>>>> \in Homes(s)
        BY <4>2 DEF Homes
      <4> QED
        BY <4>3
    <3> QED
      BY <3>1, <3>2 DEF Somewhere, Homes
  <2> QED
    BY <2>1, <2>2
<1> QED
  BY <1>1, Invariance, PTL

(* Every thread reaches the pool only once it is complete, because         *)
(* get_or_create looks the zone up and fills it in under GUARD.            *)
THEOREM PoolIsReady == Spec => []PoolReady
<1>1. IInv => PoolReady
  BY DEF IInv, GuardInv, PoolReady
<1> QED
  BY <1>1, Invariance, PTL

(* Who has left and who is idle bound what is out of reach. *)
LEMMA LossFollows == IInv => LossBounded
<1> SUFFICES ASSUME IInv, \A t \in Threads : pc[t] # "dead"
             PROVE  Cardinality(lost \cup UNION {cache[i] : i \in {j \in Ids : \A t \in Threads : j \notin ids[t]}})
                      <= FlushThreshold * Cardinality({t \in Threads : pc[t] = "gone"})
  BY DEF LossBounded
<1> DEFINE Far == lost \cup UNION {cache[i] : i \in {j \in Ids : \A t \in Threads : j \notin ids[t]}}
<1>1. Far \subseteq Waste
  BY DEF Waste, Idle
<1>2. Waste \subseteq Slots
  BY WasteType DEF IInv
<1>3. Cardinality(Far) <= Cardinality(Waste) /\ Cardinality(Far) \in Nat /\ Cardinality(Waste) \in Nat
  BY <1>1, <1>2, SlotSets
<1>4. Cardinality(Waste) <= FlushThreshold * Cardinality(Left)
  BY DEF IInv, BoundInv
<1>5. FlushThreshold * Cardinality(Left) \in Nat
  BY FS_CardinalityType, Threshold DEF IInv, BoundInv
<1> QED
  BY <1>3, <1>4, <1>5 DEF Left

(* What threads that left take with them, in caches that nobody can reach  *)
(* or that create_cache overwrites, is at most one full cache each.        *)
THEOREM LossIsBounded == Spec => []LossBounded
BY LossFollows, Invariance, PTL

(* The elements of a finite set can be numbered. *)
LEMMA Numbering ==
  ASSUME NEW S, IsFiniteSet(S), NEW n \in Nat, Cardinality(S) <= n
  PROVE  \E g \in [S -> 1 .. n] : \A x, y \in S : g[x] = g[y] => x = y
<1> DEFINE c == Cardinality(S)
<1>1. c \in Nat /\ c <= n /\ ExistsBijection(1 .. c, S)
  BY FS_CardinalityType
<1> HIDE DEF c
<1>2. PICK b : b \in Bijection(1 .. c, S)
  BY <1>1 DEF ExistsBijection
<1>3. b \in [1 .. c -> S] /\ \A x \in S : \E k \in 1 .. c : b[k] = x
  BY <1>2 DEF Bijection, Surjection
<1> DEFINE g == [x \in S |-> CHOOSE k \in 1 .. c : b[k] = x]
<1>4. \A x \in S : g[x] \in 1 .. c /\ b[g[x]] = x
  BY <1>3
<1>5. g \in [S -> 1 .. n]
  <2>1. 1 .. c \subseteq 1 .. n
    BY <1>1
  <2>2. g = [x \in S |-> g[x]]
    OBVIOUS
  <2> HIDE DEF g
  <2> QED
    BY <1>4, <2>1, <2>2
<1>6. \A x, y \in S : g[x] = g[y] => x = y
  <2> HIDE DEF g
  <2> QED
    BY <1>4
<1> HIDE DEF g
<1> QED
  BY <1>5, <1>6

(* Sets of at most n elements each, one per element of C, have together at *)
(* most n times as many as C: number the elements of each of them.         *)
LEMMA UnionBound ==
  ASSUME NEW C, IsFiniteSet(C), NEW n \in Nat, NEW f,
         \A i \in C : IsFiniteSet(f[i]) /\ Cardinality(f[i]) <= n
  PROVE  /\ IsFiniteSet(UNION {f[i] : i \in C})
         /\ Cardinality(UNION {f[i] : i \in C}) <= n * Cardinality(C)
<1> DEFINE All == UNION {f[i] : i \in C}
           Numbers(i, g) == g \in [f[i] -> 1 .. n] /\ \A x, y \in f[i] : g[x] = g[y] => x = y
           Number(i) == CHOOSE g : Numbers(i, g)
           In(x) == CHOOSE i \in C : x \in f[i]
           Place == [x \in All |-> <<In(x), Number(In(x))[x]>>]
<1>1. \A i \in C : \E g : Numbers(i, g)
  BY Numbering
<1>2. \A i \in C : Numbers(i, Number(i))
  <2> HIDE DEF Numbers
  <2> QED
    BY <1>1
<1>3. \A x \in All : In(x) \in C /\ x \in f[In(x)]
  OBVIOUS
<1> HIDE DEF Number, In
<1>4. \A x \in All : Number(In(x))[x] \in 1 .. n
  BY <1>2, <1>3
<1>5. \A x, y \in All : In(x) = In(y) /\ Number(In(x))[x] = Number(In(y))[y] => x = y
  BY <1>2, <1>3
<1> HIDE DEF Numbers, All
<1>6. \A x \in All : Place[x] = <<In(x), Number(In(x))[x]>>
  OBVIOUS
<1>7. Place \in [All -> C \X (1 .. n)]
  BY <1>3, <1>4
<1>8. \A x, y \in All : Place[x] = Place[y] => x = y
  BY <1>5, <1>6
<1> HIDE DEF Place
<1>9. Place \in Injection(All, C \X (1 .. n))
  BY <1>7, <1>8 DEF Injection, IsInjective
<1>10. IsFiniteSet(1 .. n) /\ Cardinality(1 .. n) = n
  BY FS_Interval
<1>11. /\ IsFiniteSet(C \X (1 .. n))
       /\ Cardinality(C \X (1 .. n)) = Cardinality(C) * n
  BY <1>10, FS_Product
<1>12. Cardinality(C) \in Nat
  BY FS_CardinalityType
<1>13. IsFiniteSet(All) /\ Cardinality(All) <= Cardinality(C) * n
  BY <1>9, <1>11, FS_Injection
<1>14. Cardinality(C) * n = n * Cardinality(C)
  BY <1>12
<1> QED
  BY <1>13, <1>14 DEF All

(* Two sets have together at most as many slots as they have each. *)
LEMMA SlotsTogether ==
  ASSUME NEW A \in SUBSET Slots, NEW B \in SUBSET Slots
  PROVE  Cardinality(A \cup B) <= Cardinality(A) + Cardinality(B)
<1>1. A \cap B \in SUBSET A
  OBVIOUS
<1>2. IsFiniteSet(A) /\ IsFiniteSet(B) /\ Cardinality(A \cap B) \in Nat
      /\ Cardinality(A) \in Nat /\ Cardinality(B) \in Nat
  BY <1>1, SlotSets
<1>3. Cardinality(A \cup B) = Cardinality(A) + Cardinality(B) - Cardinality(A \cap B)
  BY <1>2, FS_Union
<1> QED
  BY <1>2, <1>3

(* MemoryError::Exhausted is returned only for a pool that is all but used *)
(* up: what a thread cannot reach is with other threads or adapters, lost, *)
(* or in at most one full cache per other id.                              *)
THEOREM ExhaustionExplained == Spec => []ExhaustedForCause
<1>1. IInv => ExhaustedForCause
  <2> SUFFICES ASSUME IInv, NEW t \in Threads, NEW k \in Bursts, pc[t] = "run", ~ Fits(IdOf(t), k)
               PROVE  Cardinality(UNION {Taken(u) : u \in Threads}) + Cardinality(lost)
                        + FlushThreshold * Cardinality(cached \ {IdOf(t)}) > Cardinality(Slots) - k
    BY LossFollows DEF ExhaustedForCause
  <2> DEFINE i == IdOf(t)
             others == cached \ {i}
             away == UNION {Taken(u) : u \in Threads}
             parked == UNION {cache[j] : j \in others}
             here == common \cup cache[i]
  <2>1. TypeOK /\ SlotInv /\ CachedInv /\ BoundInv
    BY DEF IInv
  <2>2. zone = "ready" /\ i \in Ids
    BY IdOfThread DEF IInv, GuardInv, Entered
  <2>3. /\ common \in SUBSET Slots /\ lost \in SUBSET Slots /\ cached \subseteq Ids
        /\ \A j \in Ids : cache[j] \in SUBSET Slots
        /\ \A u \in Threads : use[u] \in SUBSET Slots /\ sent[u] \in SUBSET (Slots \X Ids)
    BY <2>1 DEF TypeOK
  <2>4. away \in SUBSET Slots /\ parked \in SUBSET Slots /\ here \in SUBSET Slots
    <3>1. \A u \in Threads : Taken(u) \subseteq Slots
      BY <2>3 DEF Taken
    <3> QED
      BY <2>2, <2>3, <3>1
  <2>5. Slots \subseteq here \cup ((away \cup lost) \cup parked)
    <3> SUFFICES ASSUME NEW s \in Slots
                 PROVE  s \in here \cup ((away \cup lost) \cup parked)
      OBVIOUS
    <3>1. Somewhere(s)
      BY <2>1, <2>2 DEF SlotInv
    <3>2. ASSUME NEW j \in Ids, s \in cache[j]
          PROVE  s \in here \cup parked
      <4>1. j = i \/ j \in others
        BY <2>1, <3>2 DEF CachedInv
      <4> QED
        BY <3>2, <4>1
    <3>3. ASSUME NEW u \in Threads, s \in use[u] \/ \E j \in Ids : <<s, j>> \in sent[u]
          PROVE  s \in away
      <4>1. ASSUME NEW j \in Ids, <<s, j>> \in sent[u]
            PROVE  s \in {x[1] : x \in sent[u]}
        <5>1. <<s, j>>[1] = s
          OBVIOUS
        <5> QED
          BY <4>1, <5>1, Zenon
      <4>2. s \in Taken(u)
        BY <3>3, <4>1 DEF Taken
      <4> QED
        BY <4>2
    <3> QED
      BY <3>1, <3>2, <3>3 DEF Somewhere
  <2>6. Slots = here \cup ((away \cup lost) \cup parked)
    BY <2>3, <2>4, <2>5
  <2>7. IsFiniteSet(others) /\ Cardinality(others) \in Nat
    BY <2>3, MemoryAssumption, FS_Subset, FS_CardinalityType
  <2>8. Cardinality(parked) <= FlushThreshold * Cardinality(others)
    <3>1. \A j \in others : IsFiniteSet(cache[j]) /\ Cardinality(cache[j]) <= FlushThreshold
      BY <2>1, <2>3, SlotSets DEF BoundInv
    <3> QED
      BY <2>7, <3>1, Threshold, UnionBound
  <2>9. Cardinality(here) < k
    <3>1. Cardinality(here) <= Cardinality(common) + Cardinality(cache[i])
      BY <2>2, <2>3, SlotsTogether
    <3>2. Cardinality(common) \in Nat /\ Cardinality(cache[i]) \in Nat /\ Cardinality(here) \in Nat
          /\ k \in Nat
      BY <2>2, <2>3, <2>4, SlotSets, MemoryAssumption
    <3> QED
      BY <3>1, <3>2 DEF Fits
  <2>10. /\ Cardinality(Slots) <= Cardinality(here) + Cardinality((away \cup lost) \cup parked)
         /\ Cardinality((away \cup lost) \cup parked) <= Cardinality(away \cup lost) + Cardinality(parked)
         /\ Cardinality(away \cup lost) <= Cardinality(away) + Cardinality(lost)
    <3>1. away \cup lost \in SUBSET Slots /\ (away \cup lost) \cup parked \in SUBSET Slots
      BY <2>3, <2>4
    <3> HIDE DEF here, away, parked
    <3> QED
      BY <2>3, <2>4, <2>6, <3>1, SlotsTogether
  <2>11. /\ Cardinality(here) \in Nat /\ Cardinality(away) \in Nat /\ Cardinality(lost) \in Nat
         /\ Cardinality(parked) \in Nat /\ Cardinality(away \cup lost) \in Nat
         /\ Cardinality((away \cup lost) \cup parked) \in Nat /\ Cardinality(Slots) \in Nat
         /\ k \in Nat /\ FlushThreshold * Cardinality(others) \in Nat
    <3>1. away \cup lost \in SUBSET Slots /\ (away \cup lost) \cup parked \in SUBSET Slots
      BY <2>3, <2>4
    <3>2. FlushThreshold * Cardinality(others) \in Nat
      BY <2>7, Threshold
    <3> HIDE DEF here, away, parked, others
    <3> QED
      BY <2>3, <2>4, <3>1, <3>2, SlotSets, MemoryAssumption
  <2> HIDE DEF here, away, parked, others
  <2>12. Cardinality(away) + Cardinality(lost) + FlushThreshold * Cardinality(others) > Cardinality(Slots) - k
    BY <2>8, <2>9, <2>10, <2>11
  <2> QED
    BY <2>12 DEF away, others
<1> QED
  BY <1>1, Invariance, PTL

(* Every table stays indexed by ids and threads, and holds slots of the    *)
(* pool only.                                                              *)
THEOREM TypeCorrect == Spec => []TypeOK
BY Invariance, PTL DEF IInv

-----------------------------------------------------------------------------
(* A step that changes a cache is the step of one thread, on the cache of  *)
(* its own id: also the callback of the driver, which takes the id from    *)
(* the packet.                                                             *)
LEMMA CacheSteps ==
  ASSUME TypeOK, IdsInv, OwnInv, [Next]_vars
  PROVE  \/ cache' = cache
         \/ \E t \in Threads, new \in SUBSET Slots :
              /\ pc[t] \in {"cache", "run"}
              /\ cache' = [cache EXCEPT ![IdOf(t)] = new]
              /\ \A u \in Threads : u # t =>
                   pc'[u] = pc[u] /\ use'[u] = use[u] /\ sent'[u] = sent[u]
<1> USE DEF At, idVars, slotVars
<1> DEFINE Own == \E t \in Threads, new \in SUBSET Slots :
              /\ pc[t] \in {"cache", "run"}
              /\ cache' = [cache EXCEPT ![IdOf(t)] = new]
              /\ \A u \in Threads : u # t =>
                   pc'[u] = pc[u] /\ use'[u] = use[u] /\ sent'[u] = sent[u]
<1>1. ASSUME NEW t \in Threads, CreateCache(t)
      PROVE  Own
  <2>1. SlotStep(t)
    BY <1>1 DEF SlotStep
  <2>2. {} \in SUBSET Slots
    OBVIOUS
  <2>3. cache' = [cache EXCEPT ![IdOf(t)] = {}] /\ pc[t] = "cache"
    BY <1>1 DEF CreateCache
  <2> QED
    BY <2>1, <2>2, <2>3, SlotStepFrame
<1>2. ASSUME NEW t \in Threads, NEW k \in Bursts, Allocate(t, k)
      PROVE  Own
  <2>1. SlotStep(t)
    BY <1>2 DEF SlotStep
  <2>2. pc[t] = "run"
    BY <1>2 DEF Allocate
  <2>3. PICK i \in Ids, got \in SUBSET Slots, fill \in SUBSET Slots :
           /\ i = IdOf(t)
           /\ got \subseteq common \cup cache[i]
           /\ fill \subseteq common \ got
           /\ cache' = [cache EXCEPT ![i] = (cache[i] \ got) \cup fill]
           /\ common' = common \ (got \cup fill)
           /\ use' = [use EXCEPT ![t] = use[t] \cup got]
    BY <1>2, AllocateFacts
  <2>4. (cache[i] \ got) \cup fill \in SUBSET Slots
    BY DEF TypeOK
  <2> QED
    BY <2>1, <2>2, <2>3, <2>4, SlotStepFrame
<1>3. ASSUME NEW t \in Threads, NEW s \in Slots, Deallocate(t, s)
      PROVE  Own
  <2>1. SlotStep(t)
    BY <1>3 DEF SlotStep
  <2>2. pc[t] = "run" /\ Put(IdOf(t), s)
    BY <1>3 DEF Deallocate
  <2>3. IdOf(t) \in Ids
    BY <2>2, IdOfThread DEF Entered
  <2>4. PICK new \in SUBSET Slots : cache' = [cache EXCEPT ![IdOf(t)] = new]
    BY <2>2, <2>3, PutFacts
  <2> QED
    BY <2>1, <2>2, <2>4, SlotStepFrame
<1>4. ASSUME NEW t \in Threads, NEW s \in Slots, NEW i \in Ids, TxDone(t, s, i)
      PROVE  Own
  <2>1. SlotStep(t)
    BY <1>4 DEF SlotStep
  <2>2. pc[t] = "run" /\ Put(i, s) /\ ids[t] = {<<s, i>>[2]}
    BY <1>4 DEF TxDone, OwnInv
  <2>3. i = IdOf(t)
    BY <2>2, IdOfThread DEF Entered
  <2>4. PICK new \in SUBSET Slots : cache' = [cache EXCEPT ![IdOf(t)] = new]
    BY <2>2, <2>3, PutFacts
  <2> QED
    BY <2>1, <2>2, <2>4, SlotStepFrame
<1>5. ASSUME NEW t \in Threads, Enter(t) \/ Exit(t) \/ SetupStep(t) \/ CreatePool(t)
      PROVE  cache' = cache
  BY <1>5 DEF Enter, Exit, SetupStep, Lock, Lookup, Reserve, CreateFails, Abort, CreatePool
<1>6. ASSUME NEW t \in Threads, NEW s \in Slots, Send(t, s)
      PROVE  cache' = cache
  BY <1>6 DEF Send
<1>7. ASSUME NEW t \in Threads, NEW k \in Bursts, AllocateFails(t, k)
      PROVE  cache' = cache
  BY <1>7 DEF AllocateFails
<1>8. ASSUME NEW i \in Ids, FreeId(i)
      PROVE  cache' = cache
  BY <1>8 DEF FreeId
<1>9. UNCHANGED vars => cache' = cache
  BY DEF vars
<1> QED
  BY <1>1, <1>2, <1>3, <1>4, <1>5, <1>6, <1>7, <1>8, <1>9, StepCases DEF SlotStep

(* No thread touches the cache of a running thread, which allocate and     *)
(* deallocate use without a lock.                                          *)
THEOREM CachesPrivate == Spec => CachePrivacy
<1>1. IInv /\ [Next]_vars =>
        [\A t, u \in Threads :
           (t # u /\ pc[u] = "run" /\ <<pc[t], use[t], sent[t]>>' # <<pc[t], use[t], sent[t]>>)
             => cache'[IdOf(u)] = cache[IdOf(u)]]_vars
  <2> SUFFICES ASSUME IInv, [Next]_vars, NEW t \in Threads, NEW u \in Threads,
                      t # u, pc[u] = "run",
                      <<pc[t], use[t], sent[t]>>' # <<pc[t], use[t], sent[t]>>
               PROVE  cache'[IdOf(u)] = cache[IdOf(u)]
    OBVIOUS
  <2>1. IdOf(u) \in Ids /\ ids[u] = {IdOf(u)}
    BY IdOfThread DEF IInv, Entered
  <2>2. ASSUME NEW a \in Threads, NEW new \in SUBSET Slots,
               pc[a] \in {"cache", "run"},
               cache' = [cache EXCEPT ![IdOf(a)] = new],
               \A v \in Threads : v # a => pc'[v] = pc[v] /\ use'[v] = use[v] /\ sent'[v] = sent[v]
        PROVE  cache'[IdOf(u)] = cache[IdOf(u)]
    <3>1. a = t
      BY <2>2
    <3>2. IdOf(t) \in Ids /\ ids[t] = {IdOf(t)}
      BY <2>2, <3>1, IdOfThread DEF IInv, Entered
    <3>3. IdOf(t) # IdOf(u)
      BY <2>1, <3>2 DEF IInv, IdsInv
    <3>4. cache \in [Ids -> SUBSET Slots]
      BY DEF IInv, TypeOK
    <3> QED
      BY <2>1, <2>2, <3>1, <3>2, <3>3, <3>4
  <2> QED
    BY <2>2, CacheSteps DEF IInv
<1> QED
  BY <1>1, Invariance, PTL DEF Spec, CachePrivacy

-----------------------------------------------------------------------------
(* The pool as its threads see it.                                         *)

(* The slots that can be handed out. *)
Available == common \cup UNION {cache[i] : i \in Ids}

(* A slot is available in the ring and in every cache. *)
LEMMA IsAvailable ==
  ASSUME NEW s
  PROVE  s \in Available <=> s \in common \/ \E i \in Ids : s \in cache[i]
BY DEF Available

(* Creating the pool makes every slot available. *)
LEMMA CreatePoolMakes ==
  ASSUME IInv, NEW t \in Threads, CreatePool(t)
  PROVE  Pool!Make
<1>1. zone = "reserved" /\ zone' = "ready"
  BY DEF CreatePool, At, IInv, GuardInv
<1>2. Available' = Slots
  BY DEF CreatePool, IInv, TypeOK, Available
<1>3. UNCHANGED [u \in Threads |-> Taken(u)]
  BY DEF CreatePool, Taken
<1> QED
  BY <1>1, <1>2, <1>3 DEF Pool!Make, Available

(* Allocation takes available slots, from the ring or from the cache. *)
LEMMA AllocateTakes ==
  ASSUME IInv, NEW t \in Threads, NEW k \in Bursts, Allocate(t, k)
  PROVE  \E got \in SUBSET Available : Pool!Take(t, got)
<1>1. PICK i \in Ids, got \in SUBSET Slots, fill \in SUBSET Slots :
         /\ i = IdOf(t)
         /\ got \subseteq common \cup cache[i]
         /\ fill \subseteq common \ got
         /\ cache' = [cache EXCEPT ![i] = (cache[i] \ got) \cup fill]
         /\ common' = common \ (got \cup fill)
         /\ use' = [use EXCEPT ![t] = use[t] \cup got]
  BY AllocateFacts DEF IInv
<1>2. zone' = zone /\ sent' = sent
  BY DEF Allocate
<1>3. cache \in [Ids -> SUBSET Slots] /\ use \in [Threads -> SUBSET Slots]
  BY DEF IInv, TypeOK
<1>4. got \in SUBSET Available
  BY <1>1 DEF Available
<1>5. cache'[i] = (cache[i] \ got) \cup fill /\ \A j \in Ids : j # i => cache'[j] = cache[j]
  BY <1>1, <1>3
<1>6. \A j \in Ids : j # i => cache[j] \cap got = {}
  BY <1>1 DEF IInv, SlotInv, Apart
<1>7. ASSUME NEW s
      PROVE  s \in Available' <=> s \in Available \ got
  <2>1. s \in Available' <=> s \in common' \/ \E j \in Ids : s \in cache'[j]
    BY DEF Available
  <2>2. s \in Available' <=> s \in common' \/ s \in cache'[i] \/ \E j \in Ids : j # i /\ s \in cache[j]
    BY <1>5, <2>1
  <2>3. s \in Available <=> s \in common \/ s \in cache[i] \/ \E j \in Ids : j # i /\ s \in cache[j]
    BY IsAvailable
  <2> QED
    BY <1>1, <1>5, <1>6, <2>2, <2>3
<1>8. Available' = Available \ got
  BY <1>7
<1>9. [u \in Threads |-> Taken(u)]' = [[u \in Threads |-> Taken(u)] EXCEPT ![t] = @ \cup got]
  <2>1. Taken(t)' = Taken(t) \cup got
    BY <1>1, <1>2, <1>3 DEF Taken
  <2>2. \A u \in Threads : u # t => Taken(u)' = Taken(u)
    BY <1>1, <1>2, <1>3 DEF Taken
  <2> QED
    BY <2>1, <2>2
<1> QED
  BY <1>2, <1>4, <1>8, <1>9 DEF Pool!Take, Available

(* A slot that is put back is available. *)
LEMMA PutGives ==
  ASSUME TypeOK, NEW i \in Ids, NEW s \in Slots, Put(i, s)
  PROVE  Available' = Available \cup {s}
<1>1. PICK new \in SUBSET Slots :
           /\ cache' = [cache EXCEPT ![i] = new]
           /\ common' \cup new = common \cup cache[i] \cup {s}
  BY PutFacts
<1>2. cache'[i] = new /\ \A j \in Ids : j # i => cache'[j] = cache[j]
  BY <1>1 DEF TypeOK
<1>3. ASSUME NEW x
      PROVE  x \in Available' <=> x \in Available \cup {s}
  <2>1. x \in Available' <=> x \in common' \/ \E j \in Ids : x \in cache'[j]
    BY DEF Available
  <2>2. x \in Available' <=> x \in common' \/ x \in new \/ \E j \in Ids : j # i /\ x \in cache[j]
    BY <1>2, <2>1
  <2>3. x \in Available <=> x \in common \/ x \in cache[i] \/ \E j \in Ids : j # i /\ x \in cache[j]
    BY IsAvailable
  <2> QED
    BY <1>1, <2>2, <2>3
<1> QED
  BY <1>3

(* The slots an adapter has of thread t. *)
AtAdapter(t) == {x[1] : x \in sent[t]}

(* A slot that a thread puts back, or that its adapter is done with, is    *)
(* not the thread's any more.                                              *)
LEMMA PutBack ==
  ASSUME IInv, NEW t \in Threads, NEW s \in Slots,
         \/ Deallocate(t, s)
         \/ \E i \in Ids : TxDone(t, s, i)
  PROVE  s \in Taken(t) /\ Pool!Give(t, s)
<1>0. use \in [Threads -> SUBSET Slots] /\ sent \in [Threads -> SUBSET (Slots \X Ids)]
  BY DEF IInv, TypeOK
<1>1. CASE Deallocate(t, s)
  <2>1. s \in use[t] /\ Put(IdOf(t), s) /\ zone' = zone /\ sent' = sent
        /\ use' = [use EXCEPT ![t] = @ \ {s}] /\ pc[t] = "run"
    BY <1>1 DEF Deallocate, At
  <2>2. Available' = Available \cup {s}
    BY <2>1, PutGives, IdOfThread DEF IInv, Entered
  <2>3. s \notin AtAdapter(t)
    BY <2>1 DEF AtAdapter, IInv, SlotInv, Apart
  <2>4. Taken(t)' = Taken(t) \ {s} /\ \A u \in Threads : u # t => Taken(u)' = Taken(u)
    BY <1>0, <2>1, <2>3 DEF Taken, AtAdapter
  <2>5. [u \in Threads |-> Taken(u)]' = [[u \in Threads |-> Taken(u)] EXCEPT ![t] = @ \ {s}]
    BY <2>4
  <2> QED
    BY <2>1, <2>2, <2>5 DEF Pool!Give, Available, Taken
<1>2. ASSUME NEW i \in Ids, TxDone(t, s, i)
      PROVE  s \in Taken(t) /\ Pool!Give(t, s)
  <2>1. <<s, i>> \in sent[t] /\ Put(i, s) /\ zone' = zone /\ use' = use
        /\ sent' = [sent EXCEPT ![t] = @ \ {<<s, i>>}]
    BY <1>2 DEF TxDone, At
  <2>2. Available' = Available \cup {s}
    BY <2>1, PutGives DEF IInv
  <2>3. <<s, i>>[1] = s
    OBVIOUS
  <2>4. s \notin use[t] /\ \A x \in sent[t] : x[1] = s => x = <<s, i>>
    BY <2>1, <2>3 DEF IInv, SlotInv, Apart
  <2>5. s \in AtAdapter(t)
    BY <2>1, <2>3 DEF AtAdapter
  <2>6. {x[1] : x \in sent[t] \ {<<s, i>>}} = AtAdapter(t) \ {s}
    BY <2>3, <2>4 DEF AtAdapter
  <2>7. sent'[t] = sent[t] \ {<<s, i>>} /\ \A u \in Threads : u # t => sent'[u] = sent[u]
    BY <1>0, <2>1
  <2>8. Taken(t)' = Taken(t) \ {s}
    BY <2>1, <2>4, <2>6, <2>7 DEF Taken, AtAdapter
  <2>9. \A u \in Threads : u # t => Taken(u)' = Taken(u)
    BY <2>1, <2>7 DEF Taken
  <2>10. [u \in Threads |-> Taken(u)]' = [[u \in Threads |-> Taken(u)] EXCEPT ![t] = @ \ {s}]
    BY <2>8, <2>9
  <2> QED
    BY <2>1, <2>2, <2>5, <2>10 DEF Pool!Give, Available, Taken, AtAdapter
<1> QED
  BY <1>1, <1>2

(* A packet that is sent stays with its thread. *)
LEMMA SendIsInvisible ==
  ASSUME IInv, NEW t \in Threads, NEW s \in Slots, Send(t, s)
  PROVE  UNCHANGED Pool!vars
<1>0. use \in [Threads -> SUBSET Slots] /\ sent \in [Threads -> SUBSET (Slots \X Ids)]
  BY DEF IInv, TypeOK
<1>1. PICK i \in Ids : i = IdOf(t)
  BY IdOfThread DEF Send, At, IInv, Entered
<1>2. s \in use[t] /\ use' = [use EXCEPT ![t] = @ \ {s}]
      /\ sent' = [sent EXCEPT ![t] = @ \cup {<<s, i>>}]
      /\ zone' = zone /\ common' = common /\ cache' = cache
  BY <1>1 DEF Send
<1>3. use'[t] = use[t] \ {s} /\ sent'[t] = sent[t] \cup {<<s, i>>}
      /\ \A u \in Threads : u # t => use'[u] = use[u] /\ sent'[u] = sent[u]
  BY <1>0, <1>2
<1>4. <<s, i>>[1] = s
  OBVIOUS
<1>5. {x[1] : x \in sent[t] \cup {<<s, i>>}} = {x[1] : x \in sent[t]} \cup {s}
  BY <1>4
<1>6. Taken(t)' = Taken(t)
  BY <1>2, <1>3, <1>5 DEF Taken
<1>7. \A u \in Threads : u # t => Taken(u)' = Taken(u)
  BY <1>3 DEF Taken
<1>8. [u \in Threads |-> Taken(u)]' = [u \in Threads |-> Taken(u)]
  BY <1>6, <1>7
<1> QED
  BY <1>2, <1>8 DEF Pool!vars

(* An id that is used again loses the cache of its last owner. *)
LEMMA CreateCacheLoses ==
  ASSUME IInv, NEW t \in Threads, CreateCache(t)
  PROVE  \E some \in SUBSET Available : Pool!Lose(some)
<1>1. PICK i \in Ids : i = IdOf(t)
  BY IdOfThread DEF CreateCache, At, IInv, Entered
<1>2. cache' = [cache EXCEPT ![i] = {}] /\ common' = common /\ use' = use /\ sent' = sent /\ zone' = zone
  BY <1>1 DEF CreateCache
<1>3. cache'[i] = {} /\ \A j \in Ids : j # i => cache'[j] = cache[j]
  BY <1>2 DEF IInv, TypeOK
<1>4. cache[i] \cap common = {} /\ \A j \in Ids : j # i => cache[i] \cap cache[j] = {}
  BY DEF IInv, SlotInv, Apart
<1>5. ASSUME NEW x
      PROVE  x \in Available' <=> x \in Available \ cache[i]
  <2>1. x \in Available' <=> x \in common' \/ \E j \in Ids : x \in cache'[j]
    BY DEF Available
  <2>2. x \in Available' <=> x \in common \/ \E j \in Ids : j # i /\ x \in cache[j]
    BY <1>2, <1>3, <2>1
  <2> QED
    BY <1>4, <2>2, IsAvailable
<1>6. Available' = Available \ cache[i]
  BY <1>5
<1>7. cache[i] \in SUBSET Available
  BY DEF Available
<1>8. UNCHANGED [u \in Threads |-> Taken(u)]
  BY <1>2 DEF Taken
<1> QED
  BY <1>2, <1>6, <1>7, <1>8 DEF Pool!Lose, Available

(* The pool implements SlotPool: whatever the caches do, a slot that is    *)
(* available is handed to one thread and stays with it until it is given   *)
(* back.                                                                   *)
THEOREM PoolImplementsSlots == Spec => SlotSpec
<1>1. Init => Pool!Init
  <2> SUFFICES ASSUME Init
               PROVE  Pool!Init
    OBVIOUS
  <2>1. Available = {}
    BY DEF Init, Available
  <2>2. \A t \in Threads : Taken(t) = {}
    BY DEF Init, Taken
  <2> QED
    BY <2>1, <2>2 DEF Init, Pool!Init, Available
<1>2. IInv /\ [Next]_vars => [Pool!Next]_(Pool!vars)
  <2> SUFFICES ASSUME IInv, [Next]_vars
               PROVE  [Pool!Next]_(Pool!vars)
    OBVIOUS
  <2>1. ASSUME NEW t \in Threads, CreatePool(t)
        PROVE  Pool!Next
    BY <2>1, CreatePoolMakes DEF Pool!Next
  <2>2. ASSUME NEW t \in Threads, NEW k \in Bursts, Allocate(t, k)
        PROVE  Pool!Next
    BY <2>2, AllocateTakes DEF Pool!Next, Available
  <2>3. ASSUME NEW t \in Threads, NEW s \in Slots, Deallocate(t, s) \/ \E i \in Ids : TxDone(t, s, i)
        PROVE  Pool!Next
    BY <2>3, PutBack DEF Pool!Next
  <2>4. ASSUME NEW t \in Threads, CreateCache(t)
        PROVE  Pool!Next
    BY <2>4, CreateCacheLoses DEF Pool!Next, Available
  <2>5. ASSUME UNCHANGED <<common, cache, use, sent>>, (zone = "ready") = (zone' = "ready")
        PROVE  UNCHANGED Pool!vars
    BY <2>5 DEF Pool!vars, Taken
  <2>6. ASSUME NEW t \in Threads, SetupStep(t)
        PROVE  UNCHANGED Pool!vars
    BY <2>5, <2>6 DEF SetupStep, Lock, Lookup, Reserve, CreateFails, Abort, slotVars, At,
                      IInv, GuardInv
  <2>7. ASSUME NEW t \in Threads, Enter(t) \/ Exit(t)
        PROVE  UNCHANGED Pool!vars
    BY <2>5, <2>7 DEF Enter, Exit, slotVars
  <2>8. ASSUME NEW t \in Threads, NEW k \in Bursts, AllocateFails(t, k)
        PROVE  UNCHANGED Pool!vars
    BY <2>5, <2>8 DEF AllocateFails, slotVars
  <2>9. ASSUME NEW i \in Ids, FreeId(i)
        PROVE  UNCHANGED Pool!vars
    BY <2>5, <2>9 DEF FreeId, slotVars
  <2>10. CASE UNCHANGED vars
    BY <2>5, <2>10 DEF vars
  <2> QED
    BY <2>1, <2>2, <2>3, <2>4, <2>6, <2>7, <2>8, <2>9, <2>10, SendIsInvisible, StepCases DEF SlotStep
<1> QED
  BY <1>1, <1>2, Invariance, PTL DEF Spec, SlotSpec, Pool!Spec

(* The threads use their ids within what the service promises: entering    *)
(* the pool, ThreadExit and the freeing of an id are a behaviour of        *)
(* ThreadIds, which module Service implements.                             *)
THEOREM PoolUsesIds == Spec => Id!Spec
<1>1. Init => Id!Init
  BY DEF Init, Id!Init
<1>2. IInv /\ [Next]_vars => [Id!Next]_(Id!vars)
  <2> SUFFICES ASSUME TypeOK, [Next]_vars
               PROVE  Id!Next \/ UNCHANGED Id!vars
    BY DEF IInv
  <2>1. ASSUME NEW t \in Threads, Enter(t) \/ Exit(t)
        PROVE  Id!Next
    BY <2>1 DEF Enter, Exit, Id!Next
  <2>2. ASSUME NEW i \in Ids, FreeId(i)
        PROVE  Id!Next
    BY <2>2 DEF FreeId, Id!Next
  <2>3. ASSUME UNCHANGED <<ids, used>>
        PROVE  UNCHANGED Id!vars
    BY <2>3 DEF Id!vars
  <2>4. ASSUME NEW t \in Threads, SetupStep(t)
        PROVE  UNCHANGED Id!vars
    BY <2>3, <2>4 DEF SetupStep, Lock, Lookup, Reserve, CreateFails, Abort, idVars
  <2>5. ASSUME NEW t \in Threads, SlotStep(t)
        PROVE  UNCHANGED Id!vars
    BY <2>3, <2>5, SlotStepFrame
  <2>6. ASSUME NEW t \in Threads, NEW k \in Bursts, AllocateFails(t, k)
        PROVE  UNCHANGED Id!vars
    BY <2>3, <2>6 DEF AllocateFails, idVars
  <2>7. CASE UNCHANGED vars
    BY <2>3, <2>7 DEF vars
  <2> QED
    BY <2>1, <2>2, <2>4, <2>5, <2>6, <2>7, StepCases
<1> QED
  BY <1>1, <1>2, Invariance, PTL DEF Spec, Id!Spec
=============================================================================
