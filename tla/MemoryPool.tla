----------------------------- MODULE MemoryPool -----------------------------
(***************************************************************************)
(* The packet pool of a socket (omnistack-core/src/memory.rs and the       *)
(* PacketPool of packet.rs), shared by the threads of a process: a thread  *)
(* gets an id, finds or creates the pool under GUARD, creates the cache of *)
(* its id, and then allocates and frees slots without a lock: the cache    *)
(* that an id selects belongs to one thread.  A packet that was sent is    *)
(* freed from a callback of the driver, into the cache of the id that send *)
(* wrote into it.                                                          *)
(*                                                                         *)
(* The ids are those of module ThreadIds, which the service implements.    *)
(* The memory zone and the mempool of DPDK are external: see Get and Put.  *)
(* What is in a packet, its reference count included (module Worker), is   *)
(* left out.                                                               *)
(***************************************************************************)
EXTENDS Integers, FiniteSetsExt

CONSTANTS
  Threads,    \* threads that use the pool
  Ids,        \* thread ids
  Slots,      \* the packets of the pool
  CacheSize,  \* PacketPool::CACHE_SIZE
  Bursts,     \* how many packets a thread asks for at once
  Nobody

ASSUME MemoryAssumption ==
  /\ IsFiniteSet(Slots)
  /\ IsFiniteSet(Ids)
  /\ CacheSize \in Nat \ {0}
  /\ Bursts \subseteq Nat \ {0}
  /\ Nobody \notin Threads

(* The most a cache of DPDK holds: one and a half times its size. *)
FlushThreshold == (3 * CacheSize) \div 2

VARIABLES
  pc,      \* where a thread is: see Labels
  ids,     \* ids[t]: the id of thread t, as a set
  used,    \* THREAD_ID_USED
  guard,   \* the thread that has locked GUARD
  zone,    \* the memory zone: "none", "reserved" or, with the pool in it, "ready"
  common,  \* slots in the ring of the mempool
  cached,  \* the ids whose pointer in cache_per_thread is not null
  cache,   \* cache[i]: slots in the cache of id i
  use,     \* use[t]: slots that thread t has allocated
  sent,    \* sent[t]: slots that thread t has handed to an adapter, each with
           \* its Packet::thread_id, which nothing reads at other times
  lost     \* slots in caches that nothing points to any more (history)

idVars == <<ids, used>>
slotVars == <<common, cached, cache, use, sent, lost>>
vars == <<pc, ids, used, guard, zone, common, cached, cache, use, sent, lost>>

(* "lock" to "create": in MemoryPool::get_or_create; "cache": before       *)
(* create_cache; "panic": about to abort the process; "gone": after        *)
(* ThreadExit; "dead": the process has ended.                              *)
Labels == {"out", "lock", "lookup", "reserve", "create", "cache", "run",
           "panic", "gone", "dead"}

TypeOK ==
  /\ pc \in [Threads -> Labels]
  /\ ids \in [Threads -> SUBSET Ids]
  /\ used \subseteq Ids
  /\ guard \in Threads \cup {Nobody}
  /\ zone \in {"none", "reserved", "ready"}
  /\ common \subseteq Slots
  /\ cached \subseteq Ids
  /\ cache \in [Ids -> SUBSET Slots]
  /\ use \in [Threads -> SUBSET Slots]
  /\ sent \in [Threads -> SUBSET (Slots \X Ids)]
  /\ lost \subseteq Slots

Init ==
  /\ pc = [t \in Threads |-> "out"]
  /\ ids = [t \in Threads |-> {}]
  /\ used = {}
  /\ guard = Nobody
  /\ zone = "none"
  /\ common = {}
  /\ cached = {}
  /\ cache = [i \in Ids |-> {}]
  /\ use = [t \in Threads |-> {}]
  /\ sent = [t \in Threads |-> {}]
  /\ lost = {}

Goto(t, l) == pc' = [pc EXCEPT ![t] = l]

At(t, l) == pc[t] = l

-----------------------------------------------------------------------------
(* Thread ids, from the service.                                           *)

Id == INSTANCE ThreadIds WITH Clients <- Threads

(* The id of thread t, ctx.thread_id. *)
IdOf(t) == CHOOSE i \in Ids : i \in ids[t]

Enter(t) ==
  /\ At(t, "out")
  /\ \E i \in Ids : Id!Grant(t, i)
  /\ Goto(t, "lock")
  /\ UNCHANGED <<guard, zone, slotVars>>

(* A thread that has no packet in its hands gives its id back, with the    *)
(* request ThreadExit, which the protocol has for it and no worker makes   *)
(* so far; the packets an adapter still has stay there.                    *)
Exit(t) ==
  /\ At(t, "run")
  /\ use[t] = {}
  /\ Id!GiveUp(t)
  /\ Goto(t, "gone")
  /\ UNCHANGED <<guard, zone, slotVars>>

FreeId(i) ==
  /\ i \in used
  /\ Id!Free(i)
  /\ UNCHANGED <<pc, guard, zone, slotVars>>

-----------------------------------------------------------------------------
(* MemoryPool::get_or_create.                                              *)

(* Mutation of Lock: nobody waits. *)
LockAlways(t) ==
  /\ At(t, "lock")
  /\ guard' = t
  /\ Goto(t, "lookup")
  /\ UNCHANGED <<idVars, zone, slotVars>>

Lock(t) ==
  /\ At(t, "lock")
  /\ guard = Nobody
  /\ guard' = t
  /\ Goto(t, "lookup")
  /\ UNCHANGED <<idVars, zone, slotVars>>

(* A zone that exists is taken for a pool. *)
Lookup(t) ==
  /\ At(t, "lookup")
  /\ \/ /\ zone = "none"
        /\ Goto(t, "reserve")
        /\ UNCHANGED guard
     \/ /\ zone # "none"
        /\ Goto(t, "cache")
        /\ guard' = Nobody
  /\ UNCHANGED <<idVars, zone, slotVars>>

Reserve(t) ==
  /\ At(t, "reserve")
  /\ zone' = "reserved"
  /\ Goto(t, "create")
  /\ UNCHANGED <<idVars, guard, slotVars>>

(* The mempool is created, every slot in it, and the zone is filled in.    *)
CreatePool(t) ==
  /\ At(t, "create")
  /\ zone' = "ready"
  /\ common' = Slots
  /\ guard' = Nobody
  /\ Goto(t, "cache")
  /\ UNCHANGED <<idVars, cached, cache, use, sent, lost>>

(* Mutation of CreateFails: the thread tries again. *)
CreateFailsRetries(t) ==
  /\ pc[t] \in {"reserve", "create"}
  /\ guard' = Nobody
  /\ Goto(t, "lock")
  /\ UNCHANGED <<idVars, zone, slotVars>>

(* Either of the two fails: GUARD is released with the return of the       *)
(* error, the zone stays, and the caller unwraps the error.                *)
CreateFails(t) ==
  /\ pc[t] \in {"reserve", "create"}
  /\ guard' = Nobody
  /\ Goto(t, "panic")
  /\ UNCHANGED <<idVars, zone, slotVars>>

(* MemoryPool::create_cache: the pointer to the cache that the id had, if  *)
(* it was used before, is overwritten, and its slots with it.  The new one *)
(* is null if there is no memory for it.                                   *)
CreateCache(t) ==
  /\ At(t, "cache")
  /\ zone = "ready"
  /\ LET i == IdOf(t)
     IN  /\ cached' \in {cached \cup {i}, cached \ {i}}
         /\ lost' = lost \cup cache[i]
         /\ cache' = [cache EXCEPT ![i] = {}]
  /\ Goto(t, "run")
  /\ UNCHANGED <<idVars, guard, zone, common, use, sent>>

(* A panic leaves worker_routine, and a zone without a pool in it has no   *)
(* cache_per_thread to write to: both end the process.                     *)
Abort(t) ==
  /\ At(t, "panic") \/ (At(t, "cache") /\ zone # "ready")
  /\ pc' = [u \in Threads |-> "dead"]
  /\ UNCHANGED <<idVars, guard, zone, slotVars>>

-----------------------------------------------------------------------------
(* Allocation.                                                             *)

Fits(i, k) == Cardinality(common) + Cardinality(cache[i]) >= k

(* rte_mempool_generic_get: the cache is used first; when it does not have *)
(* enough, what remains comes from the ring, along with enough to fill the *)
(* cache if the ring has that much.                                        *)
Get(i, got) ==
  LET remaining == Cardinality(got \ cache[i])
      refills == /\ i \in cached
                 /\ remaining > 0
                 /\ CacheSize + remaining <= Cardinality(common)
  IN  /\ got \subseteq cache[i] \/ cache[i] \subseteq got
      /\ \E fill \in IF refills THEN kSubset(CacheSize, common \ got) ELSE {{}} :
           /\ cache' = [cache EXCEPT ![i] = (@ \ got) \cup fill]
           /\ common' = common \ (got \cup fill)

(* rte_mempool_generic_put: a cache that would hold more than its          *)
(* threshold is emptied into the ring first.                               *)
Put(i, s) ==
  \/ /\ i \notin cached
     /\ common' = common \cup {s}
     /\ UNCHANGED cache
  \/ /\ i \in cached
     /\ Cardinality(cache[i]) < FlushThreshold
     /\ cache' = [cache EXCEPT ![i] = @ \cup {s}]
     /\ UNCHANGED common
  \/ /\ i \in cached
     /\ Cardinality(cache[i]) >= FlushThreshold
     /\ common' = common \cup cache[i]
     /\ cache' = [cache EXCEPT ![i] = {s}]

(* PacketPool::allocate and allocate_many, all or nothing. *)
Allocate(t, k) ==
  /\ At(t, "run")
  /\ Fits(IdOf(t), k)
  /\ \E got \in kSubset(k, common \cup cache[IdOf(t)]) :
       /\ Get(IdOf(t), got)
       /\ use' = [use EXCEPT ![t] = @ \cup got]
  /\ UNCHANGED <<pc, idVars, guard, zone, cached, sent, lost>>

(* MemoryError::Exhausted ends the worker, and with it the process. *)
AllocateFails(t, k) ==
  /\ At(t, "run")
  /\ ~ Fits(IdOf(t), k)
  /\ Goto(t, "panic")
  /\ UNCHANGED <<idVars, guard, zone, slotVars>>

(* Mutation of Deallocate: the slot is given back and kept. *)
DeallocateKeeps(t, s) ==
  /\ At(t, "run")
  /\ s \in use[t]
  /\ Put(IdOf(t), s)
  /\ UNCHANGED <<pc, idVars, guard, zone, cached, use, sent, lost>>

(* Mutation of Deallocate: the slot is not given back. *)
DeallocateLeaks(t, s) ==
  /\ At(t, "run")
  /\ s \in use[t]
  /\ use' = [use EXCEPT ![t] = @ \ {s}]
  /\ UNCHANGED <<pc, idVars, guard, zone, common, cached, cache, sent, lost>>

(* PacketPool::deallocate of the last reference. *)
Deallocate(t, s) ==
  /\ At(t, "run")
  /\ s \in use[t]
  /\ Put(IdOf(t), s)
  /\ use' = [use EXCEPT ![t] = @ \ {s}]
  /\ UNCHANGED <<pc, idVars, guard, zone, cached, sent, lost>>

(* Mutation of Send: the thread goes on using the packet. *)
SendKeeps(t, s) ==
  /\ At(t, "run")
  /\ s \in use[t]
  /\ sent' = [sent EXCEPT ![t] = @ \cup {<<s, IdOf(t)>>}]
  /\ UNCHANGED <<pc, idVars, guard, zone, common, cached, cache, use, lost>>

(* Mutation of Send: the packet keeps the thread id it had, if any. *)
SendKeepsTid(t, s) ==
  /\ At(t, "run")
  /\ s \in use[t]
  /\ use' = [use EXCEPT ![t] = @ \ {s}]
  /\ \E i \in Ids : sent' = [sent EXCEPT ![t] = @ \cup {<<s, i>>}]
  /\ UNCHANGED <<pc, idVars, guard, zone, common, cached, cache, lost>>

(* Dpdk::send notes who sent the packet. *)
Send(t, s) ==
  /\ At(t, "run")
  /\ s \in use[t]
  /\ use' = [use EXCEPT ![t] = @ \ {s}]
  /\ sent' = [sent EXCEPT ![t] = @ \cup {<<s, IdOf(t)>>}]
  /\ UNCHANGED <<pc, idVars, guard, zone, common, cached, cache, lost>>

(* packet_free_callback, in a transmit burst of the thread that sent it:   *)
(* the slot goes to the cache of the packet's thread_id.                   *)
TxDone(t, s, i) ==
  /\ At(t, "run")
  /\ <<s, i>> \in sent[t]
  /\ Put(i, s)
  /\ sent' = [sent EXCEPT ![t] = @ \ {<<s, i>>}]
  /\ UNCHANGED <<pc, idVars, guard, zone, cached, use, lost>>

-----------------------------------------------------------------------------

Setup(t) ==
  \/ Lock(t) \/ Lookup(t) \/ Reserve(t) \/ CreatePool(t) \/ CreateFails(t)
  \/ CreateCache(t) \/ Abort(t)

Run(t) ==
  \/ \E k \in Bursts : Allocate(t, k) \/ AllocateFails(t, k)
  \/ \E s \in Slots : Deallocate(t, s) \/ Send(t, s) \/ \E i \in Ids : TxDone(t, s, i)

(* Every thread has left, or the process has ended. *)
Finished ==
  /\ \A t \in Threads : pc[t] \in {"gone", "dead"}
  /\ UNCHANGED vars

Next ==
  \/ \E t \in Threads : Enter(t) \/ Setup(t) \/ Run(t) \/ Exit(t)
  \/ \E i \in Ids : FreeId(i)
  \/ Finished

Spec == Init /\ [][Next]_vars

(* A thread in get_or_create or create_cache keeps running. *)
FairSpec == Spec /\ \A t \in Threads : WF_vars(Setup(t))

-----------------------------------------------------------------------------
(* Properties.                                                             *)

Taken(t) == use[t] \cup {x[1] : x \in sent[t]}

(* The places that have slot s. *)
Homes(s) ==
  {<<"ring", x>> : x \in common \cap {s}}
  \cup {<<"lost", x>> : x \in lost \cap {s}}
  \cup {<<"cache", i>> : i \in {j \in Ids : s \in cache[j]}}
  \cup {<<"use", t>> : t \in {u \in Threads : s \in use[u]}}
  \cup {<<"sent", x>> : x \in {y \in Threads \X Ids : <<s, y[2]>> \in sent[y[1]]}}

(* Every slot is in one place: the ring, the cache of an id, with one      *)
(* thread or its adapter, or lost.                                         *)
OneHome == zone = "ready" => \A s \in Slots : \E h \in Homes(s) : Homes(s) = {h}

(* A pool that get_or_create has handed out is ready to be used, unless    *)
(* its creation failed in a thread that is about to abort the process.     *)
PoolReady ==
  (\E t \in Threads : pc[t] \in {"cache", "run"}) =>
    zone = "ready" \/ \E t \in Threads : pc[t] = "panic"

(* What is lost, or out of reach in the cache of an id that nobody has,    *)
(* is bounded by the number of threads that have left, as long as the      *)
(* process lives.                                                          *)
LossBounded ==
  LET outOfReach == {i \in Ids : \A t \in Threads : i \notin ids[t]}
      left == {t \in Threads : pc[t] = "gone"}
  IN  (\A t \in Threads : pc[t] # "dead") =>
        Cardinality(lost \cup UNION {cache[i] : i \in outOfReach})
          <= FlushThreshold * Cardinality(left)

(* Exhausted means what it says: when a thread cannot have k slots, all    *)
(* but fewer than k are in use, lost, or in the caches of the other ids,   *)
(* which hold a bounded number each; and what is lost is bounded.          *)
ExhaustedForCause ==
  /\ \A t \in Threads, k \in Bursts : pc[t] = "run" /\ ~ Fits(IdOf(t), k) =>
       Cardinality(UNION {Taken(u) : u \in Threads}) + Cardinality(lost)
         + FlushThreshold * Cardinality(cached \ {IdOf(t)}) > Cardinality(Slots) - k
  /\ LossBounded

(* A step of one thread never touches the cache of another: the caches     *)
(* have no lock.                                                           *)
CachePrivacy ==
  [][\A t, u \in Threads :
       (t # u /\ pc[u] = "run" /\ <<pc[t], use[t], sent[t]>>' # <<pc[t], use[t], sent[t]>>)
         => cache'[IdOf(u)] = cache[IdOf(u)]]_vars

(* The caches cannot be seen from outside: the pool is a set of free slots. *)
Pool == INSTANCE SlotPool WITH
  made  <- zone = "ready",
  free  <- common \cup UNION {cache[i] : i \in Ids},
  taken <- [t \in Threads |-> Taken(t)]

SlotSpec == Pool!Spec

(* A thread that waits for the pool gets it, or the process ends. *)
SetupEnds == \A t \in Threads : (pc[t] = "lock") ~> (pc[t] \in {"run", "dead"})
=============================================================================
