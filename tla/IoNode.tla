------------------------------- MODULE IoNode -------------------------------
(***************************************************************************)
(* The IoNode of one worker (omnistack-core/src/nio.rs) with its DPDK      *)
(* adapters, one per network interface (modules/dpdk.rs): transmit         *)
(* buffering, the list of adapters to flush, the flush loop against the    *)
(* transmit ring, the refill of the buffer, and the receive half of poll.  *)
(*                                                                         *)
(* The bytes of frames, the offload flags and the checksums are left out.  *)
(* The driver and the hardware (rte_eth_tx_burst, rte_eth_rx_burst and the *)
(* mbuf pool of a port) are external: a burst gives back any number of the *)
(* mbufs whose frames have left, oldest first, and accepts any number of   *)
(* new ones that the ring has room for, none included.                     *)
(***************************************************************************)
EXTENDS Integers, Sequences, FiniteSets

CONSTANTS
  NumNics,     \* adapters of the node, one per interface of the stack
  Mbufs,       \* the mbufs of the pool of a port
  Packets,     \* packets of the stack
  Nic,         \* Nic[p]: the interface packet p is routed to (Packet::nic)
  NoPacket,    \* an mbuf that carries no packet
  Burst,       \* BURST_SIZE, the size of tx_bufs
  RingSize     \* RingSize[n]: TX_RING_SIZE as port n has adjusted it

Nics == 1 .. NumNics

ASSUME IoAssumption ==
  /\ NumNics \in Nat
  /\ Burst \in Nat \ {0}
  /\ RingSize \in [Nics -> Nat \ {0}]
  /\ IsFiniteSet(Mbufs)
  /\ Cardinality(Mbufs) >= Burst
  /\ NoPacket \notin Packets
  /\ Nic \in [Packets -> Nics]

VARIABLES
  pc,          \* where the worker is: see Labels
  caller,      \* the operation that called flush
  nic,         \* the adapter that operation is at
  flushQueue,  \* IoNode::flush_queue[0 .. flush_queue_idx)
  flushFlag,   \* IoNode::flush_flag, as the set of its bits
  txBufs,      \* Dpdk::tx_bufs
  txIdx,       \* Dpdk::tx_idx
  off,         \* flush: how far pkts has advanced in tx_bufs
  ring,        \* the transmit ring of a port, oldest mbuf first
  wired,       \* how many mbufs of the ring have left the port
  rxq,         \* frames received by a port, oldest first
  lent,        \* mbufs under received packets, up in the stack
  mpool,       \* free mbufs of the pool of a port
  pkt          \* the packet attached to an mbuf

nodeVars == <<flushQueue, flushFlag>>
portVars == <<ring, wired, rxq, lent, mpool>>
vars == <<pc, caller, nic, flushQueue, flushFlag, txBufs, txIdx, off,
          ring, wired, rxq, lent, mpool, pkt>>

(* "idle": outside the node; "flush": in the loop of Dpdk::flush;          *)
(* "pollFlush", "pollRecv": the two loops of IoNode::poll; "destroy": the  *)
(* loop of IoNode::destroy.                                                *)
Labels == {"idle", "flush", "pollFlush", "pollRecv", "destroy", "stopped", "failed"}

TypeOK ==
  /\ pc \in Labels
  /\ caller \in {"send", "poll", "destroy"}
  /\ nic \in 1 .. NumNics + 1
  /\ flushQueue \in Seq(Nics)
  /\ flushFlag \subseteq Nics
  /\ txBufs \in [Nics -> [1 .. Burst -> Mbufs]]
  /\ txIdx \in [Nics -> 0 .. Burst]
  /\ off \in 0 .. Burst
  /\ ring \in [Nics -> Seq(Mbufs)]
  /\ wired \in [Nics -> Nat]
  /\ \A n \in Nics : wired[n] <= Len(ring[n]) /\ Len(ring[n]) <= RingSize[n]
  /\ rxq \in [Nics -> Seq(Mbufs)]
  /\ lent \in [Nics -> SUBSET Mbufs]
  /\ mpool \in [Nics -> SUBSET Mbufs]
  /\ pkt \in [Nics -> [Mbufs -> Packets \cup {NoPacket}]]

(* rte_pktmbuf_alloc_bulk: k distinct free mbufs of the pool of port n.    *)
Bulk(n, k) ==
  {ms \in [1 .. k -> mpool[n]] : \A i, j \in 1 .. k : i # j => ms[i] # ms[j]}

(* Dpdk::init has filled tx_bufs of every adapter. *)
Init ==
  /\ pc = "idle"
  /\ caller = "poll"
  /\ nic = 1
  /\ flushQueue = <<>>
  /\ flushFlag = {}
  /\ txBufs \in [Nics -> {b \in [1 .. Burst -> Mbufs] :
                            \A i, j \in 1 .. Burst : i # j => b[i] # b[j]}]
  /\ txIdx = [n \in Nics |-> 0]
  /\ off = 0
  /\ ring = [n \in Nics |-> <<>>]
  /\ wired = [n \in Nics |-> 0]
  /\ rxq = [n \in Nics |-> <<>>]
  /\ lent = [n \in Nics |-> {}]
  /\ mpool = [n \in Nics |-> Mbufs \ {txBufs[n][i] : i \in 1 .. Burst}]
  /\ pkt = [n \in Nics |-> [m \in Mbufs |-> NoPacket]]

-----------------------------------------------------------------------------
(* IoNode::process and Dpdk::send.                                         *)

(* The end of IoNode::process: n is queued for a flush unless it is.       *)
MarkFlush(n) ==
  /\ flushQueue' = IF n \in flushFlag THEN flushQueue ELSE Append(flushQueue, n)
  /\ flushFlag' = flushFlag \cup {n}

(* Dpdk::send: the packet is attached to the next mbuf of tx_bufs.  A full *)
(* buffer is flushed, otherwise the adapter is marked at once.             *)
Buffer(n, p, mark) ==
  /\ pkt' = [pkt EXCEPT ![n][txBufs[n][txIdx[n] + 1]] = p]
  /\ txIdx' = [txIdx EXCEPT ![n] = @ + 1]
  /\ \/ /\ txIdx[n] + 1 = Burst
        /\ pc' = "flush"
        /\ caller' = "send"
        /\ nic' = n
        /\ UNCHANGED nodeVars
     \/ /\ txIdx[n] + 1 # Burst
        /\ mark
        /\ UNCHANGED <<pc, caller, nic>>
  /\ UNCHANGED <<off, txBufs, portVars>>

(* Mutation of Process: a buffered packet does not ask for a flush. *)
ProcessUnmarked(n, p) == pc = "idle" /\ Buffer(n, p, UNCHANGED nodeVars)

Process(n, p) == pc = "idle" /\ Buffer(n, p, MarkFlush(n))

-----------------------------------------------------------------------------
(* Dpdk::flush, called for adapter nic with txIdx[nic] # 0.                *)

(* The r oldest mbufs of the ring. *)
Sent(r) == {ring[nic][i] : i \in 1 .. r}

(* rte_eth_tx_burst: r mbufs come back, nb of tx_bufs, from position       *)
(* first on, go into the ring, and the packets of the mbufs freed go to    *)
(* packet_free_callback.                                                   *)
Exchange(r, nb, first, freed) ==
  /\ txIdx[nic] # 0
  /\ Len(ring[nic]) - r + nb <= RingSize[nic]
  /\ ring' = [ring EXCEPT ![nic] =
                SubSeq(@, r + 1, Len(@)) \o SubSeq(txBufs[nic], first, first + nb - 1)]
  /\ mpool' = [mpool EXCEPT ![nic] = @ \cup Sent(r)]
  /\ pkt' = [pkt EXCEPT ![nic] =
               [m \in Mbufs |-> IF m \in freed THEN NoPacket ELSE @[m]]]
  /\ wired' = [wired EXCEPT ![nic] = @ - r]
  /\ txIdx' = [txIdx EXCEPT ![nic] = @ - nb]
  /\ off' = off + nb
  /\ UNCHANGED <<pc, caller, nic, nodeVars, txBufs, rxq, lent>>

(* Mutation of TxBurst: the packets given back are not freed. *)
TxBurstKeepsPacket(r, nb) == Exchange(r, nb, off + 1, {})

(* Mutation of TxBurst: the pointer into tx_bufs is not advanced. *)
TxBurstFromStart(r, nb) == Exchange(r, nb, 1, Sent(r))

(* One round of the loop of flush, repeated until tx_idx is 0. *)
TxBurst(r, nb) == Exchange(r, nb, off + 1, Sent(r))

(* The driver accepts `least' mbufs or more. *)
FlushRound(least) ==
  /\ pc = "flush"
  /\ \E r \in 0 .. wired[nic], nb \in least .. txIdx[nic] : TxBurst(r, nb)

(* Where flush returns to: the rest of process, the loop of poll, or the   *)
(* next adapter of destroy.  The variables of an operation that has ended  *)
(* are given their initial values.                                         *)
FlushReturns ==
  /\ off' = 0
  /\ caller' = "poll"
  /\ \/ /\ caller = "send"
        /\ MarkFlush(nic)
        /\ pc' = "idle"
        /\ nic' = 1
     \/ /\ caller = "poll"
        /\ pc' = "pollFlush"
        /\ nic' = 1
        /\ UNCHANGED nodeVars
     \/ /\ caller = "destroy"
        /\ pc' = "destroy"
        /\ nic' = nic + 1
        /\ UNCHANGED nodeVars

(* Mutation of Refill: the mbufs sent stay in tx_bufs. *)
RefillMissing ==
  /\ pc = "flush"
  /\ txIdx[nic] = 0
  /\ FlushReturns
  /\ UNCHANGED <<txBufs, txIdx, portVars, pkt>>

(* The mbufs sent are replaced by new ones from the pool.                  *)
Refill ==
  /\ pc = "flush"
  /\ txIdx[nic] = 0
  /\ \E ms \in Bulk(nic, off) :
       /\ txBufs' = [txBufs EXCEPT ![nic] =
                       [i \in 1 .. Burst |-> IF i <= off THEN ms[i] ELSE @[i]]]
       /\ mpool' = [mpool EXCEPT ![nic] = @ \ {ms[i] : i \in 1 .. off}]
  /\ FlushReturns
  /\ UNCHANGED <<txIdx, ring, wired, rxq, lent, pkt>>

(* The pool is exhausted: process and poll pass the error on to the        *)
(* worker, which ends; destroy ignores it.                                 *)
RefillFails ==
  /\ pc = "flush"
  /\ txIdx[nic] = 0
  /\ Cardinality(mpool[nic]) < off
  /\ \/ /\ caller \in {"send", "poll"}
        /\ pc' = "failed"
        /\ UNCHANGED <<caller, nic, off, nodeVars>>
     \/ /\ caller = "destroy"
        /\ FlushReturns
  /\ UNCHANGED <<txBufs, txIdx, portVars, pkt>>

-----------------------------------------------------------------------------
(* IoNode::poll.                                                           *)

PollBegin ==
  /\ pc = "idle"
  /\ pc' = "pollFlush"
  /\ UNCHANGED <<caller, nic, nodeVars, txBufs, txIdx, off, portVars, pkt>>

(* Flush adapter n, or skip it when it has nothing buffered. *)
FlushBegins(n) ==
  /\ txIdx[n] # 0
  /\ pc' = "flush"
  /\ nic' = n

(* The last adapter of the list is taken off it, its bit is toggled, and   *)
(* it is flushed.                                                          *)
FlushLast(n, bit) ==
  /\ flushQueue' = SubSeq(flushQueue, 1, Len(flushQueue) - 1)
  /\ flushFlag' = (flushFlag \ {bit}) \cup ({bit} \ flushFlag)
  /\ FlushBegins(n) \/ (txIdx[n] = 0 /\ UNCHANGED <<pc, nic>>)
  /\ UNCHANGED <<caller, off, txBufs, txIdx, portVars, pkt>>

(* Mutation of PollFlush: the bit of the next adapter is toggled. *)
PollFlushWrongBit ==
  /\ pc = "pollFlush"
  /\ flushQueue # <<>>
  /\ LET n == flushQueue[Len(flushQueue)] IN FlushLast(n, n + 1)

PollFlush ==
  /\ pc = "pollFlush"
  /\ flushQueue # <<>>
  /\ LET n == flushQueue[Len(flushQueue)] IN FlushLast(n, n)

(* The loop over the adapters begins. *)
RecvFrom(first) ==
  /\ pc = "pollFlush"
  /\ flushQueue = <<>>
  /\ pc' = "pollRecv"
  /\ nic' = first
  /\ UNCHANGED <<caller, nodeVars, txBufs, txIdx, off, portVars, pkt>>

(* Mutation of PollFlushDone: the first adapter is passed over. *)
PollFlushDoneSkips == RecvFrom(2)

PollFlushDone == RecvFrom(1)

(* Dpdk::recv of the next adapter: Nop when it has received nothing ...    *)
RecvNop ==
  /\ pc = "pollRecv"
  /\ nic <= NumNics
  /\ rxq[nic] = <<>>
  /\ nic' = nic + 1
  /\ UNCHANGED <<pc, caller, nodeVars, txBufs, txIdx, off, portVars, pkt>>

(* ... otherwise up to a burst of frames, which ends the poll. *)
Recv ==
  /\ pc = "pollRecv"
  /\ nic <= NumNics
  /\ rxq[nic] # <<>>
  /\ LET k == IF Len(rxq[nic]) < Burst THEN Len(rxq[nic]) ELSE Burst
     IN  /\ lent' = [lent EXCEPT ![nic] = @ \cup {rxq[nic][i] : i \in 1 .. k}]
         /\ rxq' = [rxq EXCEPT ![nic] = SubSeq(@, k + 1, Len(@))]
  /\ pc' = "idle"
  /\ nic' = 1
  /\ UNCHANGED <<caller, nodeVars, txBufs, txIdx, off, ring, wired, mpool, pkt>>

(* Dpdk::recv cannot allocate a packet for a frame; the worker ends. *)
RecvFails ==
  /\ pc = "pollRecv"
  /\ nic <= NumNics
  /\ rxq[nic] # <<>>
  /\ pc' = "failed"
  /\ UNCHANGED <<caller, nic, nodeVars, txBufs, txIdx, off, portVars, pkt>>

RecvDone ==
  /\ pc = "pollRecv"
  /\ nic > NumNics
  /\ pc' = "idle"
  /\ nic' = 1
  /\ UNCHANGED <<caller, nodeVars, txBufs, txIdx, off, portVars, pkt>>

-----------------------------------------------------------------------------
(* IoNode::destroy: flush every adapter.                                   *)

DestroyBegin ==
  /\ pc = "idle"
  /\ pc' = "destroy"
  /\ nic' = 1
  /\ UNCHANGED <<caller, nodeVars, txBufs, txIdx, off, portVars, pkt>>

(* Mutation of DestroyNext: the adapters are not flushed. *)
DestroyNextSkips ==
  /\ pc = "destroy"
  /\ nic <= NumNics
  /\ nic' = nic + 1
  /\ UNCHANGED <<pc, caller, off, nodeVars, txBufs, txIdx, portVars, pkt>>

DestroyNext ==
  /\ pc = "destroy"
  /\ nic <= NumNics
  /\ \/ /\ FlushBegins(nic)
        /\ caller' = "destroy"
     \/ /\ txIdx[nic] = 0
        /\ nic' = nic + 1
        /\ UNCHANGED <<pc, caller>>
  /\ UNCHANGED <<off, nodeVars, txBufs, txIdx, portVars, pkt>>

DestroyDone ==
  /\ pc = "destroy"
  /\ nic > NumNics
  /\ pc' = "stopped"
  /\ UNCHANGED <<caller, nic, nodeVars, txBufs, txIdx, off, portVars, pkt>>

-----------------------------------------------------------------------------
(* The ports, which run on their own while the process lives: an error     *)
(* that a worker returns ends it.                                          *)

(* The frame of the oldest waiting mbuf leaves port n. *)
Transmit(n) ==
  /\ pc # "failed"
  /\ wired[n] < Len(ring[n])
  /\ wired' = [wired EXCEPT ![n] = @ + 1]
  /\ UNCHANGED <<pc, caller, nic, nodeVars, txBufs, txIdx, off,
                 ring, rxq, lent, mpool, pkt>>

(* A frame arrives and is put into an mbuf of the pool. *)
Arrive(n) ==
  /\ pc # "failed"
  /\ \E m \in mpool[n] :
       /\ mpool' = [mpool EXCEPT ![n] = @ \ {m}]
       /\ rxq' = [rxq EXCEPT ![n] = Append(@, m)]
  /\ UNCHANGED <<pc, caller, nic, nodeVars, txBufs, txIdx, off,
                 ring, wired, lent, pkt>>

(* rte_mbuf_raw_free, from the deallocate of a received packet: the worker *)
(* is outside the node.                                                    *)
Return(n) ==
  /\ pc = "idle"
  /\ \E m \in lent[n] :
       /\ lent' = [lent EXCEPT ![n] = @ \ {m}]
       /\ mpool' = [mpool EXCEPT ![n] = @ \cup {m}]
  /\ UNCHANGED <<pc, caller, nic, nodeVars, txBufs, txIdx, off,
                 ring, wired, rxq, pkt>>

Terminated ==
  /\ pc \in {"stopped", "failed"}
  /\ UNCHANGED vars

FlushStep == FlushRound(0) \/ Refill \/ RefillFails

PollStep ==
  PollFlush \/ PollFlushDone \/ RecvNop \/ Recv \/ RecvFails \/ RecvDone

Next ==
  \/ \E p \in Packets : Process(Nic[p], p)
  \/ FlushStep \/ PollBegin \/ PollStep
  \/ DestroyBegin \/ DestroyNext \/ DestroyDone
  \/ \E n \in Nics : Transmit(n) \/ Arrive(n) \/ Return(n)
  \/ Terminated

Spec == Init /\ [][Next]_vars

(* The driver takes at least one mbuf when the ring has or can make room.  *)
TxProgress == FlushRound(1)

(* The worker keeps running; the driver does not refuse for ever a burst   *)
(* it has room for; the ports keep sending.  A round of processing ends    *)
(* (DrainEnds of module Worker), so the worker polls or stops again and    *)
(* again.                                                                  *)
FairSpec ==
  /\ Spec
  /\ WF_vars(TxProgress)
  /\ WF_vars(Refill \/ RefillFails)
  /\ WF_vars(PollStep)
  /\ WF_vars(DestroyNext \/ DestroyDone)
  /\ SF_vars(PollBegin \/ DestroyBegin)
  /\ \A n \in Nics : WF_vars(Transmit(n))

-----------------------------------------------------------------------------
(* Properties.                                                             *)

(* The adapter whose flush is going on. *)
Flushing(n) == pc = "flush" /\ nic = n

(* Position in tx_bufs of the first packet that is still buffered. *)
First(n) == IF Flushing(n) THEN off + 1 ELSE 1

(* The slots of tx_bufs the adapter owns: all, except those that a flush   *)
(* under way has given to the driver.                                      *)
Owned(n) == {i \in 1 .. Burst : i >= First(n)}

Buffered(n) == SubSeq(txBufs[n], First(n), First(n) + txIdx[n] - 1)

(* The node may still use adapter n: the worker has not failed, and        *)
(* destroy, which ignores a refill that fails, has not passed n.           *)
Destroying == pc = "destroy" \/ (pc = "flush" /\ caller = "destroy")

InUse(n) == pc \notin {"failed", "stopped"} /\ (Destroying => nic <= n)

Elems(s) == {s[i] : i \in 1 .. Len(s)}

(* Every mbuf of a port has one owner: the pool, a slot of tx_bufs, the    *)
(* transmit ring, the receive queue, or a packet in the stack.  An mbuf    *)
(* with two owners would be written by send while the NIC reads it.        *)
MbufOwnership ==
  \A n \in Nics : InUse(n) =>
    /\ Cardinality(mpool[n]) + Cardinality(lent[n]) + Len(ring[n]) + Len(rxq[n])
         + Cardinality(Owned(n)) = Cardinality(Mbufs)
    /\ mpool[n] \cup lent[n] \cup Elems(ring[n]) \cup Elems(rxq[n])
         \cup {txBufs[n][i] : i \in Owned(n)} = Mbufs

(* An mbuf carries a packet exactly while it is buffered or in the ring:   *)
(* no packet is freed twice or forgotten, and no frame is sent twice.      *)
Attached ==
  \A n \in Nics : {m \in Mbufs : pkt[n][m] # NoPacket}
                    = Elems(ring[n]) \cup Elems(Buffered(n))

(* Outside the node, an adapter that has packets buffered is on the list   *)
(* of those the next poll flushes, and none has a full buffer: send writes *)
(* inside tx_bufs.  A node that has been destroyed has none buffered.      *)
(* flush_queue and flush_flag agree at all times, so the list, which has   *)
(* room for one entry per adapter, never overflows.                        *)
NoneStranded ==
  /\ pc = "idle" => \A n \in Nics :
       /\ txIdx[n] > 0 => n \in flushFlag
       /\ txIdx[n] < Burst
  /\ pc = "stopped" => \A n \in Nics : txIdx[n] = 0
  /\ Elems(flushQueue) = flushFlag
  /\ Len(flushQueue) = Cardinality(flushFlag)

(* The packets in the order in which they were handed over. *)
PacketsOf(n, s) == [i \in 1 .. Len(s) |-> pkt[n][s[i]]]

fifo == [n \in Nics |->
           PacketsOf(n, SubSeq(ring[n], wired[n] + 1, Len(ring[n])) \o Buffered(n))]

flight == [n \in Nics |-> PacketsOf(n, SubSeq(ring[n], 1, wired[n]))]

(* The adapters implement a FIFO per interface that loses, duplicates and  *)
(* reorders nothing.                                                       *)
Fifo == INSTANCE TxFifo

FifoSpec == Fifo!Spec

(* What send has buffered goes to the ring, unless the worker fails. *)
BufferDrains ==
  \A n \in Nics : (txIdx[n] > 0) ~> (txIdx[n] = 0 \/ pc = "failed")

(* A frame that an adapter has received is taken up by a poll, or the      *)
(* worker stops, provided that the adapters before it fall silent: the     *)
(* loop of IoNode::poll returns with the first adapter that has anything,  *)
(* and always starts with the first.                                       *)
FramesReceived ==
  \A n \in Nics : (\A m \in 1 .. n - 1 : <>[](rxq[m] = <<>>)) =>
    (rxq[n] # <<>> ~> (rxq[n] = <<>> \/ Destroying \/ pc \in {"stopped", "failed"}))
=============================================================================
