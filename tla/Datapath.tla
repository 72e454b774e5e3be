------------------------------ MODULE Datapath ------------------------------
(***************************************************************************)
(* A worker with its adapters: module Worker composed with the transmit    *)
(* queues of module TxFifo, which the adapters implement (IoNode,          *)
(* FifoSpec), and with the buffers of its packets.                         *)
(*                                                                         *)
(* A packet that was received has its bytes in an mbuf of the port         *)
(* (PktBufType::Mbuf), which deallocate frees with the last reference; any *)
(* other packet has them in its own slot (PktBufType::Local).  A slot goes *)
(* back to the pool with the buf_ty it had.                                *)
(*                                                                         *)
(* The worker spins in Dpdk::flush until the driver has taken every frame  *)
(* that is buffered, which takes room in the transmit ring; it does not    *)
(* look at STOP_FLAG there.  It flushes an adapter at a time; in which     *)
(* order is left open here (IoNode has the list).                          *)
(***************************************************************************)
EXTENDS Worker

CONSTANTS
  Nics,       \* the interfaces of the stack
  RingSize    \* RingSize[n]: descriptors of the transmit ring of interface n

(* The nodes of a graph have the names of their modules: one is an IoNode. *)
ASSUME NicAssumption ==
  /\ RingSize \in [Nics -> Nat \ {0}]
  /\ \A m, n \in Nodes : Kind[m] = "io" /\ Kind[n] = "io" => m = n

VARIABLES
  fifo,      \* fifo[n]: packets handed to interface n whose frame has not left
  flight,    \* flight[n]: packets whose frame has left, not yet given back
  buffered,  \* Dpdk::tx_idx: how many packets at the end of fifo[n] are
             \* still in tx_bufs, and not in the ring
  flushing,  \* the interface whose Dpdk::flush the worker is in, if any
  mbufTy,    \* the packets whose buf_ty is Mbuf
  lent       \* mbufs of the ports that received packets have not freed

Fifo == INSTANCE TxFifo

bufVars == <<mbufTy, lent>>
txVars == <<buffered, flushing>>
pathVars == <<fifo, flight, buffered, flushing, mbufTy, lent>>
allVars == <<pc, inited, toPoll, pos, queue, refcnt, pool, foreign, held, stop,
             fifo, flight, buffered, flushing, mbufTy, lent>>

PathInit ==
  /\ Init
  /\ Fifo!Init
  /\ buffered = [n \in Nics |-> 0]
  /\ flushing = {}
  /\ mbufTy = {}
  /\ lent = 0

-----------------------------------------------------------------------------

(* The packets that a step takes from the pool. *)
Allocated == {p \in Packets : pool'[p] < pool[p]}

(* Mutation of FillUser: buf_ty is left as it was. *)
FillUserKeepsType == UNCHANGED mbufTy

(* UserNode::poll builds its packets in their own slots. *)
FillUser == mbufTy' = mbufTy \ Allocated

(* Dpdk::recv puts a packet around every mbuf. *)
FillRecv ==
  /\ mbufTy' = mbufTy \cup Allocated
  /\ lent' = lent + Cardinality(Allocated)

(* Mutation of FreeMbuf: the mbuf goes with the first reference. *)
FreeMbufAlways(p) ==
  /\ lent' = IF p \in mbufTy THEN lent - 1 ELSE lent
  /\ UNCHANGED mbufTy

(* PacketPool::deallocate, before it returns the slot of packet p. *)
FreeMbuf(p) ==
  /\ lent' = IF refcnt[p] = 1 /\ p \in mbufTy THEN lent - 1 ELSE lent
  /\ UNCHANGED mbufTy

PathPollUser ==
  PollUser /\ FillUser /\ UNCHANGED <<fifo, flight, buffered, flushing, lent>>

PathDrop ==
  /\ Drop
  /\ FreeMbuf(Top.pkt)
  /\ UNCHANGED <<fifo, flight, buffered, flushing>>

(* Dpdk::send: the packet is put into tx_bufs of the adapter that its nic  *)
(* names, and a buffer of BURST_SIZE packets is flushed.                   *)
PathSend ==
  /\ ProcessIo
  /\ \E n \in Nics :
       /\ Fifo!Send(n, Top.pkt)
       /\ buffered' = [buffered EXCEPT ![n] = @ + 1]
       /\ flushing' = IF buffered[n] + 1 = RxBurst THEN {n} ELSE {}
  /\ UNCHANGED bufVars

-----------------------------------------------------------------------------
(* Dpdk::flush of interface n.                                             *)

(* The next adapter that IoNode::poll or IoNode::destroy flushes. *)
FlushBegins(n) ==
  /\ pc \in {"flush", "destroy"}
  /\ flushing = {}
  /\ buffered[n] > 0
  /\ flushing' = {n}
  /\ UNCHANGED <<vars, fifo, flight, buffered, bufVars>>

(* The mbufs in the transmit ring of interface n. *)
InRing(n) == Len(fifo[n]) - buffered[n] + Len(flight[n])

(* A burst takes one more mbuf, when the ring has room. *)
FlushTakes(n) ==
  /\ flushing = {n}
  /\ buffered[n] > 0
  /\ InRing(n) < RingSize[n]
  /\ buffered' = [buffered EXCEPT ![n] = @ - 1]
  /\ UNCHANGED <<vars, fifo, flight, flushing, bufVars>>

(* A burst gives back the oldest mbuf whose frame has left. *)
PathTxDone(n) ==
  /\ flushing = {n}
  /\ buffered[n] > 0
  /\ flight[n] # <<>>
  /\ TxDone(Head(flight[n]))
  /\ Fifo!Release(n, 1)
  /\ FreeMbuf(Head(flight[n]))
  /\ UNCHANGED txVars

(* The loop ends with nothing left to take, and tx_bufs is filled again;   *)
(* destroy ignores that it could not be.                                   *)
FlushReturns(n) ==
  /\ flushing = {n}
  /\ buffered[n] = 0
  /\ flushing' = {}
  /\ UNCHANGED <<vars, fifo, flight, buffered, bufVars>>

(* rte_pktmbuf_alloc_bulk has no mbufs to fill tx_bufs with. *)
PathFlushFails ==
  /\ \E n \in flushing : buffered[n] = 0
  /\ FlushFails
  /\ UNCHANGED pathVars

(* The worker is out of flush, and poll and destroy have no adapter left   *)
(* to flush.                                                               *)
Flushed ==
  /\ flushing = {}
  /\ pc \in {"flush", "destroy"} => \A n \in Nics : buffered[n] = 0

(* What the worker does once it has flushed. *)
PathRecv == Flushed /\ Recv /\ FillRecv /\ UNCHANGED <<fifo, flight, txVars>>

Leave ==
  /\ Flushed
  /\ RecvNop \/ RecvExhausted \/ SendDone \/ Destroy
  /\ UNCHANGED pathVars

-----------------------------------------------------------------------------

(* The steps that concern neither an adapter nor a buffer. *)
Local ==
  \/ Enter \/ EnterFails \/ InitNode \/ InitFails \/ InitDone
  \/ LoopHead \/ PollUserExhausted \/ PollIo
  \/ PollDone \/ Forward \/ DrainDone

Flush == \E n \in Nics :
  FlushBegins(n) \/ FlushTakes(n) \/ PathTxDone(n) \/ FlushReturns(n)

PathStep ==
  \/ Local /\ UNCHANGED pathVars
  \/ PathPollUser \/ PathDrop \/ PathSend
  \/ Flush \/ PathFlushFails \/ PathRecv \/ Leave

(* The oldest frame in the ring of interface n leaves. *)
PathTransmit(n) ==
  /\ Len(fifo[n]) > buffered[n]
  /\ Fifo!Transmit(n)
  /\ UNCHANGED <<vars, txVars, bufVars>>

(* The slots that other workers give back have the buf_ty they left there. *)
PathOther ==
  \/ \E p \in Packets : OtherAllocates(p) /\ UNCHANGED pathVars
  \/ \E p \in Packets :
       /\ OtherFrees(p)
       /\ mbufTy' \in {mbufTy \cup {p}, mbufTy \ {p}}
       /\ UNCHANGED <<fifo, flight, txVars, lent>>

PathNext ==
  \/ PathStep
  \/ \E n \in Nics : PathTransmit(n)
  \/ PathOther
  \/ Shutdown /\ UNCHANGED pathVars
  \/ Terminated /\ UNCHANGED pathVars

(* The lcore runs nothing but the worker, which keeps taking steps, and a  *)
(* driver does not refuse for ever a burst that its ring has room for, or  *)
(* can make room for.  A ring full of frames that do not leave keeps the   *)
(* worker in flush for ever: the interfaces keep sending.                  *)
PathSpec ==
  /\ PathInit
  /\ [][PathNext]_allVars
  /\ WF_allVars(PathStep)
  /\ \A n \in Nics : WF_allVars(PathTransmit(n))

-----------------------------------------------------------------------------
(* Properties.                                                             *)

(* The places of packet p in the lists q of the interfaces. *)
Places(q, p) ==
  UNION {{<<n, i>> : i \in {j \in 1 .. Len(q[n]) : q[n][j] = p}} : n \in Nics}

(* Every mbuf that was received is under one packet in use, and is freed   *)
(* with it: a type left over from an earlier use of the slot never frees   *)
(* an mbuf that somebody else has, and no packet that was copied to        *)
(* several nodes frees its mbuf early or twice.                            *)
MbufBalance ==
  pc # "failed" => lent = Cardinality({p \in mbufTy : ~ InPool(p)})

(* What an adapter has to send lies in the slot of a packet that is not in *)
(* the pool, as Packet::iova asserts, and the adapter has one reference to *)
(* the packet for each time it has to send it or give it back.  (For a     *)
(* graph that, like those of the repository, sends on nothing that it has  *)
(* received.)                                                              *)
SendsOwnBuffer ==
  \A p \in Packets :
    /\ held[p] > 0 => p \notin mbufTy /\ ~ InPool(p)
    /\ held[p] = Cardinality(Places(fifo, p)) + Cardinality(Places(flight, p))
=============================================================================
