---------------------------- MODULE IoNodeProofs ----------------------------
(***************************************************************************)
(* Proofs about module IoNode, for any number of interfaces, mbufs and     *)
(* packets and any sizes of the buffer and the rings.  A step changes one  *)
(* adapter at most; what it does there is one of the operators Buffers to  *)
(* GetsBack below, and everything else follows adapter by adapter.         *)
(***************************************************************************)
EXTENDS IoNode, FiniteSetTheorems, FunctionTheorems, SequenceTheorems, TLAPS

(* The loops of flush, poll and destroy, and the list of adapters.         *)
CtlInv ==
  /\ pc \notin {"flush", "failed"} => off = 0 /\ caller = "poll"
  /\ pc = "flush" => nic \in Nics /\ off + txIdx[nic] <= Burst
  /\ pc = "stopped" => nic > NumNics
  /\ Destroying \/ pc = "stopped" => \A n \in Nics : n < nic => txIdx[n] = 0

(* flush_queue lists the adapters of flush_flag, each of them once, and    *)
(* every adapter with packets that no flush is at is among them.           *)
ListInv ==
  /\ \A i, j \in 1 .. Len(flushQueue) : flushQueue[i] = flushQueue[j] => i = j
  /\ \A n \in Nics : n \in flushFlag <=> \E i \in 1 .. Len(flushQueue) : flushQueue[i] = n
  /\ \A n \in Nics : txIdx[n] = Burst => Flushing(n)
  /\ \A n \in Nics : pc # "failed" /\ txIdx[n] > 0 => n \in flushFlag \/ Flushing(n)

(* m is among, or no mbuf is twice among, f[a], ..., f[b]. *)
Holds(f, a, b, m) == \E i \in a .. b : f[i] = m
Once(f, a, b) == \A i, j \in a .. b : f[i] = f[j] => i = j

(* Every mbuf is in one place, once: in a ring R, a receive queue Q, the   *)
(* slots of a buffer B from F on, a pool P or lent to the stack, L.        *)
Apart(R, lr, Q, lq, B, F, P, L) ==
  /\ Once(R, 1, lr)
  /\ Once(Q, 1, lq)
  /\ Once(B, F, Burst)
  /\ \A m \in Mbufs :
       /\ m \in P => m \notin L /\ ~ Holds(R, 1, lr, m) /\ ~ Holds(Q, 1, lq, m) /\ ~ Holds(B, F, Burst, m)
       /\ m \in L => ~ Holds(R, 1, lr, m) /\ ~ Holds(Q, 1, lq, m) /\ ~ Holds(B, F, Burst, m)
       /\ Holds(R, 1, lr, m) => ~ Holds(Q, 1, lq, m) /\ ~ Holds(B, F, Burst, m)
       /\ Holds(Q, 1, lq, m) => ~ Holds(B, F, Burst, m)
       /\ m \in P \/ m \in L \/ Holds(R, 1, lr, m) \/ Holds(Q, 1, lq, m) \/ Holds(B, F, Burst, m)

Owns(n) == Apart(ring[n], Len(ring[n]), rxq[n], Len(rxq[n]), txBufs[n], First(n), mpool[n], lent[n])

OwnInv == \A n \in Nics : InUse(n) => Owns(n)

(* An mbuf has a packet, K[m], while it is in the ring or one of the t     *)
(* slots of the buffer from F on.                                          *)
Loaded(R, lr, B, F, t, K) ==
  \A m \in Mbufs : K[m] # NoPacket <=> Holds(R, 1, lr, m) \/ Holds(B, F, F + t - 1, m)

Carries(n) == Loaded(ring[n], Len(ring[n]), txBufs[n], First(n), txIdx[n], pkt[n])

CarryInv == \A n \in Nics : Carries(n)

IInv == TypeOK /\ CtlInv /\ ListInv /\ OwnInv /\ CarryInv

-----------------------------------------------------------------------------
(* What a step does to one adapter.                                        *)

SameTx(n) ==
  /\ txBufs'[n] = txBufs[n] /\ txIdx'[n] = txIdx[n] /\ First(n)' = First(n)
  /\ ring'[n] = ring[n] /\ pkt'[n] = pkt[n]

SamePools(n) == rxq'[n] = rxq[n] /\ lent'[n] = lent[n] /\ mpool'[n] = mpool[n]

Same(n) == SameTx(n) /\ wired'[n] = wired[n] /\ SamePools(n)

Buffers(n, p) ==
  /\ InUse(n)
  /\ First(n) = 1 /\ First(n)' = 1
  /\ txIdx[n] < Burst /\ txIdx'[n] = txIdx[n] + 1
  /\ pkt'[n] = [pkt[n] EXCEPT ![txBufs[n][txIdx[n] + 1]] = p]
  /\ txBufs'[n] = txBufs[n] /\ ring'[n] = ring[n] /\ wired'[n] = wired[n]
  /\ SamePools(n)

(* The ring loses its r oldest mbufs and gets nb of tx_bufs. *)
Moves(n, r, nb) ==
  /\ ring'[n] \in Seq(Mbufs)
  /\ Len(ring'[n]) = Len(ring[n]) - r + nb
  /\ \A i \in 1 .. Len(ring[n]) - r : ring'[n][i] = ring[n][i + r]
  /\ \A i \in 1 .. nb : ring'[n][Len(ring[n]) - r + i] = txBufs[n][First(n) + i - 1]

Drains(n, r, nb) ==
  /\ InUse(n)
  /\ r \in 0 .. wired[n] /\ nb \in 0 .. txIdx[n]
  /\ First(n) + txIdx[n] <= Burst + 1
  /\ First(n)' = First(n) + nb
  /\ txIdx'[n] = txIdx[n] - nb
  /\ wired'[n] = wired[n] - r
  /\ Moves(n, r, nb)
  /\ mpool'[n] = mpool[n] \cup {ring[n][i] : i \in 1 .. r}
  /\ \A m \in Mbufs : \/ pkt'[n][m] = NoPacket /\ \E i \in 1 .. r : ring[n][i] = m
                      \/ pkt'[n][m] = pkt[n][m] /\ \A i \in 1 .. r : ring[n][i] # m
  /\ txBufs'[n] = txBufs[n] /\ rxq'[n] = rxq[n] /\ lent'[n] = lent[n]

Refills(n, ms) ==
  /\ txIdx[n] = 0 /\ txIdx'[n] = 0
  /\ First(n)' = 1
  /\ ms \in [1 .. First(n) - 1 -> mpool[n]]
  /\ \A i, j \in 1 .. First(n) - 1 : i # j => ms[i] # ms[j]
  /\ \A i \in 1 .. Burst : \/ i < First(n) /\ txBufs'[n][i] = ms[i]
                           \/ i >= First(n) /\ txBufs'[n][i] = txBufs[n][i]
  /\ mpool'[n] = mpool[n] \ {ms[i] : i \in 1 .. First(n) - 1}
  /\ ring'[n] = ring[n] /\ wired'[n] = wired[n] /\ pkt'[n] = pkt[n]
  /\ rxq'[n] = rxq[n] /\ lent'[n] = lent[n]

GivesUp(n) ==
  /\ txIdx[n] = 0 /\ txIdx'[n] = 0
  /\ First(n)' = 1
  /\ ~ InUse(n)'
  /\ txBufs'[n] = txBufs[n] /\ ring'[n] = ring[n] /\ wired'[n] = wired[n] /\ pkt'[n] = pkt[n]
  /\ SamePools(n)

Transmits(n) ==
  /\ wired[n] < Len(ring[n]) /\ wired'[n] = wired[n] + 1
  /\ SameTx(n) /\ SamePools(n)

Receives(n, k) ==
  /\ k \in 1 .. Len(rxq[n])
  /\ lent'[n] = lent[n] \cup {rxq[n][i] : i \in 1 .. k}
  /\ Len(rxq'[n]) = Len(rxq[n]) - k
  /\ \A i \in 1 .. Len(rxq[n]) - k : rxq'[n][i] = rxq[n][i + k]
  /\ SameTx(n) /\ wired'[n] = wired[n] /\ mpool'[n] = mpool[n]

Arrives(n, m) ==
  /\ m \in mpool[n] /\ mpool'[n] = mpool[n] \ {m}
  /\ Len(rxq'[n]) = Len(rxq[n]) + 1
  /\ \A i \in 1 .. Len(rxq[n]) : rxq'[n][i] = rxq[n][i]
  /\ rxq'[n][Len(rxq[n]) + 1] = m
  /\ SameTx(n) /\ wired'[n] = wired[n] /\ lent'[n] = lent[n]

GetsBack(n, m) ==
  /\ m \in lent[n] /\ lent'[n] = lent[n] \ {m}
  /\ mpool'[n] = mpool[n] \cup {m}
  /\ SameTx(n) /\ wired'[n] = wired[n] /\ rxq'[n] = rxq[n]

Changes(n) ==
  \/ \E p \in Packets : Buffers(n, p)
  \/ \E r, nb \in Nat : Drains(n, r, nb)
  \/ \E ms \in [1 .. First(n) - 1 -> Mbufs] : Refills(n, ms)
  \/ GivesUp(n)
  \/ Transmits(n)
  \/ \E k \in Nat : Receives(n, k)
  \/ \E m \in Mbufs : Arrives(n, m) \/ GetsBack(n, m)

(* A step changes one adapter at most. *)
OneChange ==
  \/ \A n \in Nics : Same(n)
  \/ \E n \in Nics : Changes(n) /\ \A m \in Nics : m # n => Same(m)

-----------------------------------------------------------------------------
(* What a step can be. *)
LEMMA StepCases ==
  ASSUME [Next]_vars
  PROVE  \/ \E p \in Packets : Process(Nic[p], p)
         \/ FlushRound(0) \/ Refill \/ RefillFails
         \/ PollBegin \/ PollFlush \/ PollFlushDone \/ RecvNop \/ Recv \/ RecvFails \/ RecvDone
         \/ DestroyBegin \/ DestroyNext \/ DestroyDone
         \/ \E n \in Nics : Transmit(n) \/ Arrive(n) \/ Return(n)
         \/ UNCHANGED vars
BY DEF Next, FlushStep, PollStep, Terminated

(* A round of flush for adapter nic. *)
LEMMA RoundFacts ==
  ASSUME TypeOK, CtlInv, FlushRound(0)
  PROVE  /\ nic \in Nics
         /\ \E r \in 0 .. wired[nic], nb \in 0 .. txIdx[nic] :
              /\ TxBurst(r, nb)
              /\ SubSeq(ring[nic], r + 1, Len(ring[nic])) \in Seq(Mbufs)
              /\ SubSeq(txBufs[nic], off + 1, off + nb) \in Seq(Mbufs)
              /\ Moves(nic, r, nb)
<1>0. pc = "flush" /\ nic \in Nics /\ off + txIdx[nic] <= Burst /\ off \in Nat /\ Burst \in Nat
      /\ txIdx[nic] \in Nat
  BY IoAssumption DEF FlushRound, CtlInv, TypeOK
<1>1. PICK r \in 0 .. wired[nic], nb \in 0 .. txIdx[nic] : TxBurst(r, nb)
  BY DEF FlushRound
<1>2. ring[nic] \in Seq(Mbufs) /\ txBufs[nic] \in [1 .. Burst -> Mbufs]
      /\ wired[nic] \in Nat /\ wired[nic] <= Len(ring[nic]) /\ Len(ring[nic]) \in Nat
  BY <1>0 DEF TypeOK
<1>3. r \in Nat /\ nb \in Nat /\ r <= Len(ring[nic]) /\ off + nb <= Burst
  BY <1>0, <1>2
<1> DEFINE old == SubSeq(ring[nic], r + 1, Len(ring[nic]))
           new == SubSeq(txBufs[nic], off + 1, off + nb)
<1>4. /\ old \in Seq(Mbufs) /\ Len(old) = Len(ring[nic]) - r
      /\ \A i \in 1 .. Len(ring[nic]) - r : old[i] = ring[nic][i + r]
  <2>1. \A i \in r + 1 .. Len(ring[nic]) : ring[nic][i] \in Mbufs
    BY <1>2, <1>3, ElementOfSeq
  <2>2. r + 1 \in Int /\ Len(ring[nic]) \in Int
    BY <1>2, <1>3
  <2> QED
    BY <1>2, <1>3, <2>1, <2>2, SubSeqProperties
<1>5. /\ new \in Seq(Mbufs) /\ Len(new) = nb
      /\ \A i \in 1 .. nb : new[i] = txBufs[nic][off + i]
  <2>1. \A i \in off + 1 .. off + nb : txBufs[nic][i] \in Mbufs
    BY <1>0, <1>2, <1>3
  <2>2. off + 1 \in Int /\ off + nb \in Int
    BY <1>0, <1>3
  <2> QED
    BY <1>0, <1>3, <2>1, <2>2, SubSeqProperties
<1>6. ring'[nic] = old \o new
  <2>1. off + 1 + nb - 1 = off + nb
    BY <1>0, <1>3
  <2>2. ring' = [ring EXCEPT ![nic] = SubSeq(@, r + 1, Len(@)) \o SubSeq(txBufs[nic], off + 1, off + 1 + nb - 1)]
    BY <1>1 DEF TxBurst, Exchange
  <2> QED
    BY <1>0, <2>1, <2>2 DEF TypeOK
<1>7. First(nic) = off + 1
  BY <1>0 DEF First, Flushing
<1>8. Moves(nic, r, nb)
  <2> HIDE DEF old, new
  <2>1. /\ ring'[nic] \in Seq(Mbufs) /\ Len(ring'[nic]) = Len(ring[nic]) - r + nb
        /\ \A i \in 1 .. Len(old) + Len(new) :
             ring'[nic][i] = IF i <= Len(old) THEN old[i] ELSE new[i - Len(old)]
    <3>1. old \in Seq(Mbufs) /\ new \in Seq(Mbufs)
      BY <1>4, <1>5
    <3>2. /\ old \o new \in Seq(Mbufs) /\ Len(old \o new) = Len(old) + Len(new)
          /\ \A i \in 1 .. Len(old) + Len(new) :
               (old \o new)[i] = IF i <= Len(old) THEN old[i] ELSE new[i - Len(old)]
      BY <3>1, ConcatProperties
    <3> QED
      BY <1>4, <1>5, <1>6, <3>2
  <2>2. ASSUME NEW i \in 1 .. Len(ring[nic]) - r
        PROVE  ring'[nic][i] = ring[nic][i + r]
    <3>1. i \in 1 .. Len(old) + Len(new) /\ i <= Len(old)
      BY <1>2, <1>3, <1>4, <1>5
    <3> QED
      BY <1>4, <2>1, <3>1
  <2>3. ASSUME NEW i \in 1 .. nb
        PROVE  ring'[nic][Len(ring[nic]) - r + i] = txBufs[nic][First(nic) + i - 1]
    <3>1. Len(ring[nic]) - r + i \in 1 .. Len(old) + Len(new) /\ ~ (Len(ring[nic]) - r + i <= Len(old))
          /\ (Len(ring[nic]) - r + i) - Len(old) = i /\ First(nic) + i - 1 = off + i
      BY <1>0, <1>2, <1>3, <1>4, <1>5, <1>7
    <3> QED
      BY <1>5, <2>1, <3>1
  <2> QED
    BY <2>1, <2>2, <2>3 DEF Moves
<1> QED
  BY <1>0, <1>1, <1>4, <1>5, <1>8

(* The types of what belongs to adapter n. *)
LEMMA AdapterType ==
  ASSUME TypeOK, CtlInv, NEW n \in Nics
  PROVE  /\ txBufs[n] \in [1 .. Burst -> Mbufs] /\ txIdx[n] \in 0 .. Burst /\ Burst \in Nat
         /\ ring[n] \in Seq(Mbufs) /\ Len(ring[n]) \in Nat /\ \A i \in 1 .. Len(ring[n]) : ring[n][i] \in Mbufs
         /\ rxq[n] \in Seq(Mbufs) /\ Len(rxq[n]) \in Nat /\ \A i \in 1 .. Len(rxq[n]) : rxq[n][i] \in Mbufs
         /\ wired[n] \in Nat /\ wired[n] <= Len(ring[n])
         /\ lent[n] \in SUBSET Mbufs /\ mpool[n] \in SUBSET Mbufs
         /\ pkt[n] \in [Mbufs -> Packets \cup {NoPacket}]
         /\ First(n) \in 1 .. Burst + 1 /\ First(n) + txIdx[n] <= Burst + 1
<1>1. txBufs[n] \in [1 .. Burst -> Mbufs] /\ txIdx[n] \in 0 .. Burst /\ Burst \in Nat
      /\ ring[n] \in Seq(Mbufs) /\ rxq[n] \in Seq(Mbufs)
      /\ wired[n] \in Nat /\ wired[n] <= Len(ring[n])
      /\ lent[n] \in SUBSET Mbufs /\ mpool[n] \in SUBSET Mbufs
      /\ pkt[n] \in [Mbufs -> Packets \cup {NoPacket}] /\ off \in 0 .. Burst
  BY IoAssumption DEF TypeOK
<1>2. Len(ring[n]) \in Nat /\ \A i \in 1 .. Len(ring[n]) : ring[n][i] \in Mbufs
  BY <1>1, ElementOfSeq, LenProperties
<1>3. Len(rxq[n]) \in Nat /\ \A i \in 1 .. Len(rxq[n]) : rxq[n][i] \in Mbufs
  BY <1>1, ElementOfSeq, LenProperties
<1>4. First(n) \in 1 .. Burst + 1 /\ First(n) + txIdx[n] <= Burst + 1
  <2>1. CASE Flushing(n)
    <3>1. First(n) = off + 1 /\ off + txIdx[n] <= Burst
      BY <2>1 DEF First, Flushing, CtlInv
    <3> QED
      BY <1>1, <3>1
  <2>2. CASE ~ Flushing(n)
    <3>1. First(n) = 1
      BY <2>2 DEF First
    <3> QED
      BY <1>1, <3>1
  <2> QED
    BY <2>1, <2>2
<1> QED
  BY <1>1, <1>2, <1>3, <1>4

(* Dpdk::send changes the adapter of the packet. *)
LEMMA ProcessChanges ==
  ASSUME TypeOK, CtlInv, ListInv, NEW p \in Packets, Process(Nic[p], p)
  PROVE  OneChange
<1>1. PICK n \in Nics : n = Nic[p] /\ Process(n, p)
  BY IoAssumption
<1>2. pc = "idle" /\ off = 0 /\ off' = 0 /\ txIdx[n] \in 0 .. Burst /\ Burst \in Nat
      /\ (pc' = "idle" \/ (pc' = "flush" /\ nic' = n))
  BY <1>1, AdapterType DEF Process, Buffer, CtlInv
<1>3. txIdx[n] < Burst
  BY <1>2 DEF ListInv, Flushing
<1>4. \A m \in Nics : First(m) = 1 /\ First(m)' = 1
  BY <1>2 DEF First, Flushing
<1>5. pkt' = [pkt EXCEPT ![n][txBufs[n][txIdx[n] + 1]] = p] /\ txIdx' = [txIdx EXCEPT ![n] = @ + 1]
      /\ UNCHANGED <<txBufs, ring, wired, rxq, lent, mpool>>
  BY <1>1 DEF Process, Buffer, portVars
<1>6. pkt \in [Nics -> [Mbufs -> Packets \cup {NoPacket}]] /\ txIdx \in [Nics -> 0 .. Burst]
  BY DEF TypeOK
<1>7. Buffers(n, p)
  <2>1. InUse(n)
    BY <1>2 DEF InUse, Destroying
  <2> QED
    BY <1>3, <1>4, <1>5, <1>6, <2>1 DEF Buffers, SamePools
<1>8. \A m \in Nics : m # n => Same(m)
  BY <1>4, <1>5, <1>6 DEF Same, SameTx, SamePools
<1> QED
  BY <1>7, <1>8 DEF OneChange, Changes

(* A round of flush changes adapter nic. *)
LEMMA RoundChanges ==
  ASSUME TypeOK, CtlInv, FlushRound(0)
  PROVE  OneChange
<1>1. PICK n \in Nics : n = nic
  BY RoundFacts
<1>2. PICK r \in 0 .. wired[n], nb \in 0 .. txIdx[n] : TxBurst(r, nb) /\ Moves(nic, r, nb)
  BY <1>1, RoundFacts
<1>3. pc = "flush" /\ pc' = "flush" /\ nic' = n /\ nic = n /\ off' = off + nb /\ off \in Nat
  BY <1>1, <1>2, IoAssumption DEF FlushRound, TxBurst, Exchange, TypeOK
<1>4. First(n) = off + 1 /\ First(n)' = off' + 1 /\ \A m \in Nics : m # n => First(m) = 1 /\ First(m)' = 1
  BY <1>3 DEF First, Flushing
<1>5. r \in Nat /\ nb \in Nat
  BY <1>1, AdapterType
<1>6. /\ ring' = [ring EXCEPT ![n] =
                SubSeq(@, r + 1, Len(@)) \o SubSeq(txBufs[n], off + 1, off + 1 + nb - 1)]
      /\ mpool' = [mpool EXCEPT ![n] = @ \cup Sent(r)]
      /\ pkt' = [pkt EXCEPT ![n] = [m \in Mbufs |-> IF m \in Sent(r) THEN NoPacket ELSE @[m]]]
      /\ wired' = [wired EXCEPT ![n] = @ - r]
      /\ txIdx' = [txIdx EXCEPT ![n] = @ - nb]
      /\ UNCHANGED <<txBufs, rxq, lent>>
  BY <1>1, <1>2 DEF TxBurst, Exchange
<1>7. pkt \in [Nics -> [Mbufs -> Packets \cup {NoPacket}]] /\ txIdx \in [Nics -> 0 .. Burst]
      /\ wired \in [Nics -> Nat] /\ mpool \in [Nics -> SUBSET Mbufs] /\ ring \in [Nics -> Seq(Mbufs)]
  BY DEF TypeOK
<1>8. Drains(n, r, nb)
  <2>1. mpool'[n] = mpool[n] \cup {ring[n][i] : i \in 1 .. r}
        /\ wired'[n] = wired[n] - r /\ txIdx'[n] = txIdx[n] - nb
    BY <1>3, <1>6, <1>7 DEF Sent
  <2>2. ASSUME NEW m \in Mbufs
        PROVE  \/ pkt'[n][m] = NoPacket /\ \E i \in 1 .. r : ring[n][i] = m
               \/ pkt'[n][m] = pkt[n][m] /\ \A i \in 1 .. r : ring[n][i] # m
    <3>1. pkt'[n][m] = IF m \in Sent(r) THEN NoPacket ELSE pkt[n][m]
      BY <1>1, <1>6, <1>7
    <3> QED
      BY <1>3, <3>1 DEF Sent
  <2>3. First(n) + txIdx[n] <= Burst + 1
    BY <1>1, AdapterType
  <2>4. First(n)' = First(n) + nb
    BY <1>3, <1>4, <1>5
  <2>5. InUse(n)
    BY <1>3, IoAssumption DEF InUse, Nics
  <2> QED
    BY <1>1, <1>2, <1>6, <2>1, <2>2, <2>3, <2>4, <2>5 DEF Drains
<1>9. \A m \in Nics : m # n => Same(m)
  BY <1>1, <1>4, <1>6, <1>7 DEF Same, SameTx, SamePools
<1> QED
  BY <1>1, <1>5, <1>8, <1>9 DEF OneChange, Changes

(* flush ends, and the control variables are those of its caller. *)
LEMMA ReturnFacts ==
  ASSUME TypeOK, CtlInv, pc = "flush", FlushReturns
  PROVE  /\ nic \in Nics /\ pc' \in {"idle", "pollFlush", "destroy"} /\ off' = 0
         /\ First(nic) = off + 1
         /\ \A m \in Nics : First(m)' = 1 /\ (m # nic => First(m) = 1)
BY DEF FlushReturns, CtlInv, First, Flushing

(* The refill changes adapter nic. *)
LEMMA RefillChanges ==
  ASSUME TypeOK, CtlInv, Refill
  PROVE  OneChange
<1>1. pc = "flush" /\ FlushReturns /\ txIdx[nic] = 0
  BY DEF Refill
<1>2. PICK n \in Nics : n = nic
  BY <1>1, ReturnFacts
<1>a. First(n) = off + 1 /\ First(n)' = 1 /\ off \in Nat /\ off <= Burst /\ Burst \in Nat
      /\ \A m \in Nics : m # n => First(m) = 1 /\ First(m)' = 1
  <2>1. off \in 0 .. Burst /\ Burst \in Nat
    BY IoAssumption DEF TypeOK
  <2>2. First(nic) = off + 1 /\ \A m \in Nics : First(m)' = 1 /\ (m # nic => First(m) = 1)
    BY <1>1, ReturnFacts
  <2> QED
    BY <1>2, <2>1, <2>2
<1>3. PICK ms \in Bulk(n, off) :
       /\ txBufs' = [txBufs EXCEPT ![n] =
                       [i \in 1 .. Burst |-> IF i <= off THEN ms[i] ELSE @[i]]]
       /\ mpool' = [mpool EXCEPT ![n] = @ \ {ms[i] : i \in 1 .. off}]
  <2>1. \E ms \in Bulk(nic, off) :
       /\ txBufs' = [txBufs EXCEPT ![nic] =
                       [i \in 1 .. Burst |-> IF i <= off THEN ms[i] ELSE @[i]]]
       /\ mpool' = [mpool EXCEPT ![nic] = @ \ {ms[i] : i \in 1 .. off}]
    BY DEF Refill
  <2> QED
    BY <1>2, <2>1, Zenon
<1>4. UNCHANGED <<txIdx, ring, wired, rxq, lent, pkt>>
  BY DEF Refill
<1>5. txBufs \in [Nics -> [1 .. Burst -> Mbufs]] /\ mpool \in [Nics -> SUBSET Mbufs]
  BY DEF TypeOK
<1>6. First(n) - 1 = off
  BY <1>a
<1>7. /\ ms \in [1 .. First(n) - 1 -> mpool[n]] /\ ms \in [1 .. First(n) - 1 -> Mbufs]
      /\ \A i, j \in 1 .. First(n) - 1 : i # j => ms[i] # ms[j]
  BY <1>a, <1>5, <1>6 DEF Bulk
<1>8. mpool'[n] = mpool[n] \ {ms[i] : i \in 1 .. First(n) - 1}
  BY <1>2, <1>3, <1>5, <1>6
<1>9. ASSUME NEW i \in 1 .. Burst
      PROVE  \/ i < First(n) /\ txBufs'[n][i] = ms[i]
             \/ i >= First(n) /\ txBufs'[n][i] = txBufs[n][i]
  <2>1. txBufs'[n][i] = IF i <= off THEN ms[i] ELSE txBufs[n][i]
    BY <1>2, <1>3, <1>5
  <2> QED
    BY <1>a, <2>1
<1>10. Refills(n, ms)
  BY <1>1, <1>2, <1>a, <1>4, <1>7, <1>8, <1>9 DEF Refills
<1>11. \A m \in Nics : m # n => Same(m)
  BY <1>a, <1>3, <1>4, <1>5 DEF Same, SameTx, SamePools
<1> QED
  BY <1>2, <1>7, <1>10, <1>11 DEF OneChange, Changes

(* When the refill fails, the adapter is not used any more. *)
LEMMA RefillFailsChanges ==
  ASSUME TypeOK, CtlInv, RefillFails
  PROVE  OneChange
<1>1. pc = "flush" /\ txIdx[nic] = 0 /\ UNCHANGED <<txBufs, txIdx, ring, wired, rxq, lent, mpool, pkt>>
  BY DEF RefillFails, portVars
<1>2. PICK n \in Nics : n = nic
  BY <1>1 DEF CtlInv
<1>3. First(n)' = 1 /\ ~ InUse(n)' /\ \A m \in Nics : m # n => First(m) = 1 /\ First(m)' = 1
  <2>1. CASE pc' = "failed"
    BY <1>1, <1>2, <2>1 DEF First, Flushing, InUse
  <2>2. CASE caller = "destroy" /\ FlushReturns
    <3>1. pc' = "destroy" /\ nic' = n + 1 /\ n \in Nat
      BY <1>2, <2>2 DEF FlushReturns, Nics
    <3>2. ~ InUse(n)'
      BY <3>1 DEF InUse, Destroying
    <3> QED
      BY <1>1, <1>2, <2>2, <3>2, ReturnFacts
  <2> QED
    BY <2>1, <2>2 DEF RefillFails
<1>4. GivesUp(n)
  BY <1>1, <1>2, <1>3 DEF GivesUp, SamePools
<1>5. \A m \in Nics : m # n => Same(m)
  BY <1>1, <1>3 DEF Same, SameTx, SamePools
<1> QED
  BY <1>2, <1>4, <1>5 DEF OneChange, Changes

(* A port changes its own state, and a poll takes up frames. *)
LEMMA PortChanges ==
  ASSUME TypeOK, CtlInv, NEW n \in Nics, Transmit(n) \/ Arrive(n) \/ Return(n)
  PROVE  OneChange
<1>1. \A m \in Nics : First(m)' = First(m)
  BY DEF Transmit, Arrive, Return, First, Flushing
<1>2. wired \in [Nics -> Nat] /\ mpool \in [Nics -> SUBSET Mbufs] /\ rxq \in [Nics -> Seq(Mbufs)]
      /\ lent \in [Nics -> SUBSET Mbufs]
  BY DEF TypeOK
<1>3. CASE Transmit(n)
  <2>1. Transmits(n)
    BY <1>1, <1>2, <1>3 DEF Transmit, Transmits, SameTx, SamePools
  <2>2. \A m \in Nics : m # n => Same(m)
    BY <1>1, <1>2, <1>3 DEF Transmit, Same, SameTx, SamePools
  <2> QED
    BY <2>1, <2>2 DEF OneChange, Changes
<1>4. CASE Arrive(n)
  <2>1. PICK x \in mpool[n] : mpool' = [mpool EXCEPT ![n] = @ \ {x}] /\ rxq' = [rxq EXCEPT ![n] = Append(@, x)]
    BY <1>4 DEF Arrive
  <2>2. UNCHANGED <<txBufs, txIdx, ring, wired, lent, pkt>>
    BY <1>4 DEF Arrive
  <2>3. x \in Mbufs /\ rxq[n] \in Seq(Mbufs) /\ rxq'[n] = Append(rxq[n], x)
    BY <1>2, <2>1
  <2>4. Arrives(n, x)
    BY <1>1, <1>2, <2>1, <2>2, <2>3, AppendProperties DEF Arrives, SameTx
  <2>5. \A m \in Nics : m # n => Same(m)
    BY <1>1, <1>2, <2>1, <2>2 DEF Same, SameTx, SamePools
  <2> QED
    BY <2>3, <2>4, <2>5 DEF OneChange, Changes
<1>5. CASE Return(n)
  <2>1. PICK x \in lent[n] : lent' = [lent EXCEPT ![n] = @ \ {x}] /\ mpool' = [mpool EXCEPT ![n] = @ \cup {x}]
    BY <1>5 DEF Return
  <2>2. UNCHANGED <<txBufs, txIdx, ring, wired, rxq, pkt>>
    BY <1>5 DEF Return
  <2>3. GetsBack(n, x) /\ x \in Mbufs
    BY <1>1, <1>2, <2>1, <2>2 DEF GetsBack, SameTx
  <2>4. \A m \in Nics : m # n => Same(m)
    BY <1>1, <1>2, <2>1, <2>2 DEF Same, SameTx, SamePools
  <2> QED
    BY <2>3, <2>4 DEF OneChange, Changes
<1> QED
  BY <1>3, <1>4, <1>5

(* Dpdk::recv changes adapter nic. *)
LEMMA RecvChanges ==
  ASSUME TypeOK, CtlInv, Recv
  PROVE  OneChange
<1>1. PICK n \in Nics : n = nic
  BY IoAssumption DEF Recv, TypeOK, Nics
<1>2. rxq \in [Nics -> Seq(Mbufs)] /\ lent \in [Nics -> SUBSET Mbufs] /\ Burst \in Nat \ {0}
  BY IoAssumption DEF TypeOK
<1>3. rxq[n] # <<>> /\ rxq[n] \in Seq(Mbufs) /\ Len(rxq[n]) \in Nat \ {0}
  BY <1>1, <1>2, EmptySeq DEF Recv
<1>4. PICK k \in 1 .. Len(rxq[n]) :
        /\ lent' = [lent EXCEPT ![n] = @ \cup {rxq[n][i] : i \in 1 .. k}]
        /\ rxq' = [rxq EXCEPT ![n] = SubSeq(@, k + 1, Len(@))]
  <2> DEFINE k == IF Len(rxq[n]) < Burst THEN Len(rxq[n]) ELSE Burst
  <2>1. k \in 1 .. Len(rxq[n])
    BY <1>2, <1>3
  <2>2. /\ lent' = [lent EXCEPT ![n] = @ \cup {rxq[n][i] : i \in 1 .. k}]
        /\ rxq' = [rxq EXCEPT ![n] = SubSeq(@, k + 1, Len(@))]
    BY <1>1 DEF Recv
  <2> QED
    BY <2>1, <2>2
<1>5. pc = "pollRecv" /\ pc' = "idle" /\ UNCHANGED <<txBufs, txIdx, off, ring, wired, mpool, pkt>>
  BY DEF Recv
<1>6. \A m \in Nics : First(m) = 1 /\ First(m)' = 1
  BY <1>5 DEF First, Flushing
<1>7. Receives(n, k)
  <2>1. lent'[n] = lent[n] \cup {rxq[n][i] : i \in 1 .. k} /\ rxq'[n] = SubSeq(rxq[n], k + 1, Len(rxq[n]))
    BY <1>2, <1>4
  <2>2. k \in Int /\ k + 1 \in Int /\ Len(rxq[n]) \in Int /\ k <= Len(rxq[n])
    BY <1>3
  <2>3. \A i \in k + 1 .. Len(rxq[n]) : rxq[n][i] \in Mbufs
    BY <1>3, <2>2, ElementOfSeq
  <2>4. /\ Len(SubSeq(rxq[n], k + 1, Len(rxq[n]))) = Len(rxq[n]) - k
        /\ \A i \in 1 .. Len(rxq[n]) - k : SubSeq(rxq[n], k + 1, Len(rxq[n]))[i] = rxq[n][i + k]
    BY <2>2, <2>3, SubSeqProperties
  <2> QED
    BY <1>5, <1>6, <2>1, <2>4 DEF Receives, SameTx
<1>8. \A m \in Nics : m # n => Same(m)
  BY <1>2, <1>4, <1>5, <1>6 DEF Same, SameTx, SamePools
<1> QED
  BY <1>3, <1>7, <1>8 DEF OneChange, Changes

(* A step changes one adapter at most, in one of these ways. *)
LEMMA Locality ==
  ASSUME TypeOK, CtlInv, ListInv, [Next]_vars
  PROVE  OneChange
<1>1. ASSUME UNCHANGED <<off, txBufs, txIdx, ring, wired, rxq, lent, mpool, pkt>>,
             pc # "flush" => off = 0,
             UNCHANGED <<pc, nic>> \/ pc # "flush"
      PROVE  OneChange
  <2>1. \A m \in Nics : First(m)' = First(m)
    BY <1>1 DEF First, Flushing, TypeOK
  <2> QED
    BY <1>1, <2>1 DEF OneChange, Same, SameTx, SamePools
<1>2. CASE PollBegin \/ PollFlushDone \/ RecvNop \/ RecvDone \/ RecvFails \/ DestroyBegin \/ DestroyDone
  BY <1>1, <1>2 DEF PollBegin, PollFlushDone, RecvFrom, RecvNop, RecvDone, RecvFails, DestroyBegin,
                    DestroyDone, CtlInv, portVars
<1>3. CASE PollFlush \/ DestroyNext
  BY <1>1, <1>3 DEF PollFlush, FlushLast, DestroyNext, CtlInv, portVars
<1>4. CASE UNCHANGED vars
  <2>1. \A m \in Nics : First(m)' = First(m)
    BY <1>4 DEF First, Flushing, vars
  <2> QED
    BY <1>4, <2>1 DEF OneChange, Same, SameTx, SamePools, vars
<1> QED
  BY <1>2, <1>3, <1>4, StepCases, ProcessChanges, RoundChanges, RefillChanges, RefillFailsChanges,
     PortChanges, RecvChanges

(* An adapter that is not used any more is not used again. *)
LEMMA UseShrinks ==
  ASSUME TypeOK, CtlInv, [Next]_vars, NEW n \in Nics, InUse(n)'
  PROVE  InUse(n)
<1>0. NumNics \in Nat /\ n \in 1 .. NumNics /\ nic \in 1 .. NumNics + 1
  BY IoAssumption DEF Nics, TypeOK
<1>1. CASE pc \in {"idle", "pollFlush", "pollRecv"} \/ (pc = "flush" /\ caller # "destroy")
  BY <1>1 DEF InUse, Destroying
<1>2. CASE pc = "destroy" \/ (pc = "flush" /\ caller = "destroy")
  <2>1. (pc' = "destroy" \/ (pc' = "flush" /\ caller' = "destroy") \/ pc' \in {"stopped", "failed"})
        /\ nic <= nic'
    BY <1>0, <1>2, StepCases
       DEF Process, FlushRound, TxBurst, Exchange, Refill, RefillFails, FlushReturns, PollBegin,
           PollFlush, PollFlushDone, RecvFrom, RecvNop, Recv, RecvFails, RecvDone, DestroyBegin,
           DestroyNext, FlushBegins, DestroyDone, Transmit, Arrive, Return, vars
  <2>2. nic' <= n /\ nic' \in Int
    <3>1. nic' = nic \/ nic' = nic + 1
      BY <1>0, <1>2, StepCases
         DEF Process, FlushRound, TxBurst, Exchange, Refill, RefillFails, FlushReturns, PollBegin,
             PollFlush, PollFlushDone, RecvFrom, RecvNop, Recv, RecvFails, RecvDone, DestroyBegin,
             DestroyNext, FlushBegins, DestroyDone, Transmit, Arrive, Return, vars
    <3> QED
      BY <1>0, <2>1, <3>1 DEF InUse, Destroying
  <2> QED
    BY <1>0, <1>2, <2>1, <2>2 DEF InUse, Destroying
<1>3. CASE pc \in {"stopped", "failed"}
  BY <1>3, StepCases
     DEF Process, FlushRound, Refill, RefillFails, PollBegin,
         PollFlush, PollFlushDone, RecvFrom, RecvNop, Recv, RecvFails, RecvDone, DestroyBegin,
         DestroyNext, DestroyDone, Transmit, Arrive, Return, vars, InUse
<1> QED
  BY <1>1, <1>2, <1>3 DEF TypeOK, Labels

-----------------------------------------------------------------------------
(* Who owns an mbuf.                                                       *)

(* Where the entries of the ring come from after it has lost its r oldest  *)
(* mbufs and got nb of the buffer.                                         *)
LEMMA RingEntries ==
  ASSUME NEW R, NEW lr \in Nat, NEW R2, NEW B, NEW F \in Nat \ {0}, NEW r \in Nat, NEW nb \in Nat,
         r <= lr,
         \A i \in 1 .. lr - r : R2[i] = R[i + r],
         \A i \in 1 .. nb : R2[lr - r + i] = B[F + i - 1]
  PROVE  /\ \A i \in 1 .. lr - r + nb :
              \/ \E k \in r + 1 .. lr : k = i + r /\ R2[i] = R[k]
              \/ \E k \in F .. F + nb - 1 : k = F + i - (lr - r) - 1 /\ R2[i] = B[k]
         /\ \A m : Holds(R2, 1, lr - r + nb, m) <=> Holds(R, r + 1, lr, m) \/ Holds(B, F, F + nb - 1, m)
<1>1. ASSUME NEW i \in 1 .. lr - r + nb
      PROVE  \/ \E k \in r + 1 .. lr : k = i + r /\ R2[i] = R[k]
             \/ \E k \in F .. F + nb - 1 : k = F + i - (lr - r) - 1 /\ R2[i] = B[k]
  <2>1. CASE i <= lr - r
    BY <2>1
  <2>2. CASE i > lr - r
    <3>1. PICK j \in 1 .. nb : j = i - (lr - r)
      BY <2>2
    <3>2. R2[lr - r + j] = B[F + j - 1]
      OBVIOUS
    <3>3. lr - r + j = i /\ F + j - 1 = F + i - (lr - r) - 1 /\ F + j - 1 \in F .. F + nb - 1
      BY <3>1
    <3> QED
      BY <3>2, <3>3
  <2> QED
    BY <2>1, <2>2
<1>2. ASSUME NEW m
      PROVE  Holds(R2, 1, lr - r + nb, m) <=> Holds(R, r + 1, lr, m) \/ Holds(B, F, F + nb - 1, m)
  <2>1. ASSUME NEW i \in 1 .. lr - r + nb, R2[i] = m
        PROVE  Holds(R, r + 1, lr, m) \/ Holds(B, F, F + nb - 1, m)
    BY <1>1, <2>1 DEF Holds
  <2>2. ASSUME NEW i \in r + 1 .. lr, R[i] = m
        PROVE  \E j \in 1 .. lr - r + nb : R2[j] = m
    <3>1. i - r \in 1 .. lr - r + nb /\ i - r \in 1 .. lr - r /\ (i - r) + r = i
      OBVIOUS
    <3> QED
      BY <2>2, <3>1
  <2>3. ASSUME NEW i \in F .. F + nb - 1, B[i] = m
        PROVE  \E j \in 1 .. lr - r + nb : R2[j] = m
    <3>1. PICK k \in 1 .. nb : k = i - F + 1
      OBVIOUS
    <3>2. R2[lr - r + k] = B[F + k - 1]
      OBVIOUS
    <3>3. lr - r + k \in 1 .. lr - r + nb /\ F + k - 1 = i
      BY <3>1
    <3> QED
      BY <2>3, <3>2, <3>3
  <2> QED
    BY <2>1, <2>2, <2>3 DEF Holds
<1> QED
  BY <1>1, <1>2

(* A round of flush as it changes a ring, a buffer and a pool. *)
Drained(R, lr, R2, lr2, B, F, F2, P, P2, r, nb) ==
  /\ lr \in Nat /\ F \in Nat \ {0} /\ r \in Nat /\ nb \in Nat /\ Burst \in Nat
  /\ r <= lr /\ F + nb <= Burst + 1
  /\ \A i \in 1 .. lr : R[i] \in Mbufs
  /\ \A i \in 1 .. Burst : B[i] \in Mbufs
  /\ \A i \in 1 .. lr - r : R2[i] = R[i + r]
  /\ \A i \in 1 .. nb : R2[lr - r + i] = B[F + i - 1]
  /\ lr2 = lr - r + nb /\ F2 = F + nb
  /\ \A m : m \in P2 <=> m \in P \/ Holds(R, 1, r, m)

(* The refill, as it changes a buffer and a pool. *)
Refilled(B, F, B2, P, P2, ms) ==
  /\ F \in 1 .. Burst + 1 /\ P \in SUBSET Mbufs /\ Burst \in Nat
  /\ ms \in [1 .. F - 1 -> P]
  /\ \A i, j \in 1 .. F - 1 : i # j => ms[i] # ms[j]
  /\ \A i \in 1 .. Burst : B[i] \in Mbufs
  /\ \A i \in 1 .. Burst : (i < F /\ B2[i] = ms[i]) \/ (i >= F /\ B2[i] = B[i])
  /\ \A m : m \in P2 <=> m \in P /\ ~ Holds(ms, 1, F - 1, m)

(* A receive, as it changes a queue and the mbufs that are lent. *)
Received(Q, lq, Q2, lq2, L, L2, k) ==
  /\ lq \in Nat /\ k \in 1 .. lq
  /\ \A i \in 1 .. lq - k : Q2[i] = Q[i + k]
  /\ lq2 = lq - k
  /\ \A m : m \in L2 <=> m \in L \/ Holds(Q, 1, k, m)

(* A range that is split in two. *)
LEMMA HoldsSplit ==
  ASSUME NEW f, NEW a, NEW b, NEW d, NEW c,
         \A i : i \in a .. c <=> i \in a .. b \/ i \in d .. c,
         \A i : ~ (i \in a .. b /\ i \in d .. c)
  PROVE  /\ \A m : Holds(f, a, c, m) <=> Holds(f, a, b, m) \/ Holds(f, d, c, m)
         /\ Once(f, a, c) => /\ Once(f, a, b) /\ Once(f, d, c)
                             /\ \A m : ~ (Holds(f, a, b, m) /\ Holds(f, d, c, m))
BY DEF Holds, Once

(* A round of flush moves mbufs from the buffer to the ring and from there *)
(* to the pool.                                                            *)
LEMMA ApartDrain ==
  ASSUME NEW R, NEW lr, NEW R2, NEW lr2, NEW Q, NEW lq, NEW B, NEW F, NEW F2, NEW P, NEW P2, NEW L,
         NEW r, NEW nb,
         Drained(R, lr, R2, lr2, B, F, F2, P, P2, r, nb), Apart(R, lr, Q, lq, B, F, P, L)
  PROVE  Apart(R2, lr2, Q, lq, B, F2, P2, L)
<1>0. /\ lr \in Nat /\ F \in Nat \ {0} /\ r \in Nat /\ nb \in Nat /\ Burst \in Nat
      /\ r <= lr /\ F + nb <= Burst + 1
      /\ \A i \in 1 .. lr : R[i] \in Mbufs
      /\ \A i \in 1 .. Burst : B[i] \in Mbufs
      /\ \A i \in 1 .. lr - r : R2[i] = R[i + r]
      /\ \A i \in 1 .. nb : R2[lr - r + i] = B[F + i - 1]
      /\ lr2 = lr - r + nb /\ F2 = F + nb
      /\ \A m : m \in P2 <=> m \in P \/ Holds(R, 1, r, m)
  BY DEF Drained
<1> USE <1>0
<1>1. /\ \A i \in 1 .. lr - r + nb :
           \/ \E k \in r + 1 .. lr : k = i + r /\ R2[i] = R[k]
           \/ \E k \in F .. F + nb - 1 : k = F + i - (lr - r) - 1 /\ R2[i] = B[k]
      /\ \A m : Holds(R2, 1, lr - r + nb, m) <=> Holds(R, r + 1, lr, m) \/ Holds(B, F, F + nb - 1, m)
  BY RingEntries
<1>2. /\ \A m : Holds(R, 1, lr, m) <=> Holds(R, 1, r, m) \/ Holds(R, r + 1, lr, m)
      /\ Once(R, r + 1, lr) /\ \A m : ~ (Holds(R, 1, r, m) /\ Holds(R, r + 1, lr, m))
  <2>1. /\ \A i : i \in 1 .. lr <=> i \in 1 .. r \/ i \in r + 1 .. lr
        /\ \A i : ~ (i \in 1 .. r /\ i \in r + 1 .. lr)
    OBVIOUS
  <2>2. Once(R, 1, lr)
    BY DEF Apart
  <2>3. /\ \A m : Holds(R, 1, lr, m) <=> Holds(R, 1, r, m) \/ Holds(R, r + 1, lr, m)
        /\ Once(R, 1, lr) => /\ Once(R, 1, r) /\ Once(R, r + 1, lr)
                             /\ \A m : ~ (Holds(R, 1, r, m) /\ Holds(R, r + 1, lr, m))
    BY <2>1, HoldsSplit
  <2> QED
    BY <2>2, <2>3
<1>3. /\ \A i : i \in F .. Burst <=> i \in F .. F + nb - 1 \/ i \in F + nb .. Burst
      /\ \A i : ~ (i \in F .. F + nb - 1 /\ i \in F + nb .. Burst)
  OBVIOUS
<1>4. /\ \A m : Holds(B, F, Burst, m) <=> Holds(B, F, F + nb - 1, m) \/ Holds(B, F + nb, Burst, m)
      /\ Once(B, F, F + nb - 1) /\ Once(B, F + nb, Burst)
      /\ \A m : ~ (Holds(B, F, F + nb - 1, m) /\ Holds(B, F + nb, Burst, m))
  <2>1. Once(B, F, Burst)
    BY DEF Apart
  <2>2. /\ \A m : Holds(B, F, Burst, m) <=> Holds(B, F, F + nb - 1, m) \/ Holds(B, F + nb, Burst, m)
        /\ Once(B, F, Burst) => /\ Once(B, F, F + nb - 1) /\ Once(B, F + nb, Burst)
                                /\ \A m : ~ (Holds(B, F, F + nb - 1, m) /\ Holds(B, F + nb, Burst, m))
    BY ONLY <1>3, HoldsSplit
  <2> QED
    BY <2>1, <2>2
<1>5. ASSUME NEW k \in r + 1 .. lr, NEW l \in F .. F + nb - 1, R[k] = B[l]
      PROVE  FALSE
  <2>1. Holds(R, r + 1, lr, R[k]) /\ Holds(B, F, F + nb - 1, R[k])
    BY <1>5 DEF Holds
  <2>2. R[k] \in Mbufs
    OBVIOUS
  <2> QED
    BY <1>2, <1>4, <2>1, <2>2 DEF Apart
<1>6. Once(R2, 1, lr - r + nb)
  <2> SUFFICES ASSUME NEW i \in 1 .. lr - r + nb, NEW j \in 1 .. lr - r + nb, R2[i] = R2[j]
               PROVE  i = j
    BY DEF Once
  <2>1. ASSUME NEW k \in r + 1 .. lr, k = i + r, R2[i] = R[k],
               NEW l \in r + 1 .. lr, l = j + r, R2[j] = R[l]
        PROVE  i = j
    <3>1. k = l
      BY <1>2, <2>1 DEF Once
    <3> QED
      BY <2>1, <3>1
  <2>2. ASSUME NEW k \in F .. F + nb - 1, k = F + i - (lr - r) - 1, R2[i] = B[k],
               NEW l \in F .. F + nb - 1, l = F + j - (lr - r) - 1, R2[j] = B[l]
        PROVE  i = j
    <3>1. k = l
      BY <1>4, <2>2 DEF Once
    <3> QED
      BY <2>2, <3>1
  <2> QED
    BY <1>1, <1>5, <2>1, <2>2
<1>7. ASSUME NEW m \in Mbufs
      PROVE  /\ m \in P2 => m \notin L /\ ~ Holds(R2, 1, lr2, m) /\ ~ Holds(Q, 1, lq, m)
                              /\ ~ Holds(B, F2, Burst, m)
             /\ m \in L => ~ Holds(R2, 1, lr2, m) /\ ~ Holds(Q, 1, lq, m) /\ ~ Holds(B, F2, Burst, m)
             /\ Holds(R2, 1, lr2, m) => ~ Holds(Q, 1, lq, m) /\ ~ Holds(B, F2, Burst, m)
             /\ Holds(Q, 1, lq, m) => ~ Holds(B, F2, Burst, m)
             /\ m \in P2 \/ m \in L \/ Holds(R2, 1, lr2, m) \/ Holds(Q, 1, lq, m) \/ Holds(B, F2, Burst, m)
  BY <1>1, <1>2, <1>4 DEF Apart
<1>8. Once(Q, 1, lq)
  BY DEF Apart
<1> QED
  BY <1>4, <1>6, <1>7, <1>8 DEF Apart

(* The refill moves mbufs from the pool to the slots before F. *)
LEMMA ApartRefill ==
  ASSUME NEW R, NEW lr, NEW Q, NEW lq, NEW B, NEW B2, NEW F, NEW P, NEW P2, NEW L, NEW ms,
         Refilled(B, F, B2, P, P2, ms), Apart(R, lr, Q, lq, B, F, P, L)
  PROVE  Apart(R, lr, Q, lq, B2, 1, P2, L)
<1>0. /\ F \in 1 .. Burst + 1 /\ P \in SUBSET Mbufs /\ Burst \in Nat
      /\ ms \in [1 .. F - 1 -> P]
      /\ \A i, j \in 1 .. F - 1 : i # j => ms[i] # ms[j]
      /\ \A i \in 1 .. Burst : B[i] \in Mbufs
      /\ \A i \in 1 .. Burst : (i < F /\ B2[i] = ms[i]) \/ (i >= F /\ B2[i] = B[i])
      /\ \A m : m \in P2 <=> m \in P /\ ~ Holds(ms, 1, F - 1, m)
  BY DEF Refilled
<1> USE <1>0
<1>1. \A i \in 1 .. F - 1 : i \in 1 .. Burst /\ B2[i] = ms[i] /\ ms[i] \in P
  OBVIOUS
<1>2. \A i \in F .. Burst : i \in 1 .. Burst /\ B2[i] = B[i]
  OBVIOUS
<1>3. \A i : i \in 1 .. Burst <=> i \in 1 .. F - 1 \/ i \in F .. Burst
  OBVIOUS
<1>4. \A m : Holds(ms, 1, F - 1, m) => m \in P
  BY <1>1 DEF Holds
<1>5. \A m : Holds(B2, 1, Burst, m) <=> Holds(ms, 1, F - 1, m) \/ Holds(B, F, Burst, m)
  BY <1>1, <1>2, <1>3 DEF Holds
<1>6. ASSUME NEW i \in 1 .. F - 1, NEW j \in F .. Burst, ms[i] = B[j]
      PROVE  FALSE
  <2>1. ms[i] \in P /\ ms[i] \in Mbufs /\ Holds(B, F, Burst, ms[i])
    BY <1>1, <1>6 DEF Holds
  <2> QED
    BY <2>1 DEF Apart
<1>7. Once(B2, 1, Burst)
  <2> SUFFICES ASSUME NEW i \in 1 .. Burst, NEW j \in 1 .. Burst, B2[i] = B2[j]
               PROVE  i = j
    BY DEF Once
  <2>1. CASE i \in 1 .. F - 1 /\ j \in 1 .. F - 1
    BY <1>1, <2>1
  <2>2. CASE i \in F .. Burst /\ j \in F .. Burst
    BY <1>2, <2>2 DEF Apart, Once
  <2> QED
    BY <1>1, <1>2, <1>3, <1>6, <2>1, <2>2
<1>8. ASSUME NEW m \in Mbufs
      PROVE  /\ m \in P2 => m \notin L /\ ~ Holds(R, 1, lr, m) /\ ~ Holds(Q, 1, lq, m)
                              /\ ~ Holds(B2, 1, Burst, m)
             /\ m \in L => ~ Holds(R, 1, lr, m) /\ ~ Holds(Q, 1, lq, m) /\ ~ Holds(B2, 1, Burst, m)
             /\ Holds(R, 1, lr, m) => ~ Holds(Q, 1, lq, m) /\ ~ Holds(B2, 1, Burst, m)
             /\ Holds(Q, 1, lq, m) => ~ Holds(B2, 1, Burst, m)
             /\ m \in P2 \/ m \in L \/ Holds(R, 1, lr, m) \/ Holds(Q, 1, lq, m) \/ Holds(B2, 1, Burst, m)
  BY <1>4, <1>5 DEF Apart
<1> QED
  BY <1>7, <1>8 DEF Apart

(* Dpdk::recv lends the k oldest mbufs of the receive queue. *)
LEMMA ApartReceive ==
  ASSUME NEW R, NEW lr, NEW Q, NEW lq, NEW Q2, NEW lq2, NEW B, NEW F, NEW P, NEW L, NEW L2, NEW k,
         Received(Q, lq, Q2, lq2, L, L2, k), Apart(R, lr, Q, lq, B, F, P, L)
  PROVE  Apart(R, lr, Q2, lq2, B, F, P, L2)
<1>1. /\ lq \in Nat /\ k \in 1 .. lq
      /\ \A i \in 1 .. lq - k : Q2[i] = Q[i + k]
      /\ lq2 = lq - k
      /\ \A m : m \in L2 <=> m \in L \/ Holds(Q, 1, k, m)
  BY DEF Received
<1> USE <1>1
<1>2. /\ \A i : i \in 1 .. lq <=> i \in 1 .. k \/ i \in k + 1 .. lq
      /\ \A i : ~ (i \in 1 .. k /\ i \in k + 1 .. lq)
  OBVIOUS
<1>3. /\ \A m : Holds(Q, 1, lq, m) <=> Holds(Q, 1, k, m) \/ Holds(Q, k + 1, lq, m)
      /\ Once(Q, 1, lq) => /\ Once(Q, 1, k) /\ Once(Q, k + 1, lq)
                           /\ \A m : ~ (Holds(Q, 1, k, m) /\ Holds(Q, k + 1, lq, m))
  BY <1>2, HoldsSplit
<1>4. ASSUME NEW m
      PROVE  Holds(Q2, 1, lq - k, m) <=> Holds(Q, k + 1, lq, m)
  <2>1. ASSUME NEW i \in 1 .. lq - k, Q2[i] = m
        PROVE  \E j \in k + 1 .. lq : Q[j] = m
    <3>1. i + k \in k + 1 .. lq /\ Q[i + k] = m
      BY <2>1
    <3> QED
      BY <3>1
  <2>2. ASSUME NEW i \in k + 1 .. lq, Q[i] = m
        PROVE  \E j \in 1 .. lq - k : Q2[j] = m
    <3>1. i - k \in 1 .. lq - k /\ (i - k) + k = i
      OBVIOUS
    <3> QED
      BY <2>2, <3>1
  <2> QED
    BY <2>1, <2>2 DEF Holds
<1>5. Once(Q2, 1, lq - k)
  <2> SUFFICES ASSUME NEW i \in 1 .. lq - k, NEW j \in 1 .. lq - k, Q2[i] = Q2[j]
               PROVE  i = j
    BY DEF Once
  <2>1. i + k \in 1 .. lq /\ j + k \in 1 .. lq /\ Q[i + k] = Q[j + k]
    OBVIOUS
  <2>2. i + k = j + k
    BY <2>1 DEF Apart, Once
  <2> QED
    BY <2>2
<1>6. ASSUME NEW m \in Mbufs
      PROVE  /\ m \in P => m \notin L2 /\ ~ Holds(R, 1, lr, m) /\ ~ Holds(Q2, 1, lq2, m)
                              /\ ~ Holds(B, F, Burst, m)
             /\ m \in L2 => ~ Holds(R, 1, lr, m) /\ ~ Holds(Q2, 1, lq2, m) /\ ~ Holds(B, F, Burst, m)
             /\ Holds(R, 1, lr, m) => ~ Holds(Q2, 1, lq2, m) /\ ~ Holds(B, F, Burst, m)
             /\ Holds(Q2, 1, lq2, m) => ~ Holds(B, F, Burst, m)
             /\ m \in P \/ m \in L2 \/ Holds(R, 1, lr, m) \/ Holds(Q2, 1, lq2, m) \/ Holds(B, F, Burst, m)
  BY <1>3, <1>4 DEF Apart
<1>7. Once(R, 1, lr) /\ Once(B, F, Burst)
  BY DEF Apart
<1> QED
  BY <1>5, <1>6, <1>7 DEF Apart

(* A frame is received into mbuf x of the pool. *)
LEMMA ApartArrive ==
  ASSUME NEW R, NEW lr, NEW Q, NEW Q2, NEW lq \in Nat, NEW B, NEW F, NEW P, NEW L, NEW x \in P, x \in Mbufs,
         \A i \in 1 .. lq : Q2[i] = Q[i], Q2[lq + 1] = x,
         Apart(R, lr, Q, lq, B, F, P, L)
  PROVE  Apart(R, lr, Q2, lq + 1, B, F, P \ {x}, L)
<1>1. \A i : i \in 1 .. lq + 1 <=> i \in 1 .. lq \/ i = lq + 1
  OBVIOUS
<1>2. \A m : Holds(Q2, 1, lq + 1, m) <=> Holds(Q, 1, lq, m) \/ m = x
  BY <1>1 DEF Holds
<1>3. ~ Holds(Q, 1, lq, x)
  BY DEF Apart
<1>4. Once(Q2, 1, lq + 1)
  <2> SUFFICES ASSUME NEW i \in 1 .. lq + 1, NEW j \in 1 .. lq + 1, Q2[i] = Q2[j]
               PROVE  i = j
    BY DEF Once
  <2>1. CASE i \in 1 .. lq /\ j \in 1 .. lq
    BY <2>1 DEF Apart, Once
  <2>2. \A l \in 1 .. lq : Q2[l] # x
    BY <1>3 DEF Holds
  <2> QED
    BY <1>1, <2>1, <2>2
<1>5. ASSUME NEW m \in Mbufs
      PROVE  /\ m \in P \ {x} => m \notin L /\ ~ Holds(R, 1, lr, m) /\ ~ Holds(Q2, 1, lq + 1, m)
                                /\ ~ Holds(B, F, Burst, m)
             /\ m \in L => ~ Holds(R, 1, lr, m) /\ ~ Holds(Q2, 1, lq + 1, m) /\ ~ Holds(B, F, Burst, m)
             /\ Holds(R, 1, lr, m) => ~ Holds(Q2, 1, lq + 1, m) /\ ~ Holds(B, F, Burst, m)
             /\ Holds(Q2, 1, lq + 1, m) => ~ Holds(B, F, Burst, m)
             /\ m \in P \ {x} \/ m \in L \/ Holds(R, 1, lr, m) \/ Holds(Q2, 1, lq + 1, m)
                           \/ Holds(B, F, Burst, m)
  BY <1>2 DEF Apart
<1> QED
  BY <1>4, <1>5 DEF Apart

(* Mbuf x, which was lent, goes back to the pool. *)
LEMMA ApartReturn ==
  ASSUME NEW R, NEW lr, NEW Q, NEW lq, NEW B, NEW F, NEW P, NEW L, NEW x \in L,
         Apart(R, lr, Q, lq, B, F, P, L)
  PROVE  Apart(R, lr, Q, lq, B, F, P \cup {x}, L \ {x})
BY DEF Apart

-----------------------------------------------------------------------------
(* Which mbufs carry a packet.                                             *)

(* Dpdk::send attaches a packet to the slot after the last one in use. *)
LEMMA LoadedBuffer ==
  ASSUME NEW R, NEW lr, NEW B, NEW t \in Nat, NEW K, NEW p \in Packets, t < Burst, Burst \in Nat,
         \A i \in 1 .. Burst : B[i] \in Mbufs, K \in [Mbufs -> Packets \cup {NoPacket}],
         Loaded(R, lr, B, 1, t, K)
  PROVE  Loaded(R, lr, B, 1, t + 1, [K EXCEPT ![B[t + 1]] = p])
<1>1. p # NoPacket
  BY IoAssumption
<1>2. \A i : i \in 1 .. 1 + (t + 1) - 1 <=> i \in 1 .. 1 + t - 1 \/ i = t + 1
  OBVIOUS
<1>3. \A m : Holds(B, 1, 1 + (t + 1) - 1, m) <=> Holds(B, 1, 1 + t - 1, m) \/ m = B[t + 1]
  BY <1>2 DEF Holds
<1>4. t + 1 \in 1 .. Burst
  OBVIOUS
<1>5. \A m \in Mbufs : [K EXCEPT ![B[t + 1]] = p][m] = IF m = B[t + 1] THEN p ELSE K[m]
  BY <1>4
<1> QED
  BY <1>1, <1>3, <1>5 DEF Loaded

(* A round of flush as it changes the packets attached to mbufs. *)
Unloaded(R, r, nb, F, t, t2, K, K2) ==
  /\ t \in Nat /\ nb <= t /\ F + t <= Burst + 1 /\ t2 = t - nb
  /\ \A m \in Mbufs : \/ K2[m] = NoPacket /\ \E i \in 1 .. r : R[i] = m
                      \/ K2[m] = K[m] /\ \A i \in 1 .. r : R[i] # m

(* A round of flush takes the packets of the r oldest mbufs of the ring,   *)
(* none of which is in the ring or the buffer after it.                    *)
LEMMA LoadedDrain ==
  ASSUME NEW R, NEW lr, NEW R2, NEW lr2, NEW Q, NEW lq, NEW B, NEW F, NEW F2, NEW P, NEW P2, NEW L,
         NEW r, NEW nb, NEW t, NEW t2, NEW K, NEW K2,
         Drained(R, lr, R2, lr2, B, F, F2, P, P2, r, nb), Apart(R, lr, Q, lq, B, F, P, L),
         Unloaded(R, r, nb, F, t, t2, K, K2), Loaded(R, lr, B, F, t, K)
  PROVE  Loaded(R2, lr2, B, F2, t2, K2)
<1>0. /\ lr \in Nat /\ F \in Nat \ {0} /\ r \in Nat /\ nb \in Nat /\ Burst \in Nat
      /\ r <= lr
      /\ \A i \in 1 .. lr - r : R2[i] = R[i + r]
      /\ \A i \in 1 .. nb : R2[lr - r + i] = B[F + i - 1]
      /\ lr2 = lr - r + nb /\ F2 = F + nb
      /\ t \in Nat /\ nb <= t /\ F + t <= Burst + 1 /\ t2 = t - nb
  BY DEF Drained, Unloaded
<1> USE <1>0
<1>1. \A m : Holds(R2, 1, lr - r + nb, m) <=> Holds(R, r + 1, lr, m) \/ Holds(B, F, F + nb - 1, m)
  BY RingEntries
<1>2. /\ \A m : Holds(R, 1, lr, m) <=> Holds(R, 1, r, m) \/ Holds(R, r + 1, lr, m)
      /\ Once(R, 1, lr) => /\ Once(R, 1, r) /\ Once(R, r + 1, lr)
                           /\ \A m : ~ (Holds(R, 1, r, m) /\ Holds(R, r + 1, lr, m))
  <2>1. /\ \A i : i \in 1 .. lr <=> i \in 1 .. r \/ i \in r + 1 .. lr
        /\ \A i : ~ (i \in 1 .. r /\ i \in r + 1 .. lr)
    OBVIOUS
  <2> QED
    BY ONLY <2>1, HoldsSplit
<1>3. \A m : Holds(B, F, F + t - 1, m) <=>
               Holds(B, F, F + nb - 1, m) \/ Holds(B, F + nb, (F + nb) + (t - nb) - 1, m)
  <2>1. \A i : i \in F .. F + t - 1 <=> i \in F .. F + nb - 1 \/ i \in F + nb .. (F + nb) + (t - nb) - 1
    OBVIOUS
  <2> QED
    BY <2>1 DEF Holds
<1>4. \A m : Holds(B, F, F + t - 1, m) => Holds(B, F, Burst, m)
  <2>1. \A i : i \in F .. F + t - 1 => i \in F .. Burst
    OBVIOUS
  <2> QED
    BY <2>1 DEF Holds
<1>5. ASSUME NEW m \in Mbufs
      PROVE  \/ K2[m] = NoPacket /\ Holds(R, 1, r, m)
             \/ K2[m] = K[m] /\ ~ Holds(R, 1, r, m)
  BY DEF Holds, Unloaded
<1>6. Once(R, 1, lr) /\ \A m \in Mbufs : Holds(R, 1, lr, m) => ~ Holds(B, F, Burst, m)
  BY DEF Apart
<1>7. Loaded(R2, lr - r + nb, B, F + nb, t - nb, K2)
  BY <1>1, <1>2, <1>3, <1>4, <1>5, <1>6 DEF Loaded
<1> QED
  BY <1>7

(* With nothing buffered, the slots of the buffer do not matter. *)
LEMMA LoadedRefill ==
  ASSUME NEW R, NEW lr, NEW B, NEW B2, NEW F \in Nat, NEW K, Loaded(R, lr, B, F, 0, K)
  PROVE  Loaded(R, lr, B2, 1, 0, K)
<1>1. \A i : i \notin F .. F + 0 - 1 /\ i \notin 1 .. 1 + 0 - 1
  OBVIOUS
<1> QED
  BY <1>1 DEF Loaded, Holds

-----------------------------------------------------------------------------
(* The invariant is inductive.                                             *)

(* A round of flush for adapter n, as it changes ring, buffer and pool. *)
LEMMA DrainFacts ==
  ASSUME TypeOK, CtlInv, NEW n \in Nics, NEW r \in Nat, NEW nb \in Nat, Drains(n, r, nb)
  PROVE  /\ Drained(ring[n], Len(ring[n]), ring'[n], Len(ring'[n]), txBufs[n], First(n), First(n)',
                   mpool[n], mpool'[n], r, nb)
         /\ Unloaded(ring[n], r, nb, First(n), txIdx[n], txIdx'[n], pkt[n], pkt'[n])
<1>0. /\ txBufs[n] \in [1 .. Burst -> Mbufs] /\ txIdx[n] \in 0 .. Burst /\ Burst \in Nat
      /\ Len(ring[n]) \in Nat /\ \A i \in 1 .. Len(ring[n]) : ring[n][i] \in Mbufs
      /\ wired[n] \in Nat /\ wired[n] <= Len(ring[n])
      /\ First(n) \in 1 .. Burst + 1 /\ First(n) + txIdx[n] <= Burst + 1
  BY AdapterType
<1>1. r <= Len(ring[n]) /\ First(n) \in Nat \ {0} /\ nb <= txIdx[n] /\ txIdx[n] \in Nat
      /\ First(n) + nb <= Burst + 1
  BY <1>0 DEF Drains
<1>2. /\ \A i \in 1 .. Len(ring[n]) - r : ring'[n][i] = ring[n][i + r]
      /\ \A i \in 1 .. nb : ring'[n][Len(ring[n]) - r + i] = txBufs[n][First(n) + i - 1]
      /\ Len(ring'[n]) = Len(ring[n]) - r + nb
      /\ \A m \in Mbufs : \/ pkt'[n][m] = NoPacket /\ \E i \in 1 .. r : ring[n][i] = m
                          \/ pkt'[n][m] = pkt[n][m] /\ \A i \in 1 .. r : ring[n][i] # m
  BY DEF Drains, Moves
<1>3. \A i \in 1 .. Burst : txBufs[n][i] \in Mbufs
  BY <1>0
<1>4. First(n)' = First(n) + nb /\ txIdx'[n] = txIdx[n] - nb
      /\ mpool'[n] = mpool[n] \cup {ring[n][i] : i \in 1 .. r}
  BY DEF Drains
<1>5. Drained(ring[n], Len(ring[n]), ring'[n], Len(ring'[n]), txBufs[n], First(n), First(n)',
              mpool[n], mpool'[n], r, nb)
  <2>1. ASSUME NEW m PROVE m \in mpool'[n] <=> m \in mpool[n] \/ Holds(ring[n], 1, r, m)
    BY <1>4 DEF Holds
  <2>2. First(n)' = First(n) + nb
    BY <1>4
  <2> QED
    BY <1>0, <1>1, <1>2, <1>3, <2>1, <2>2 DEF Drained
<1>6. Unloaded(ring[n], r, nb, First(n), txIdx[n], txIdx'[n], pkt[n], pkt'[n])
  BY <1>0, <1>1, <1>2, <1>4 DEF Unloaded
<1> QED
  BY <1>5, <1>6

(* A change of adapter n leaves every mbuf of it with one owner. *)
LEMMA OwnsChange ==
  ASSUME TypeOK, CtlInv, NEW n \in Nics, Owns(n), Changes(n), InUse(n)'
  PROVE  Owns(n)'
<1>0. /\ txBufs[n] \in [1 .. Burst -> Mbufs] /\ txIdx[n] \in 0 .. Burst /\ Burst \in Nat
      /\ Len(ring[n]) \in Nat /\ \A i \in 1 .. Len(ring[n]) : ring[n][i] \in Mbufs
      /\ Len(rxq[n]) \in Nat
      /\ wired[n] \in Nat /\ wired[n] <= Len(ring[n])
      /\ mpool[n] \in SUBSET Mbufs
      /\ First(n) \in 1 .. Burst + 1
  BY AdapterType
<1>1. CASE (\E p \in Packets : Buffers(n, p)) \/ Transmits(n)
  BY <1>1 DEF Buffers, Transmits, SameTx, SamePools, Owns
<1>2. ASSUME NEW r \in Nat, NEW nb \in Nat, Drains(n, r, nb)
      PROVE  Owns(n)'
  <2>1. Drained(ring[n], Len(ring[n]), ring'[n], Len(ring'[n]), txBufs[n], First(n), First(n)',
                mpool[n], mpool'[n], r, nb)
    BY <1>2, DrainFacts
  <2>2. Apart(ring'[n], Len(ring'[n]), rxq[n], Len(rxq[n]), txBufs[n], First(n)', mpool'[n], lent[n])
    BY <2>1, ApartDrain DEF Owns
  <2> QED
    BY <1>2, <2>2 DEF Drains, Owns
<1>3. ASSUME NEW ms, Refills(n, ms)
      PROVE  Owns(n)'
  <2>1. /\ ms \in [1 .. First(n) - 1 -> mpool[n]] /\ \A i, j \in 1 .. First(n) - 1 : i # j => ms[i] # ms[j]
        /\ \A i \in 1 .. Burst : \/ i < First(n) /\ txBufs'[n][i] = ms[i]
                                 \/ i >= First(n) /\ txBufs'[n][i] = txBufs[n][i]
        /\ mpool'[n] = mpool[n] \ {ms[i] : i \in 1 .. First(n) - 1}
    BY <1>3 DEF Refills
  <2>2. \A i \in 1 .. Burst : txBufs[n][i] \in Mbufs
    BY <1>0
  <2>3. Refilled(txBufs[n], First(n), txBufs'[n], mpool[n], mpool'[n], ms)
    BY <1>0, <2>1, <2>2 DEF Refilled, Holds
  <2>4. Apart(ring[n], Len(ring[n]), rxq[n], Len(rxq[n]), txBufs'[n], 1, mpool'[n], lent[n])
    BY <2>3, ApartRefill DEF Owns
  <2> QED
    BY <1>3, <2>4 DEF Refills, Owns
<1>4. ASSUME NEW k \in Nat, Receives(n, k)
      PROVE  Owns(n)'
  <2>1. /\ k \in 1 .. Len(rxq[n]) /\ lent'[n] = lent[n] \cup {rxq[n][i] : i \in 1 .. k}
        /\ Len(rxq'[n]) = Len(rxq[n]) - k
        /\ \A i \in 1 .. Len(rxq[n]) - k : rxq'[n][i] = rxq[n][i + k]
    BY <1>4 DEF Receives
  <2>2. Received(rxq[n], Len(rxq[n]), rxq'[n], Len(rxq'[n]), lent[n], lent'[n], k)
    BY <1>0, <2>1 DEF Received, Holds
  <2>3. Apart(ring[n], Len(ring[n]), rxq'[n], Len(rxq'[n]), txBufs[n], First(n), mpool[n], lent'[n])
    BY <2>2, ApartReceive DEF Owns
  <2> QED
    BY <1>4, <2>3 DEF Receives, SameTx, Owns
<1>5. ASSUME NEW m \in Mbufs, Arrives(n, m)
      PROVE  Owns(n)'
  <2>1. Apart(ring[n], Len(ring[n]), rxq'[n], Len(rxq[n]) + 1, txBufs[n], First(n),
              mpool[n] \ {m}, lent[n])
    BY <1>0, <1>5, ApartArrive DEF Owns, Arrives
  <2> QED
    BY <1>5, <2>1 DEF Arrives, SameTx, Owns
<1>6. ASSUME NEW m \in Mbufs, GetsBack(n, m)
      PROVE  Owns(n)'
  <2>1. Apart(ring[n], Len(ring[n]), rxq[n], Len(rxq[n]), txBufs[n], First(n),
              mpool[n] \cup {m}, lent[n] \ {m})
    BY <1>6, ApartReturn DEF Owns, GetsBack
  <2> QED
    BY <1>6, <2>1 DEF GetsBack, SameTx, Owns
<1>7. ~ GivesUp(n)
  BY DEF GivesUp
<1> QED
  BY <1>1, <1>2, <1>3, <1>4, <1>5, <1>6, <1>7 DEF Changes

(* The mbufs of every adapter in use keep one owner each. *)
LEMMA OwnStep ==
  ASSUME IInv, [Next]_vars
  PROVE  OwnInv'
<1> SUFFICES ASSUME NEW n \in Nics, InUse(n)' PROVE Owns(n)'
  BY DEF OwnInv
<1>1. TypeOK /\ CtlInv /\ ListInv
  BY DEF IInv
<1>2. OneChange
  BY <1>1, Locality
<1>3. Owns(n)
  BY <1>1, UseShrinks DEF IInv, OwnInv
<1>4. CASE Same(n)
  BY <1>3, <1>4 DEF Same, SameTx, SamePools, Owns
<1>5. CASE Changes(n)
  BY <1>1, <1>3, <1>5, OwnsChange
<1> QED
  BY <1>2, <1>4, <1>5 DEF OneChange

(* The packets stay with the mbufs of the ring and of the buffer. *)
LEMMA CarryStep ==
  ASSUME IInv, [Next]_vars
  PROVE  CarryInv'
<1> SUFFICES ASSUME NEW n \in Nics PROVE Carries(n)'
  BY DEF CarryInv
<1>1. TypeOK /\ CtlInv /\ ListInv
  BY DEF IInv
<1>2. OneChange
  BY <1>1, Locality
<1>3. Carries(n)
  BY DEF IInv, CarryInv
<1>0. /\ txBufs[n] \in [1 .. Burst -> Mbufs] /\ txIdx[n] \in 0 .. Burst /\ Burst \in Nat
      /\ Len(ring[n]) \in Nat /\ \A i \in 1 .. Len(ring[n]) : ring[n][i] \in Mbufs
      /\ wired[n] \in Nat /\ wired[n] <= Len(ring[n])
      /\ pkt[n] \in [Mbufs -> Packets \cup {NoPacket}]
      /\ First(n) \in 1 .. Burst + 1 /\ First(n) + txIdx[n] <= Burst + 1
  BY <1>1, AdapterType
<1>4. CASE Same(n) \/ Transmits(n) \/ (\E k \in Nat : Receives(n, k))
           \/ (\E m \in Mbufs : Arrives(n, m) \/ GetsBack(n, m))
  <2>1. SameTx(n)
    BY <1>4 DEF Same, Transmits, Receives, Arrives, GetsBack
  <2> QED
    BY <1>3, <2>1 DEF SameTx, Carries
<1>5. ASSUME NEW p \in Packets, Buffers(n, p)
      PROVE  Carries(n)'
  <2>1. Loaded(ring[n], Len(ring[n]), txBufs[n], 1, txIdx[n] + 1,
               [pkt[n] EXCEPT ![txBufs[n][txIdx[n] + 1]] = p])
    <3>1. Loaded(ring[n], Len(ring[n]), txBufs[n], 1, txIdx[n], pkt[n])
      BY <1>3, <1>5 DEF Carries, Buffers
    <3>2. txIdx[n] \in Nat /\ txIdx[n] < Burst /\ Burst \in Nat /\ \A i \in 1 .. Burst : txBufs[n][i] \in Mbufs
      BY <1>0, <1>5 DEF Buffers
    <3> QED
      BY <1>0, <3>1, <3>2, LoadedBuffer
  <2> QED
    BY <1>5, <2>1 DEF Buffers, Carries
<1>6. ASSUME NEW r \in Nat, NEW nb \in Nat, Drains(n, r, nb)
      PROVE  Carries(n)'
  <2>1. Owns(n)
    BY <1>6 DEF Drains, IInv, OwnInv
  <2>2. /\ Drained(ring[n], Len(ring[n]), ring'[n], Len(ring'[n]), txBufs[n], First(n), First(n)',
                   mpool[n], mpool'[n], r, nb)
        /\ Unloaded(ring[n], r, nb, First(n), txIdx[n], txIdx'[n], pkt[n], pkt'[n])
    BY <1>1, <1>6, DrainFacts
  <2>3. Loaded(ring'[n], Len(ring'[n]), txBufs[n], First(n)', txIdx'[n], pkt'[n])
    BY <1>3, <2>1, <2>2, LoadedDrain DEF Owns, Carries
  <2> QED
    BY <1>6, <2>3 DEF Drains, Carries
<1>7. ASSUME (\E ms \in [1 .. First(n) - 1 -> Mbufs] : Refills(n, ms)) \/ GivesUp(n)
      PROVE  Carries(n)'
  <2>1. txIdx[n] = 0 /\ txIdx'[n] = 0 /\ First(n)' = 1 /\ ring'[n] = ring[n] /\ pkt'[n] = pkt[n]
    BY <1>7 DEF Refills, GivesUp
  <2>2. Loaded(ring[n], Len(ring[n]), txBufs[n], First(n), 0, pkt[n])
    BY <1>3, <2>1 DEF Carries
  <2>3. First(n) \in Nat
    BY <1>0
  <2>4. Loaded(ring[n], Len(ring[n]), txBufs'[n], 1, 0, pkt[n])
    BY <2>2, <2>3, LoadedRefill
  <2> QED
    BY <2>1, <2>4 DEF Carries
<1>8. ASSUME Changes(n) PROVE Carries(n)'
  BY <1>4, <1>5, <1>6, <1>7, <1>8 DEF Changes
<1> QED
  BY <1>2, <1>4, <1>8 DEF OneChange

(* The list of adapters after it has got one more, and without its last. *)
LEMMA ListOperations ==
  ASSUME NEW q \in Seq(Nics)
  PROVE  /\ Len(q) \in Nat
         /\ \A i \in 1 .. Len(q) : q[i] \in Nics
         /\ \A n \in Nics : /\ Append(q, n) \in Seq(Nics) /\ Len(Append(q, n)) = Len(q) + 1
                            /\ \A i \in 1 .. Len(q) : Append(q, n)[i] = q[i]
                            /\ Append(q, n)[Len(q) + 1] = n
         /\ q # <<>> => /\ Len(q) >= 1
                        /\ SubSeq(q, 1, Len(q) - 1) \in Seq(Nics)
                        /\ Len(SubSeq(q, 1, Len(q) - 1)) = Len(q) - 1
                        /\ \A i \in 1 .. Len(q) - 1 : SubSeq(q, 1, Len(q) - 1)[i] = q[i]
<1>1. Len(q) \in Nat
  BY LenProperties
<1>2. \A i \in 1 .. Len(q) : q[i] \in Nics
  BY ElementOfSeq
<1>3. ASSUME NEW n \in Nics
      PROVE  /\ Append(q, n) \in Seq(Nics) /\ Len(Append(q, n)) = Len(q) + 1
             /\ \A i \in 1 .. Len(q) : Append(q, n)[i] = q[i]
             /\ Append(q, n)[Len(q) + 1] = n
  BY AppendProperties
<1>4. ASSUME q # <<>>
      PROVE  /\ Len(q) >= 1
             /\ SubSeq(q, 1, Len(q) - 1) \in Seq(Nics)
             /\ Len(SubSeq(q, 1, Len(q) - 1)) = Len(q) - 1
             /\ \A i \in 1 .. Len(q) - 1 : SubSeq(q, 1, Len(q) - 1)[i] = q[i]
  <2>1. Len(q) # 0
    BY <1>4, EmptySeq
  <2>2. Len(q) >= 1
    BY <1>1, <2>1
  <2>3. PICK l \in Nat : l = Len(q) - 1
    BY <1>1, <2>2
  <2>4. \A i \in 1 .. l : q[i] \in Nics
    BY <1>1, <1>2, <2>3
  <2>5. /\ SubSeq(q, 1, l) \in Seq(Nics) /\ Len(SubSeq(q, 1, l)) = l
        /\ \A i \in 1 .. l : SubSeq(q, 1, l)[i] = q[1 + i - 1]
    BY <2>3, <2>4, SubSeqProperties
  <2>6. \A i \in 1 .. l : 1 + i - 1 = i
    BY <2>3
  <2> QED
    BY <2>2, <2>3, <2>5, <2>6
<1> QED
  BY <1>1, <1>2, <1>3, <1>4

(* What flush leaves behind when it returns. *)
LEMMA ReturnsTo ==
  ASSUME TypeOK, CtlInv, pc = "flush", txIdx[nic] = 0, txIdx' = txIdx, FlushReturns
  PROVE  /\ pc' \in Labels /\ caller' = "poll" /\ off' = 0 /\ nic' \in 1 .. NumNics + 1
         /\ CtlInv'
         /\ (flushQueue' = flushQueue /\ flushFlag' = flushFlag) \/ MarkFlush(nic)
<1>0. NumNics \in Nat /\ nic \in 1 .. NumNics /\ Nics = 1 .. NumNics
  BY IoAssumption DEF CtlInv, Nics
<1>1. pc' \in {"idle", "pollFlush", "destroy"} /\ caller' = "poll" /\ off' = 0 /\ nic' \in 1 .. NumNics + 1
      /\ ((flushQueue' = flushQueue /\ flushFlag' = flushFlag) \/ MarkFlush(nic))
  BY <1>0 DEF FlushReturns, nodeVars
<1>2. ASSUME pc' = "destroy" PROVE \A n \in Nics : n < nic' => txIdx'[n] = 0
  <2>1. caller = "destroy" /\ nic' = nic + 1
    BY <1>2 DEF FlushReturns
  <2>2. \A n \in Nics : n < nic => txIdx[n] = 0
    BY <2>1 DEF CtlInv, Destroying
  <2> QED
    BY <1>0, <2>1, <2>2
<1> QED
  BY <1>1, <1>2 DEF CtlInv, Destroying, Labels

(* The operations of the node keep the types. *)
LEMMA MarkType ==
  ASSUME TypeOK, NEW n \in Nics, MarkFlush(n)
  PROVE  flushQueue' \in Seq(Nics) /\ flushFlag' \subseteq Nics
BY ListOperations DEF MarkFlush, TypeOK

(* Every step keeps the types. *)
LEMMA TypeStep ==
  ASSUME IInv, [Next]_vars
  PROVE  TypeOK'
<1>1. TypeOK /\ CtlInv /\ ListInv
  BY DEF IInv
<1>0. NumNics \in Nat /\ Burst \in Nat
  BY IoAssumption
<1>a. /\ \A n \in Nics : n \in 1 .. NumNics + 1
      /\ 1 \in 1 .. NumNics + 1 /\ 0 \in 0 .. Burst
      /\ \A i \in 1 .. NumNics + 1 : i <= NumNics => i \in Nics /\ i + 1 \in 1 .. NumNics + 1
  BY <1>0 DEF Nics
<1>b. pc \in Labels /\ caller \in {"send", "poll", "destroy"} /\ nic \in 1 .. NumNics + 1 /\ off \in 0 .. Burst
  BY <1>1 DEF TypeOK
<1>2. ASSUME NEW p \in Packets, Process(Nic[p], p)
      PROVE  TypeOK'
  <2>1. PICK n \in Nics : n = Nic[p] /\ Process(n, p)
    BY <1>2, IoAssumption
  <2>2. txIdx[n] \in 0 .. Burst /\ txIdx[n] # Burst /\ Burst \in Nat
    BY <1>0, <1>1, <2>1 DEF Process, TypeOK, ListInv, Flushing
  <2>3. txIdx[n] + 1 \in 0 .. Burst
    BY <2>2
  <2>4. flushQueue' \in Seq(Nics) /\ flushFlag' \subseteq Nics
    BY <1>1, <2>1, MarkType DEF Process, Buffer, nodeVars, TypeOK
  <2>5. pc' \in Labels /\ caller' \in {"send", "poll", "destroy"} /\ nic' \in 1 .. NumNics + 1
    BY <1>a, <1>b, <2>1 DEF Process, Buffer, Labels
  <2>6. txIdx' \in [Nics -> 0 .. Burst]
    BY <1>1, <2>1, <2>3 DEF Process, Buffer, TypeOK
  <2>7. pkt' \in [Nics -> [Mbufs -> Packets \cup {NoPacket}]]
    BY <1>1, <2>1 DEF Process, Buffer, TypeOK
  <2>8. UNCHANGED <<off, txBufs, ring, wired, rxq, lent, mpool>>
    BY <2>1 DEF Process, Buffer, portVars
  <2> QED
    BY <1>1, <2>4, <2>5, <2>6, <2>7, <2>8 DEF TypeOK
<1>3. CASE FlushRound(0)
  <2>1. PICK n \in Nics : n = nic
    BY <1>1, <1>3, RoundFacts
  <2>2. PICK r \in 0 .. wired[n], nb \in 0 .. txIdx[n] : TxBurst(r, nb) /\ Moves(nic, r, nb)
    BY <1>1, <1>3, <2>1, RoundFacts
  <2>3. ring'[n] \in Seq(Mbufs) /\ Len(ring'[n]) = Len(ring[n]) - r + nb
    BY <2>1, <2>2 DEF Moves
  <2>4. /\ wired[n] \in Nat /\ wired[n] <= Len(ring[n]) /\ Len(ring[n]) \in Nat
        /\ txIdx[n] \in 0 .. Burst /\ off \in Nat /\ off + txIdx[n] <= Burst
        /\ \A i \in 1 .. Len(ring[n]) : ring[n][i] \in Mbufs
    <3>1. off \in Nat
      BY <1>0, <1>b
    <3>2. off + txIdx[n] <= Burst
      BY <1>1, <1>3, <2>1 DEF FlushRound, CtlInv
    <3> QED
      BY <1>1, <2>1, <3>1, <3>2, AdapterType
  <2>5. /\ ring' = [ring EXCEPT ![n] =
                      SubSeq(@, r + 1, Len(@)) \o SubSeq(txBufs[n], off + 1, off + 1 + nb - 1)]
        /\ Len(ring[n]) - r + nb <= RingSize[n]
        /\ mpool' = [mpool EXCEPT ![n] = @ \cup Sent(r)]
        /\ pkt' = [pkt EXCEPT ![n] = [m \in Mbufs |-> IF m \in Sent(r) THEN NoPacket ELSE @[m]]]
        /\ wired' = [wired EXCEPT ![n] = @ - r]
        /\ txIdx' = [txIdx EXCEPT ![n] = @ - nb]
        /\ off' = off + nb
        /\ UNCHANGED <<pc, caller, nic, flushQueue, flushFlag, txBufs, rxq, lent>>
    BY <2>1, <2>2 DEF TxBurst, Exchange, nodeVars
  <2>6. wired[n] - r \in Nat /\ wired[n] - r <= Len(ring[n]) - r + nb /\ txIdx[n] - nb \in 0 .. Burst
        /\ off + nb \in 0 .. Burst
    <3>1. PICK w \in Nat, l \in Nat, x \in Nat : w = wired[n] /\ l = Len(ring[n]) /\ x = txIdx[n]
      BY <1>0, <2>4
    <3>2. w <= l /\ x <= Burst /\ off + x <= Burst /\ off \in Nat
      BY <1>0, <2>4, <3>1
    <3>3. r \in 0 .. w /\ nb \in 0 .. x
      BY <3>1
    <3>4. w - r \in Nat /\ w - r <= l - r + nb /\ x - nb \in 0 .. Burst /\ off + nb \in 0 .. Burst
      BY ONLY <1>0, <3>2, <3>3
    <3> QED
      BY <3>1, <3>4
  <2>7. Sent(r) \subseteq Mbufs
    <3>1. \A i \in 1 .. r : i \in 1 .. Len(ring[n])
      BY <2>4
    <3> QED
      BY <2>1, <2>4, <3>1 DEF Sent
  <2>8. ring' \in [Nics -> Seq(Mbufs)] /\ \A m \in Nics : m # n => ring'[m] = ring[m]
    <3>1. ring \in [Nics -> Seq(Mbufs)]
      BY <1>1 DEF TypeOK
    <3> QED
      BY <2>3, <2>5, <3>1
  <2>9. wired' \in [Nics -> Nat] /\ wired'[n] = wired[n] - r /\ \A m \in Nics : m # n => wired'[m] = wired[m]
    BY <1>1, <2>5, <2>6 DEF TypeOK
  <2>10. \A m \in Nics : wired'[m] <= Len(ring'[m]) /\ Len(ring'[m]) <= RingSize[m]
    BY <1>1, <2>3, <2>5, <2>6, <2>8, <2>9 DEF TypeOK
  <2>11. mpool' \in [Nics -> SUBSET Mbufs] /\ txIdx' \in [Nics -> 0 .. Burst]
    BY <1>1, <2>5, <2>6, <2>7 DEF TypeOK
  <2>12. pkt' \in [Nics -> [Mbufs -> Packets \cup {NoPacket}]]
    <3>1. [m \in Mbufs |-> IF m \in Sent(r) THEN NoPacket ELSE pkt[n][m]] \in [Mbufs -> Packets \cup {NoPacket}]
      BY <1>1, <2>1 DEF TypeOK
    <3> QED
      BY <1>1, <2>1, <2>5, <3>1 DEF TypeOK
  <2> QED
    BY <1>1, <2>5, <2>6, <2>8, <2>9, <2>10, <2>11, <2>12 DEF TypeOK
<1>4. CASE Refill
  <2>1. pc = "flush" /\ FlushReturns /\ txIdx[nic] = 0
        /\ UNCHANGED <<txIdx, ring, wired, rxq, lent, pkt>>
    BY <1>4 DEF Refill
  <2>2. nic \in Nics /\ off \in 0 .. Burst /\ txBufs \in [Nics -> [1 .. Burst -> Mbufs]]
        /\ mpool \in [Nics -> SUBSET Mbufs]
    BY <1>1, <2>1 DEF CtlInv, TypeOK
  <2>3. PICK ms \in Bulk(nic, off) :
          /\ txBufs' = [txBufs EXCEPT ![nic] = [i \in 1 .. Burst |-> IF i <= off THEN ms[i] ELSE @[i]]]
          /\ mpool' = [mpool EXCEPT ![nic] = @ \ {ms[i] : i \in 1 .. off}]
    BY <1>4 DEF Refill
  <2>4. ms \in [1 .. off -> Mbufs]
    BY <2>2 DEF Bulk
  <2>5. [i \in 1 .. Burst |-> IF i <= off THEN ms[i] ELSE txBufs[nic][i]] \in [1 .. Burst -> Mbufs]
    <3>1. \A i \in 1 .. Burst : i <= off => i \in 1 .. off
      BY <1>0, <2>2
    <3> QED
      BY <2>2, <2>4, <3>1
  <2>6. txBufs' \in [Nics -> [1 .. Burst -> Mbufs]] /\ mpool' \in [Nics -> SUBSET Mbufs]
    BY <2>2, <2>3, <2>5
  <2>7. /\ pc' \in Labels /\ caller' = "poll" /\ off' = 0 /\ nic' \in 1 .. NumNics + 1
        /\ (flushQueue' = flushQueue /\ flushFlag' = flushFlag) \/ MarkFlush(nic)
    BY <1>1, <2>1, ReturnsTo
  <2>8. flushQueue' \in Seq(Nics) /\ flushFlag' \subseteq Nics
    BY <1>1, <2>2, <2>7, MarkType DEF TypeOK
  <2> QED
    BY <1>a, <1>1, <2>1, <2>6, <2>7, <2>8 DEF TypeOK
<1>5. CASE RefillFails
  <2>1. pc = "flush" /\ txIdx[nic] = 0 /\ UNCHANGED <<txBufs, txIdx, ring, wired, rxq, lent, mpool, pkt>>
    BY <1>5 DEF RefillFails, portVars
  <2>2. CASE pc' = "failed" /\ UNCHANGED <<caller, nic, off, nodeVars>>
    BY <1>1, <2>1, <2>2 DEF TypeOK, Labels, nodeVars
  <2>3. CASE FlushReturns
    <3>1. /\ pc' \in Labels /\ caller' = "poll" /\ off' = 0 /\ nic' \in 1 .. NumNics + 1
          /\ (flushQueue' = flushQueue /\ flushFlag' = flushFlag) \/ MarkFlush(nic)
      BY <1>1, <2>1, <2>3, ReturnsTo
    <3>2. flushQueue' \in Seq(Nics) /\ flushFlag' \subseteq Nics
      BY <1>1, <2>1, <3>1, MarkType DEF TypeOK, CtlInv
    <3> QED
      BY <1>a, <1>1, <2>1, <3>1, <3>2 DEF TypeOK
  <2> QED
    BY <1>5, <2>2, <2>3 DEF RefillFails
<1>6. CASE PollFlush
  <2>1. flushQueue # <<>> /\ flushQueue \in Seq(Nics) /\ flushFlag \subseteq Nics
    BY <1>1, <1>6 DEF PollFlush, TypeOK
  <2>2. Len(flushQueue) \in 1 .. Len(flushQueue) /\ Len(flushQueue) \in Nat
    BY <2>1, ListOperations
  <2>3. PICK n \in Nics : n = flushQueue[Len(flushQueue)]
    BY <2>1, <2>2, ListOperations
  <2>4. FlushLast(n, n)
    BY <1>6, <2>3 DEF PollFlush
  <2>5. flushQueue' \in Seq(Nics) /\ flushFlag' \subseteq Nics
    BY <2>1, <2>4, ListOperations DEF FlushLast
  <2>6. pc' \in Labels /\ nic' \in 1 .. NumNics + 1
    BY <1>a, <1>b, <1>6, <2>4 DEF FlushLast, FlushBegins, Labels
  <2>7. UNCHANGED <<caller, off, txBufs, txIdx, ring, wired, rxq, lent, mpool, pkt>>
    BY <2>4 DEF FlushLast, portVars
  <2> QED
    BY <1>1, <2>5, <2>6, <2>7 DEF TypeOK
<1>7. CASE Recv
  <2>1. PICK n \in Nics : n = nic
    BY <1>a, <1>b, <1>7 DEF Recv
  <2>2. rxq[n] \in Seq(Mbufs) /\ rxq[n] # <<>> /\ Len(rxq[n]) \in Nat
        /\ \A i \in 1 .. Len(rxq[n]) : rxq[n][i] \in Mbufs
    BY <1>1, <1>7, <2>1, AdapterType DEF Recv
  <2>3. PICK k \in Nat : /\ k <= Len(rxq[n])
                         /\ lent' = [lent EXCEPT ![n] = @ \cup {rxq[n][i] : i \in 1 .. k}]
                         /\ rxq' = [rxq EXCEPT ![n] = SubSeq(@, k + 1, Len(@))]
    <3> DEFINE k == IF Len(rxq[n]) < Burst THEN Len(rxq[n]) ELSE Burst
    <3>1. k \in Nat /\ k <= Len(rxq[n])
      BY <1>0, <2>2
    <3>2. /\ lent' = [lent EXCEPT ![n] = @ \cup {rxq[n][i] : i \in 1 .. k}]
          /\ rxq' = [rxq EXCEPT ![n] = SubSeq(@, k + 1, Len(@))]
      BY <1>7, <2>1 DEF Recv
    <3> QED
      BY <3>1, <3>2
  <2>4. SubSeq(rxq[n], k + 1, Len(rxq[n])) \in Seq(Mbufs)
    <3>1. \A i \in k + 1 .. Len(rxq[n]) : rxq[n][i] \in Mbufs
      BY <2>2, <2>3
    <3>2. k + 1 \in Int /\ Len(rxq[n]) \in Int
      BY <2>2
    <3> QED
      BY <3>1, <3>2, SubSeqProperties
  <2>5. {rxq[n][i] : i \in 1 .. k} \subseteq Mbufs
    BY <2>2, <2>3
  <2>6. rxq' \in [Nics -> Seq(Mbufs)] /\ lent' \in [Nics -> SUBSET Mbufs]
    <3>1. rxq \in [Nics -> Seq(Mbufs)] /\ lent \in [Nics -> SUBSET Mbufs]
      BY <1>1 DEF TypeOK
    <3> QED
      BY <2>3, <2>4, <2>5, <3>1
  <2>7. pc' = "idle" /\ nic' = 1
        /\ UNCHANGED <<caller, flushQueue, flushFlag, txBufs, txIdx, off, ring, wired, mpool, pkt>>
    BY <1>7 DEF Recv, nodeVars
  <2> QED
    BY <1>a, <1>1, <2>6, <2>7 DEF TypeOK, Labels
<1>8. CASE PollBegin \/ PollFlushDone \/ RecvNop \/ RecvFails \/ RecvDone
           \/ DestroyBegin \/ DestroyNext \/ DestroyDone
  <2>1. pc' \in Labels /\ caller' \in {"send", "poll", "destroy"} /\ nic' \in 1 .. NumNics + 1
    BY <1>a, <1>b, <1>8
       DEF PollBegin, PollFlushDone, RecvFrom, RecvNop, RecvFails, RecvDone, DestroyBegin, DestroyNext,
           FlushBegins, DestroyDone, Labels
  <2>2. UNCHANGED <<flushQueue, flushFlag, txBufs, txIdx, off, ring, wired, rxq, lent, mpool, pkt>>
    BY <1>8
       DEF PollBegin, PollFlushDone, RecvFrom, RecvNop, RecvFails, RecvDone, DestroyBegin, DestroyNext,
           DestroyDone, nodeVars, portVars
  <2> QED
    BY <1>1, <2>1, <2>2 DEF TypeOK
<1>9. ASSUME NEW n \in Nics, Transmit(n) \/ Arrive(n) \/ Return(n)
      PROVE  TypeOK'
  <2>1. UNCHANGED <<pc, caller, nic, flushQueue, flushFlag, txBufs, txIdx, off, ring, pkt>>
    BY <1>9 DEF Transmit, Arrive, Return, nodeVars
  <2>2. CASE Transmit(n)
    <3>1. wired' \in [Nics -> Nat] /\ \A m \in Nics : wired'[m] <= Len(ring[m])
      <4>1. wired[n] \in Nat /\ Len(ring[n]) \in Nat
        BY <1>1, AdapterType
      <4> QED
        BY <1>1, <2>2, <4>1 DEF Transmit, TypeOK
    <3> QED
      BY <1>1, <2>1, <2>2, <3>1 DEF TypeOK, Transmit
  <2>3. CASE Arrive(n)
    <3>1. PICK m \in mpool[n] : mpool' = [mpool EXCEPT ![n] = @ \ {m}] /\ rxq' = [rxq EXCEPT ![n] = Append(@, m)]
      BY <2>3 DEF Arrive
    <3>2. Append(rxq[n], m) \in Seq(Mbufs)
      BY <1>1, AppendProperties DEF TypeOK
    <3>3. rxq' \in [Nics -> Seq(Mbufs)] /\ mpool' \in [Nics -> SUBSET Mbufs]
      <4>1. rxq \in [Nics -> Seq(Mbufs)] /\ mpool \in [Nics -> SUBSET Mbufs]
        BY <1>1 DEF TypeOK
      <4> QED
        BY <3>1, <3>2, <4>1
    <3> QED
      BY <1>1, <2>1, <2>3, <3>3 DEF TypeOK, Arrive
  <2>4. CASE Return(n)
    BY <1>1, <2>1, <2>4 DEF TypeOK, Return
  <2> QED
    BY <1>9, <2>2, <2>3, <2>4
<1>10. CASE UNCHANGED vars
  BY <1>1, <1>10 DEF TypeOK, vars
<1> QED
  BY <1>2, <1>3, <1>4, <1>5, <1>6, <1>7, <1>8, <1>9, <1>10, StepCases

(* The control of the loops. *)
LEMMA CtlStep ==
  ASSUME IInv, [Next]_vars
  PROVE  CtlInv'
<1>1. TypeOK /\ CtlInv /\ ListInv
  BY DEF IInv
<1>0. NumNics \in Nat /\ Burst \in Nat \ {0}
  BY IoAssumption
<1>a. pc \in Labels /\ nic \in 1 .. NumNics + 1 /\ off \in 0 .. Burst /\ \A n \in Nics : txIdx[n] \in 0 .. Burst
  BY <1>1 DEF TypeOK
<1>b. \A n \in Nics : n \in 1 .. NumNics
  BY DEF Nics
<1>c. \A i \in 1 .. NumNics + 1 : i <= NumNics => i \in Nics
  BY <1>0 DEF Nics
<1>2. ASSUME NEW p \in Packets, Process(Nic[p], p)
      PROVE  CtlInv'
  <2>1. PICK n \in Nics : n = Nic[p] /\ Process(n, p)
    BY <1>2, IoAssumption
  <2>2. pc = "idle" /\ off = 0 /\ off' = 0 /\ caller = "poll"
    BY <1>1, <2>1 DEF Process, Buffer, CtlInv
  <2>3. CASE pc' = "idle" /\ caller' = "poll"
    BY <2>2, <2>3 DEF CtlInv, Destroying
  <2>4. CASE txIdx[n] + 1 = Burst /\ pc' = "flush" /\ nic' = n /\ caller' = "send"
    <3>1. txIdx'[n] = txIdx[n] + 1
      BY <1>1, <2>1 DEF Process, Buffer, TypeOK
    <3>2. off' + txIdx'[nic'] <= Burst
      BY <1>0, <2>2, <2>4, <3>1
    <3> QED
      BY <2>4, <3>2 DEF CtlInv, Destroying
  <2> QED
    BY <2>1, <2>2, <2>3, <2>4 DEF Process, Buffer
<1>3. CASE FlushRound(0)
  <2>1. PICK n \in Nics : n = nic
    BY <1>1, <1>3, RoundFacts
  <2>2. PICK r \in 0 .. wired[n], nb \in 0 .. txIdx[n] : TxBurst(r, nb)
    BY <1>1, <1>3, <2>1, RoundFacts
  <2>3. pc = "flush" /\ UNCHANGED <<pc, caller, nic>> /\ off' = off + nb /\ txIdx' = [txIdx EXCEPT ![n] = @ - nb]
    BY <1>3, <2>1, <2>2 DEF FlushRound, TxBurst, Exchange
  <2>4. txIdx'[n] = txIdx[n] - nb /\ \A m \in Nics : m # n => txIdx'[m] = txIdx[m]
    BY <1>1, <2>3 DEF TypeOK
  <2>5. off' + txIdx'[n] <= Burst
    <3>1. PICK x \in Nat : x = txIdx[n]
      BY <1>a
    <3>2. off \in Nat /\ off + x <= Burst /\ nb \in 0 .. x
      BY <1>1, <1>a, <2>1, <2>3, <3>1 DEF CtlInv
    <3>3. (off + nb) + (x - nb) <= Burst
      BY ONLY <1>0, <3>2
    <3> QED
      BY <2>3, <2>4, <3>1, <3>3
  <2>6. ASSUME caller = "destroy", NEW m \in Nics, m < nic PROVE txIdx'[m] = 0
    <3>1. txIdx[m] = 0 /\ m # n
      BY <1>1, <1>a, <1>b, <2>1, <2>3, <2>6 DEF CtlInv, Destroying
    <3> QED
      BY <2>4, <3>1
  <2> QED
    BY <2>1, <2>3, <2>5, <2>6 DEF CtlInv, Destroying
<1>4. CASE Refill
  BY <1>1, <1>4, ReturnsTo DEF Refill
<1>5. CASE RefillFails
  <2>1. pc = "flush" /\ txIdx[nic] = 0 /\ txIdx' = txIdx
    BY <1>5 DEF RefillFails
  <2>2. CASE pc' = "failed"
    BY <2>2 DEF CtlInv, Destroying
  <2>3. CASE FlushReturns
    BY <1>1, <2>1, <2>3, ReturnsTo
  <2> QED
    BY <1>5, <2>2, <2>3 DEF RefillFails
<1>6. CASE PollFlush
  <2>1. flushQueue # <<>> /\ flushQueue \in Seq(Nics) /\ pc = "pollFlush" /\ caller = "poll" /\ off = 0
    BY <1>1, <1>6 DEF PollFlush, TypeOK, CtlInv
  <2>2. Len(flushQueue) \in 1 .. Len(flushQueue)
    BY <2>1, ListOperations
  <2>3. PICK n \in Nics : n = flushQueue[Len(flushQueue)]
    BY <2>1, <2>2, ListOperations
  <2>4. FlushLast(n, n)
    BY <1>6, <2>3 DEF PollFlush
  <2>5. off + txIdx[n] <= Burst
    BY <1>0, <1>a, <2>1
  <2> QED
    BY <2>1, <2>4, <2>5 DEF FlushLast, FlushBegins, CtlInv, Destroying
<1>7. CASE Recv \/ PollBegin \/ PollFlushDone \/ RecvNop \/ RecvFails \/ RecvDone
  BY <1>1, <1>7 DEF Recv, PollBegin, PollFlushDone, RecvFrom, RecvNop, RecvFails, RecvDone, CtlInv, Destroying
<1>8. CASE DestroyBegin
  <2>1. \A n \in Nics : ~ (n < 1)
    BY <1>b
  <2> QED
    BY <1>1, <1>8, <2>1 DEF DestroyBegin, CtlInv, Destroying
<1>9. CASE DestroyNext
  <2>1. pc = "destroy" /\ nic \in Nics /\ off = 0 /\ off' = off /\ txIdx' = txIdx /\ caller = "poll"
        /\ \A n \in Nics : n < nic => txIdx[n] = 0
    BY <1>1, <1>9, <1>a, <1>c DEF DestroyNext, CtlInv, Destroying
  <2>2. CASE FlushBegins(nic) /\ caller' = "destroy"
    <3>1. off + txIdx[nic] <= Burst
      BY <1>0, <1>a, <2>1
    <3> QED
      BY <2>1, <2>2, <3>1 DEF FlushBegins, CtlInv, Destroying
  <2>3. CASE txIdx[nic] = 0 /\ nic' = nic + 1 /\ pc' = pc /\ caller' = caller
    <3>1. \A n \in Nics : n < nic + 1 => n < nic \/ n = nic
      BY <1>a, <1>b, <1>0
    <3> QED
      BY <2>1, <2>3, <3>1 DEF CtlInv, Destroying
  <2> QED
    BY <1>9, <2>2, <2>3 DEF DestroyNext
<1>10. CASE DestroyDone
  BY <1>1, <1>10 DEF DestroyDone, CtlInv, Destroying
<1>11. ASSUME NEW n \in Nics, Transmit(n) \/ Arrive(n) \/ Return(n)
       PROVE  CtlInv'
  BY <1>1, <1>11 DEF Transmit, Arrive, Return, CtlInv, Destroying
<1>12. CASE UNCHANGED vars
  BY <1>1, <1>12 DEF CtlInv, Destroying, vars
<1> QED
  BY <1>2, <1>3, <1>4, <1>5, <1>6, <1>7, <1>8, <1>9, <1>10, <1>11, <1>12, StepCases

(* The first half of ListInv: the list and the flags agree. *)
Listed(q, f) ==
  /\ \A i, j \in 1 .. Len(q) : q[i] = q[j] => i = j
  /\ \A n \in Nics : n \in f <=> \E i \in 1 .. Len(q) : q[i] = n

(* The end of process keeps the list and the flags in agreement. *)
LEMMA MarkListed ==
  ASSUME flushQueue \in Seq(Nics), NEW n \in Nics, MarkFlush(n), Listed(flushQueue, flushFlag)
  PROVE  Listed(flushQueue', flushFlag')
<1>1. CASE n \in flushFlag
  <2>1. flushQueue' = flushQueue /\ \A m : m \in flushFlag' <=> m \in flushFlag
    BY <1>1 DEF MarkFlush
  <2> QED
    BY <2>1 DEF Listed
<1>2. CASE n \notin flushFlag
  <2>1. PICK q : q = flushQueue'
    OBVIOUS
  <2>2. PICK l \in Nat : l = Len(flushQueue)
    BY ListOperations
  <2>3. Len(q) = l + 1 /\ q[l + 1] = n /\ \A i \in 1 .. l : q[i] = flushQueue[i]
    BY <1>2, <2>1, <2>2, ListOperations DEF MarkFlush
  <2>4. \A i : i \in 1 .. l + 1 <=> i \in 1 .. l \/ i = l + 1
    OBVIOUS
  <2>5. \A i \in 1 .. l : flushQueue[i] # n
    BY <1>2, <2>2 DEF Listed
  <2>6. \A m : m \in flushFlag' <=> m \in flushFlag \/ m = n
    BY DEF MarkFlush
  <2>7. \A i, j \in 1 .. Len(q) : q[i] = q[j] => i = j
    BY <2>2, <2>3, <2>4, <2>5 DEF Listed
  <2>8. \A m \in Nics : m \in flushFlag' <=> \E i \in 1 .. Len(q) : q[i] = m
    BY <2>2, <2>3, <2>4, <2>6 DEF Listed
  <2> QED
    BY <2>1, <2>7, <2>8 DEF Listed
<1> QED
  BY <1>1, <1>2

(* Taking the last adapter off the list does as well. *)
LEMMA TakeListed ==
  ASSUME flushQueue \in Seq(Nics), flushQueue # <<>>, NEW n \in Nics, n = flushQueue[Len(flushQueue)],
         FlushLast(n, n), Listed(flushQueue, flushFlag)
  PROVE  /\ Listed(flushQueue', flushFlag')
         /\ \A m \in Nics : m \in flushFlag' <=> m \in flushFlag /\ m # n
<1>1. PICK q : q = flushQueue'
  OBVIOUS
<1>2. PICK l \in Nat : l = Len(flushQueue) /\ l >= 1
  BY ListOperations
<1>3. Len(q) = l - 1 /\ \A i \in 1 .. l - 1 : q[i] = flushQueue[i]
  BY <1>1, <1>2, ListOperations DEF FlushLast
<1>4. \A i : i \in 1 .. l <=> i \in 1 .. l - 1 \/ i = l
  BY <1>2
<1>5. l \notin 1 .. l - 1
  BY <1>2
<1>6. n \in flushFlag
  BY <1>2, <1>4 DEF Listed
<1>7. \A m : m \in flushFlag' <=> m \in flushFlag /\ m # n
  BY <1>6 DEF FlushLast
<1>8. \A i \in 1 .. l - 1 : flushQueue[i] # n
  BY <1>2, <1>4, <1>5 DEF Listed
<1>9. \A i, j \in 1 .. Len(q) : q[i] = q[j] => i = j
  BY <1>2, <1>3, <1>4 DEF Listed
<1>10. \A m \in Nics : m \in flushFlag' <=> \E i \in 1 .. Len(q) : q[i] = m
  BY <1>2, <1>3, <1>4, <1>7, <1>8 DEF Listed
<1> QED
  BY <1>1, <1>7, <1>9, <1>10 DEF Listed

(* The adapters with packets stay on the list. *)
LEMMA ListStep ==
  ASSUME IInv, [Next]_vars
  PROVE  ListInv'
<1>1. TypeOK /\ CtlInv /\ ListInv /\ flushQueue \in Seq(Nics) /\ Listed(flushQueue, flushFlag)
  BY DEF IInv, TypeOK, ListInv, Listed
<1>0. Burst \in Nat \ {0} /\ \A n \in Nics : txIdx[n] \in 0 .. Burst
  BY <1>1, IoAssumption DEF TypeOK
<1>a. ASSUME Listed(flushQueue', flushFlag'),
             \A n \in Nics : txIdx'[n] = Burst => Flushing(n)',
             \A n \in Nics : pc' # "failed" /\ txIdx'[n] > 0 => n \in flushFlag' \/ Flushing(n)'
      PROVE  ListInv'
  BY <1>a DEF ListInv, Listed
<1>b. /\ \A n \in Nics : txIdx[n] = Burst => Flushing(n)
      /\ \A n \in Nics : pc # "failed" /\ txIdx[n] > 0 => n \in flushFlag \/ Flushing(n)
  BY <1>1 DEF ListInv
<1>2. ASSUME NEW p \in Packets, Process(Nic[p], p)
      PROVE  ListInv'
  <2>1. PICK n \in Nics : n = Nic[p] /\ Process(n, p)
    BY <1>2, IoAssumption
  <2>2. pc = "idle" /\ txIdx'[n] = txIdx[n] + 1 /\ \A m \in Nics : m # n => txIdx'[m] = txIdx[m]
    BY <1>1, <2>1 DEF Process, Buffer, TypeOK
  <2>3. \A m \in Nics : txIdx[m] # Burst /\ (txIdx[m] > 0 => m \in flushFlag)
    BY <1>b, <2>2 DEF Flushing
  <2>4. CASE pc' = "flush" /\ nic' = n /\ UNCHANGED nodeVars
    <3>1. flushQueue' = flushQueue /\ flushFlag' = flushFlag
      BY <2>4 DEF nodeVars
    <3> QED
      BY <1>1, <1>a, <2>2, <2>3, <2>4, <3>1 DEF Flushing
  <2>5. CASE txIdx[n] + 1 # Burst /\ MarkFlush(n) /\ pc' = pc
    <3>1. Listed(flushQueue', flushFlag')
      BY <1>1, <2>5, MarkListed
    <3>2. \A m : m \in flushFlag' <=> m \in flushFlag \/ m = n
      BY <2>5 DEF MarkFlush
    <3> QED
      BY <1>a, <2>2, <2>3, <2>5, <3>1, <3>2
  <2> QED
    BY <2>1, <2>4, <2>5 DEF Process, Buffer
<1>3. CASE FlushRound(0)
  <2>1. PICK n \in Nics : n = nic
    BY <1>1, <1>3, RoundFacts
  <2>2. PICK r \in 0 .. wired[n], nb \in 0 .. txIdx[n] : TxBurst(r, nb)
    BY <1>1, <1>3, <2>1, RoundFacts
  <2>3. pc = "flush" /\ UNCHANGED <<pc, nic, flushQueue, flushFlag>> /\ txIdx' = [txIdx EXCEPT ![n] = @ - nb]
    BY <1>3, <2>1, <2>2 DEF FlushRound, TxBurst, Exchange, nodeVars
  <2>4. \A m \in Nics : m # n => txIdx'[m] = txIdx[m]
    BY <1>1, <2>3 DEF TypeOK
  <2> QED
    BY <1>1, <1>a, <1>b, <2>1, <2>3, <2>4 DEF Flushing
<1>4. ASSUME pc = "flush", txIdx[nic] = 0, txIdx' = txIdx, FlushReturns
      PROVE  ListInv'
  <2>1. PICK n \in Nics : n = nic
    BY <1>1, <1>4 DEF CtlInv
  <2>2. (flushQueue' = flushQueue /\ flushFlag' = flushFlag) \/ MarkFlush(n)
    BY <1>1, <1>4, <2>1, ReturnsTo
  <2>3. Listed(flushQueue', flushFlag') /\ \A m : m \in flushFlag => m \in flushFlag'
    BY <1>1, <2>2, MarkListed DEF MarkFlush
  <2>4. \A m \in Nics : txIdx[m] # Burst /\ (txIdx[m] > 0 => m \in flushFlag)
    BY <1>0, <1>4, <1>b, <2>1 DEF Flushing
  <2> QED
    BY <1>4, <1>a, <2>3, <2>4
<1>5. CASE Refill
  BY <1>4, <1>5 DEF Refill
<1>6. CASE RefillFails
  <2>1. CASE pc' = "failed" /\ UNCHANGED nodeVars
    <3>1. pc = "flush" /\ txIdx[nic] = 0 /\ txIdx' = txIdx /\ flushQueue' = flushQueue /\ flushFlag' = flushFlag
      BY <1>6, <2>1 DEF RefillFails, nodeVars
    <3>2. \A m \in Nics : txIdx[m] # Burst
      BY <1>0, <1>b, <3>1 DEF Flushing
    <3> QED
      BY <1>1, <1>a, <2>1, <3>1, <3>2
  <2> QED
    BY <1>4, <1>6, <2>1 DEF RefillFails
<1>7. CASE PollFlush
  <2>1. flushQueue # <<>> /\ pc = "pollFlush"
    BY <1>7 DEF PollFlush
  <2>2. Len(flushQueue) \in 1 .. Len(flushQueue)
    BY <1>1, <2>1, ListOperations
  <2>3. PICK n \in Nics : n = flushQueue[Len(flushQueue)]
    BY <1>1, <2>2, ListOperations
  <2>4. FlushLast(n, n)
    BY <1>7, <2>3 DEF PollFlush
  <2>5. Listed(flushQueue', flushFlag') /\ \A m \in Nics : m \in flushFlag' <=> m \in flushFlag /\ m # n
    BY <1>1, <2>1, <2>3, <2>4, TakeListed
  <2>6. txIdx' = txIdx /\ ((pc' = "flush" /\ nic' = n) \/ (txIdx[n] = 0 /\ pc' = pc))
    BY <2>4 DEF FlushLast, FlushBegins
  <2>7. \A m \in Nics : txIdx[m] # Burst /\ (txIdx[m] > 0 => m \in flushFlag)
    BY <1>b, <2>1 DEF Flushing
  <2> QED
    BY <1>0, <1>a, <2>5, <2>6, <2>7 DEF Flushing
<1>8. CASE Recv \/ PollBegin \/ PollFlushDone \/ RecvNop \/ RecvFails \/ RecvDone
           \/ DestroyBegin \/ DestroyNext \/ DestroyDone
  <2>1. pc # "flush" /\ pc # "failed" /\ UNCHANGED <<flushQueue, flushFlag, txIdx>>
    BY <1>8 DEF Recv, PollBegin, PollFlushDone, RecvFrom, RecvNop, RecvFails, RecvDone, DestroyBegin,
                DestroyNext, DestroyDone, nodeVars
  <2>2. \A m \in Nics : txIdx[m] # Burst /\ (txIdx[m] > 0 => m \in flushFlag)
    BY <1>b, <2>1 DEF Flushing
  <2> QED
    BY <1>1, <1>a, <2>1, <2>2
<1>9. CASE (\E n \in Nics : Transmit(n) \/ Arrive(n) \/ Return(n)) \/ UNCHANGED vars
  <2>1. UNCHANGED <<pc, nic, flushQueue, flushFlag, txIdx>>
    BY <1>9 DEF Transmit, Arrive, Return, nodeVars, vars
  <2> QED
    BY <1>1, <1>a, <1>b, <2>1 DEF Flushing
<1> QED
  BY <1>2, <1>3, <1>5, <1>6, <1>7, <1>8, <1>9, StepCases

(* The invariant holds initially. *)
LEMMA InitIInv ==
  ASSUME Init
  PROVE  IInv
<1>0. NumNics \in Nat /\ Burst \in Nat \ {0} /\ RingSize \in [Nics -> Nat \ {0}]
      /\ 1 \in 1 .. NumNics + 1 /\ 0 \in 0 .. Burst
  BY IoAssumption
<1>1. /\ txBufs \in [Nics -> [1 .. Burst -> Mbufs]]
      /\ \A n \in Nics : \A i, j \in 1 .. Burst : i # j => txBufs[n][i] # txBufs[n][j]
  BY DEF Init
<1>2. /\ \A n \in Nics : ring[n] = <<>> /\ rxq[n] = <<>> /\ lent[n] = {} /\ txIdx[n] = 0 /\ wired[n] = 0
      /\ \A n \in Nics : mpool[n] = Mbufs \ {txBufs[n][i] : i \in 1 .. Burst}
      /\ \A n \in Nics, m \in Mbufs : pkt[n][m] = NoPacket
      /\ pc = "idle" /\ flushQueue = <<>> /\ flushFlag = {} /\ off = 0 /\ caller = "poll"
  BY DEF Init
<1>3. Len(<<>>) = 0 /\ <<>> \in Seq(Mbufs) /\ <<>> \in Seq(Nics)
  OBVIOUS
<1>4. TypeOK
  <2>1. \A n \in Nics : wired[n] <= Len(ring[n]) /\ Len(ring[n]) <= RingSize[n]
    BY <1>0, <1>2, <1>3
  <2>2. ring \in [Nics -> Seq(Mbufs)] /\ rxq \in [Nics -> Seq(Mbufs)] /\ wired \in [Nics -> Nat]
        /\ txIdx \in [Nics -> 0 .. Burst] /\ lent \in [Nics -> SUBSET Mbufs]
        /\ mpool \in [Nics -> SUBSET Mbufs] /\ pkt \in [Nics -> [Mbufs -> Packets \cup {NoPacket}]]
    BY <1>0, <1>3 DEF Init
  <2>3. pc \in Labels /\ caller \in {"send", "poll", "destroy"} /\ nic \in 1 .. NumNics + 1
        /\ flushQueue \in Seq(Nics) /\ flushFlag \subseteq Nics /\ off \in 0 .. Burst
    BY <1>0, <1>2, <1>3 DEF Init, Labels
  <2> QED
    BY <1>1, <2>1, <2>2, <2>3 DEF TypeOK
<1>5. CtlInv
  BY <1>2 DEF CtlInv, Destroying
<1>6. ListInv
  <2>1. \A i : i \notin 1 .. Len(flushQueue)
    BY <1>2, <1>3
  <2>2. \A n \in Nics : txIdx[n] # Burst /\ ~ (txIdx[n] > 0)
    BY <1>0, <1>2
  <2> QED
    BY <1>2, <2>1, <2>2 DEF ListInv
<1>7. ASSUME NEW n \in Nics PROVE Owns(n) /\ Carries(n)
  <2>1. First(n) = 1
    BY <1>2 DEF First, Flushing
  <2>2. \A i : i \notin 1 .. Len(ring[n]) /\ i \notin 1 .. Len(rxq[n])
    BY <1>2, <1>3
  <2>3. \A m : ~ Holds(ring[n], 1, Len(ring[n]), m) /\ ~ Holds(rxq[n], 1, Len(rxq[n]), m)
    BY <2>2 DEF Holds
  <2>4. Once(ring[n], 1, Len(ring[n])) /\ Once(rxq[n], 1, Len(rxq[n])) /\ Once(txBufs[n], 1, Burst)
    BY <1>1, <2>2 DEF Once
  <2>5. \A m \in Mbufs : m \in mpool[n] <=> ~ Holds(txBufs[n], 1, Burst, m)
    BY <1>2 DEF Holds
  <2>6. Owns(n)
    BY <1>2, <2>1, <2>3, <2>4, <2>5 DEF Owns, Apart
  <2>7. \A i : i \notin 1 .. 1 + 0 - 1
    OBVIOUS
  <2>8. \A m : ~ Holds(txBufs[n], 1, 1 + 0 - 1, m)
    BY <2>7 DEF Holds
  <2>9. Carries(n)
    BY <1>2, <2>1, <2>3, <2>8 DEF Carries, Loaded
  <2> QED
    BY <2>6, <2>9
<1> QED
  BY <1>4, <1>5, <1>6, <1>7 DEF IInv, OwnInv, CarryInv

(* The invariant of the node and its adapters. *)
THEOREM Invariance == Spec => []IInv
<1>1. Init => IInv
  BY InitIInv
<1>2. IInv /\ [Next]_vars => IInv'
  BY TypeStep, CtlStep, ListStep, OwnStep, CarryStep DEF IInv
<1> QED
  BY <1>1, <1>2, PTL DEF Spec

(* Every variable keeps its type: no index leaves its array, and no ring   *)
(* holds more than the port has room for.                                  *)
THEOREM TypeCorrect == Spec => []TypeOK
<1>1. IInv => TypeOK
  BY DEF IInv
<1> QED
  BY <1>1, Invariance, PTL

-----------------------------------------------------------------------------
(* The properties.                                                         *)

(* A range that holds nothing twice has as many elements as positions. *)
LEMMA EntriesCounted ==
  ASSUME NEW f, NEW a \in Int, NEW b \in Int, a <= b + 1, Once(f, a, b),
         NEW S, \A m : m \in S <=> Holds(f, a, b, m)
  PROVE  IsFiniteSet(S) /\ Cardinality(S) = b - a + 1
<1> DEFINE g == [i \in a .. b |-> f[i]]
<1>1. g \in [a .. b -> S]
  BY DEF Holds
<1>2. \A i, j \in a .. b : g[i] = g[j] => i = j
  BY DEF Once
<1>3. \A m \in S : \E i \in a .. b : g[i] = m
  BY DEF Holds
<1>4. g \in Bijection(a .. b, S)
  <2> HIDE DEF g
  <2> QED
    BY <1>1, <1>2, <1>3, Fun_IsBij
<1>5. ExistsBijection(a .. b, S)
  BY <1>4 DEF ExistsBijection
<1>6. IsFiniteSet(a .. b) /\ Cardinality(a .. b) = b - a + 1
  BY FS_Interval
<1> QED
  BY <1>5, <1>6, FS_Bijection

(* The cardinality of the union of disjoint sets. *)
LEMMA DisjointUnion ==
  ASSUME NEW S, IsFiniteSet(S), NEW T, IsFiniteSet(T), \A m : ~ (m \in S /\ m \in T)
  PROVE  IsFiniteSet(S \cup T) /\ Cardinality(S \cup T) = Cardinality(S) + Cardinality(T)
<1>1. S \cap T = {}
  OBVIOUS
<1>2. Cardinality(S \cap T) = 0
  BY <1>1, FS_EmptySet
<1>3. Cardinality(S) \in Nat /\ Cardinality(T) \in Nat
  BY FS_CardinalityType
<1>4. IsFiniteSet(S \cup T) /\ Cardinality(S \cup T) = Cardinality(S) + Cardinality(T) - Cardinality(S \cap T)
  BY FS_Union, Zenon
<1> QED
  BY <1>2, <1>3, <1>4

(* The entries of a sequence, as a set. *)
LEMMA ElemsHolds ==
  ASSUME NEW s, NEW m
  PROVE  m \in Elems(s) <=> Holds(s, 1, Len(s), m)
BY DEF Elems, Holds

(* The packets that are still buffered, as a set of slots. *)
LEMMA BufferedHolds ==
  ASSUME TypeOK, CtlInv, NEW n \in Nics, NEW m
  PROVE  m \in Elems(Buffered(n)) <=> Holds(txBufs[n], First(n), First(n) + txIdx[n] - 1, m)
<1>1. PICK F \in Nat, t \in Nat, B \in [1 .. Burst -> Mbufs] :
        F = First(n) /\ t = txIdx[n] /\ B = txBufs[n] /\ F >= 1 /\ F + t <= Burst + 1 /\ Burst \in Nat
  BY AdapterType
<1>2. PICK s : s = SubSeq(B, F, F + t - 1)
  OBVIOUS
<1>3. Buffered(n) = s
  BY <1>1, <1>2 DEF Buffered
<1>4. \A i \in F .. F + t - 1 : B[i] \in Mbufs
  BY <1>1
<1>5. F \in Int /\ F + t - 1 \in Int
  OBVIOUS
<1>6. /\ Len(SubSeq(B, F, F + t - 1)) = IF F <= F + t - 1 THEN (F + t - 1) - F + 1 ELSE 0
      /\ \A i \in 1 .. (F + t - 1) - F + 1 : SubSeq(B, F, F + t - 1)[i] = B[F + i - 1]
  BY <1>4, <1>5, SubSeqProperties
<1>7. Len(s) = t /\ \A i \in 1 .. t : s[i] = B[F + i - 1]
  <2>1. (F + t - 1) - F + 1 = t /\ (IF F <= F + t - 1 THEN (F + t - 1) - F + 1 ELSE 0) = t
    OBVIOUS
  <2> QED
    BY <1>2, <1>6, <2>1
<1>8. ASSUME Holds(s, 1, Len(s), m) PROVE Holds(B, F, F + t - 1, m)
  <2>1. PICK i \in 1 .. t : s[i] = m
    BY <1>7, <1>8 DEF Holds
  <2>2. F + i - 1 \in F .. F + t - 1 /\ B[F + i - 1] = m
    BY <1>7, <2>1
  <2> QED
    BY <2>2 DEF Holds
<1>9. ASSUME Holds(B, F, F + t - 1, m) PROVE Holds(s, 1, Len(s), m)
  <2>1. PICK i \in F .. F + t - 1 : B[i] = m
    BY <1>9 DEF Holds
  <2>2. PICK j \in 1 .. t : j = i - F + 1
    OBVIOUS
  <2>3. F + j - 1 = i
    BY <2>2
  <2>4. s[j] = m
    BY <1>7, <2>1, <2>3
  <2> QED
    BY <1>7, <2>4 DEF Holds
<1> QED
  BY <1>1, <1>3, <1>8, <1>9, ElemsHolds

(* The invariant gives MbufOwnership, adapter by adapter. *)
LEMMA OwnershipOf ==
  ASSUME TypeOK, CtlInv, NEW n \in Nics, Owns(n)
  PROVE  /\ Cardinality(mpool[n]) + Cardinality(lent[n]) + Len(ring[n]) + Len(rxq[n])
              + Cardinality(Owned(n)) = Cardinality(Mbufs)
         /\ mpool[n] \cup lent[n] \cup Elems(ring[n]) \cup Elems(rxq[n])
              \cup {txBufs[n][i] : i \in Owned(n)} = Mbufs
<1>1. PICK R, Q, B, F, P, L, lr, lq :
        /\ R = ring[n] /\ Q = rxq[n] /\ B = txBufs[n] /\ F = First(n) /\ P = mpool[n] /\ L = lent[n]
        /\ lr = Len(R) /\ lq = Len(Q)
  OBVIOUS
<1>2. /\ lr \in Nat /\ lq \in Nat /\ Burst \in Nat /\ F \in 1 .. Burst + 1
      /\ P \in SUBSET Mbufs /\ L \in SUBSET Mbufs
      /\ \A i \in 1 .. lr : R[i] \in Mbufs
      /\ \A i \in 1 .. lq : Q[i] \in Mbufs
      /\ B \in [1 .. Burst -> Mbufs]
  BY <1>1, AdapterType
<1>3. Apart(R, lr, Q, lq, B, F, P, L)
  BY <1>1 DEF Owns
<1>4. PICK ER, EQ, EB : /\ ER = Elems(R) /\ EQ = Elems(Q) /\ EB = {B[i] : i \in Owned(n)}
  OBVIOUS
<1>5. /\ \A m : m \in ER <=> Holds(R, 1, lr, m)
      /\ \A m : m \in EQ <=> Holds(Q, 1, lq, m)
  BY <1>1, <1>4, ElemsHolds
<1>6. Owned(n) = F .. Burst
  BY <1>1, <1>2 DEF Owned
<1>7. \A m : m \in EB <=> Holds(B, F, Burst, m)
  BY <1>4, <1>6 DEF Holds
<1>8. IsFiniteSet(ER) /\ Cardinality(ER) = lr
  <2>1. Cardinality(ER) = lr - 1 + 1 /\ IsFiniteSet(ER)
    BY <1>2, <1>3, <1>5, EntriesCounted DEF Apart
  <2> QED
    BY <1>2, <2>1
<1>9. IsFiniteSet(EQ) /\ Cardinality(EQ) = lq
  <2>1. Cardinality(EQ) = lq - 1 + 1 /\ IsFiniteSet(EQ)
    BY <1>2, <1>3, <1>5, EntriesCounted DEF Apart
  <2> QED
    BY <1>2, <2>1
<1>10. IsFiniteSet(EB) /\ Cardinality(EB) = Cardinality(Owned(n))
  <2>1. F \in Int /\ Burst \in Int /\ F <= Burst + 1
    BY <1>2
  <2>2. Cardinality(EB) = Burst - F + 1 /\ IsFiniteSet(EB)
    BY <1>3, <1>7, <2>1, EntriesCounted DEF Apart
  <2>3. Cardinality(F .. Burst) = Burst - F + 1
    BY <2>1, FS_Interval
  <2> QED
    BY <1>6, <2>2, <2>3
<1>11. IsFiniteSet(P) /\ IsFiniteSet(L)
  BY <1>2, IoAssumption, FS_Subset
<1>12. \A m : /\ m \in P => m \in Mbufs
              /\ m \in L => m \in Mbufs
              /\ m \in ER => m \in Mbufs
              /\ m \in EQ => m \in Mbufs
              /\ m \in EB => m \in Mbufs
  <2>1. \A i \in F .. Burst : B[i] \in Mbufs
    BY <1>2
  <2> QED
    BY <1>2, <1>5, <1>7, <2>1 DEF Holds
<1>13. \A m : /\ m \in P => m \notin L /\ m \notin ER /\ m \notin EQ /\ m \notin EB
              /\ m \in L => m \notin ER /\ m \notin EQ /\ m \notin EB
              /\ m \in ER => m \notin EQ /\ m \notin EB
              /\ m \in EQ => m \notin EB
  BY <1>3, <1>5, <1>7, <1>12 DEF Apart
<1>14. \A m \in Mbufs : m \in P \/ m \in L \/ m \in ER \/ m \in EQ \/ m \in EB
  BY <1>3, <1>5, <1>7 DEF Apart
<1>15. P \cup L \cup ER \cup EQ \cup EB = Mbufs
  BY <1>12, <1>14
<1>16. PICK S1, S2, S3 : S1 = P \cup L /\ S2 = S1 \cup ER /\ S3 = S2 \cup EQ
  OBVIOUS
<1>17. IsFiniteSet(S1) /\ Cardinality(S1) = Cardinality(P) + Cardinality(L)
  BY <1>11, <1>13, <1>16, DisjointUnion
<1>18. IsFiniteSet(S2) /\ Cardinality(S2) = Cardinality(S1) + Cardinality(ER)
  <2>1. \A m : ~ (m \in S1 /\ m \in ER)
    BY <1>13, <1>16
  <2> QED
    BY <1>8, <1>16, <1>17, <2>1, DisjointUnion
<1>19. IsFiniteSet(S3) /\ Cardinality(S3) = Cardinality(S2) + Cardinality(EQ)
  <2>1. \A m : ~ (m \in S2 /\ m \in EQ)
    BY <1>13, <1>16
  <2> QED
    BY <1>9, <1>16, <1>18, <2>1, DisjointUnion
<1>20. Cardinality(Mbufs) = Cardinality(S3) + Cardinality(EB)
  <2>1. \A m : ~ (m \in S3 /\ m \in EB)
    BY <1>13, <1>16
  <2>2. S3 \cup EB = Mbufs
    BY <1>15, <1>16
  <2>3. Cardinality(S3 \cup EB) = Cardinality(S3) + Cardinality(EB)
    BY <1>10, <1>19, <2>1, DisjointUnion
  <2> QED
    BY <2>2, <2>3
<1>21. Cardinality(Mbufs) = Cardinality(P) + Cardinality(L) + lr + lq + Cardinality(Owned(n))
  BY <1>8, <1>9, <1>10, <1>17, <1>18, <1>19, <1>20
<1> QED
  BY <1>1, <1>4, <1>15, <1>21

(* Every mbuf of a port in use has one owner: none is lost, and none that  *)
(* the driver or the stack holds is in tx_bufs, where send would write it. *)
THEOREM MbufsOwned == Spec => []MbufOwnership
<1>1. IInv => MbufOwnership
  BY OwnershipOf DEF IInv, OwnInv, MbufOwnership
<1> QED
  BY <1>1, Invariance, PTL

(* An mbuf carries a packet exactly while it is buffered or in the ring.   *)
THEOREM PacketsAttached == Spec => []Attached
<1>1. ASSUME IInv PROVE Attached
  <2> SUFFICES ASSUME NEW n \in Nics
               PROVE  {m \in Mbufs : pkt[n][m] # NoPacket} = Elems(ring[n]) \cup Elems(Buffered(n))
    BY DEF Attached
  <2>1. TypeOK /\ CtlInv /\ Carries(n)
    BY <1>1 DEF IInv, CarryInv
  <2>2. ASSUME NEW m
        PROVE  /\ m \in Elems(ring[n]) <=> Holds(ring[n], 1, Len(ring[n]), m)
               /\ m \in Elems(Buffered(n)) <=> Holds(txBufs[n], First(n), First(n) + txIdx[n] - 1, m)
    BY <2>1, ElemsHolds, BufferedHolds
  <2>3. \A m : Holds(ring[n], 1, Len(ring[n]), m) => m \in Mbufs
    BY <2>1, AdapterType DEF Holds
  <2>4. \A m : Holds(txBufs[n], First(n), First(n) + txIdx[n] - 1, m) => m \in Mbufs
    <3>1. \A i \in First(n) .. First(n) + txIdx[n] - 1 : i \in 1 .. Burst
      BY <2>1, AdapterType
    <3>2. \A i \in 1 .. Burst : txBufs[n][i] \in Mbufs
      BY <2>1, AdapterType
    <3> QED
      BY <3>1, <3>2 DEF Holds
  <2> QED
    BY <2>1, <2>2, <2>3, <2>4 DEF Carries, Loaded
<1> QED
  BY <1>1, Invariance, PTL

(* No packet is left in a buffer that nothing will flush, send never       *)
(* writes outside tx_bufs, and the list of adapters never overflows.       *)
THEOREM NothingStranded == Spec => []NoneStranded
<1>1. ASSUME IInv PROVE NoneStranded
  <2>0. NumNics \in Nat /\ Burst \in Nat /\ \A n \in Nics : n \in 1 .. NumNics /\ txIdx[n] \in 0 .. Burst
    BY <1>1, IoAssumption DEF IInv, TypeOK, Nics
  <2>1. pc = "idle" => \A n \in Nics : (txIdx[n] > 0 => n \in flushFlag) /\ txIdx[n] < Burst
    BY <1>1, <2>0 DEF IInv, ListInv, Flushing
  <2>2. pc = "stopped" => \A n \in Nics : txIdx[n] = 0
    <3>1. nic \in 1 .. NumNics + 1
      BY <1>1 DEF IInv, TypeOK
    <3>2. ASSUME pc = "stopped" PROVE \A n \in Nics : n < nic
      BY <1>1, <2>0, <3>1, <3>2 DEF IInv, CtlInv
    <3> QED
      BY <1>1, <3>2 DEF IInv, CtlInv
  <2>3. flushQueue \in Seq(Nics) /\ flushFlag \subseteq Nics /\ Len(flushQueue) \in Nat
        /\ \A i \in 1 .. Len(flushQueue) : flushQueue[i] \in Nics
    BY <1>1, ListOperations DEF IInv, TypeOK
  <2>4. \A m : m \in flushFlag <=> Holds(flushQueue, 1, Len(flushQueue), m)
    BY <1>1, <2>3 DEF IInv, ListInv, Holds
  <2>5. Elems(flushQueue) = flushFlag
    BY <2>4, ElemsHolds
  <2>6. Once(flushQueue, 1, Len(flushQueue))
    BY <1>1 DEF IInv, ListInv, Once
  <2>7. Cardinality(flushFlag) = Len(flushQueue) - 1 + 1
    BY <2>3, <2>4, <2>6, EntriesCounted
  <2>8. Len(flushQueue) = Cardinality(flushFlag)
    BY <2>3, <2>7
  <2> QED
    BY <2>1, <2>2, <2>5, <2>8 DEF NoneStranded
<1> QED
  BY <1>1, Invariance, PTL

-----------------------------------------------------------------------------
(* The adapters implement TxFifo.                                          *)

Loads == Packets \cup {NoPacket}

(* s is the line of packets of a ring from position w + 1 on and of the t  *)
(* slots of a buffer from F on.                                            *)
IsLine(s, R, lr, w, B, F, t, K) ==
  /\ s \in Seq(Loads) /\ Len(s) = lr - w + t
  /\ \A i \in 1 .. lr - w : s[i] = K[R[w + i]]
  /\ \A i \in 1 .. t : s[lr - w + i] = K[B[F + i - 1]]

(* g is the packets of a ring up to position w. *)
IsGone(g, R, w, K) ==
  /\ g \in Seq(Loads) /\ Len(g) = w
  /\ \A i \in 1 .. w : g[i] = K[R[i]]

(* There is one such line. *)
LEMMA LineUnique ==
  ASSUME NEW R, NEW lr \in Nat, NEW w \in Nat, NEW B, NEW F, NEW t \in Nat, NEW K, w <= lr,
         NEW s1, NEW s2, IsLine(s1, R, lr, w, B, F, t, K), IsLine(s2, R, lr, w, B, F, t, K)
  PROVE  s1 = s2
<1>1. s1 \in Seq(Loads) /\ s2 \in Seq(Loads) /\ Len(s1) = lr - w + t /\ Len(s2) = lr - w + t
  BY DEF IsLine
<1>2. ASSUME NEW i \in 1 .. lr - w + t PROVE s1[i] = s2[i]
  <2>1. CASE i \in 1 .. lr - w
    BY <2>1 DEF IsLine
  <2>2. CASE i > lr - w
    <3>1. PICK j \in 1 .. t : i = lr - w + j
      <4>1. i - (lr - w) \in 1 .. t /\ i = lr - w + (i - (lr - w))
        BY <2>2
      <4> QED
        BY <4>1
    <3> QED
      BY <3>1 DEF IsLine
  <2> QED
    BY <2>1, <2>2
<1> QED
  BY <1>1, <1>2, SeqEqual

(* There is one such sequence. *)
LEMMA GoneUnique ==
  ASSUME NEW R, NEW w, NEW K, NEW s1, NEW s2, IsGone(s1, R, w, K), IsGone(s2, R, w, K)
  PROVE  s1 = s2
<1>1. s1 \in Seq(Loads) /\ s2 \in Seq(Loads) /\ Len(s1) = w /\ Len(s2) = w /\ \A i \in 1 .. w : s1[i] = s2[i]
  BY DEF IsGone
<1> QED
  BY <1>1, SeqEqual

(* The line and the packets that have left, as fifo and flight have them,  *)
(* and the types of what they are made of.                                 *)
LineSeq(R, w, B, F, t, K) ==
  LET s == SubSeq(R, w + 1, Len(R)) \o SubSeq(B, F, F + t - 1) IN [i \in 1 .. Len(s) |-> K[s[i]]]

GoneSeq(R, w, K) == LET g == SubSeq(R, 1, w) IN [i \in 1 .. Len(g) |-> K[g[i]]]

LineTypes(R, w, B, F, t, K) ==
  /\ R \in Seq(Mbufs) /\ w \in Nat /\ w <= Len(R) /\ B \in [1 .. Burst -> Mbufs] /\ Burst \in Nat
  /\ F \in Nat \ {0} /\ t \in Nat /\ F + t <= Burst + 1 /\ K \in [Mbufs -> Loads]

(* What fifo and flight are, entry by entry. *)
LEMMA Mapping ==
  ASSUME NEW R, NEW w, NEW B, NEW F, NEW t, NEW K, LineTypes(R, w, B, F, t, K)
  PROVE  /\ IsLine(LineSeq(R, w, B, F, t, K), R, Len(R), w, B, F, t, K)
         /\ IsGone(GoneSeq(R, w, K), R, w, K)
<1>0. /\ R \in Seq(Mbufs) /\ w \in Nat /\ w <= Len(R) /\ B \in [1 .. Burst -> Mbufs] /\ Burst \in Nat
      /\ F \in Nat \ {0} /\ t \in Nat /\ F + t <= Burst + 1 /\ K \in [Mbufs -> Loads]
  BY DEF LineTypes
<1>a. PICK s, g : s = SubSeq(R, w + 1, Len(R)) \o SubSeq(B, F, F + t - 1) /\ g = SubSeq(R, 1, w)
  OBVIOUS
<1> USE <1>0, <1>a
<1>1. PICK lr \in Nat : lr = Len(R) /\ w <= lr /\ \A i \in 1 .. lr : R[i] \in Mbufs
  BY LenProperties, ElementOfSeq
<1>2. PICK s1 : s1 = SubSeq(R, w + 1, lr)
  OBVIOUS
<1>3. s1 \in Seq(Mbufs) /\ Len(s1) = lr - w /\ \A i \in 1 .. lr - w : s1[i] = R[w + i]
  <2>1. w + 1 \in Int /\ lr \in Int /\ \A i \in w + 1 .. lr : R[i] \in Mbufs
    BY <1>1
  <2>2. /\ SubSeq(R, w + 1, lr) \in Seq(Mbufs)
        /\ Len(SubSeq(R, w + 1, lr)) = IF w + 1 <= lr THEN lr - (w + 1) + 1 ELSE 0
        /\ \A i \in 1 .. lr - (w + 1) + 1 : SubSeq(R, w + 1, lr)[i] = R[(w + 1) + i - 1]
    BY <2>1, SubSeqProperties
  <2>3. (IF w + 1 <= lr THEN lr - (w + 1) + 1 ELSE 0) = lr - w /\ lr - (w + 1) + 1 = lr - w
        /\ \A i \in 1 .. lr - w : (w + 1) + i - 1 = w + i
    BY <1>1
  <2> QED
    BY <1>2, <2>2, <2>3
<1>4. PICK s2 : s2 = SubSeq(B, F, F + t - 1)
  OBVIOUS
<1>5. s2 \in Seq(Mbufs) /\ Len(s2) = t /\ \A i \in 1 .. t : s2[i] = B[F + i - 1]
  <2>1. F \in Int /\ F + t - 1 \in Int /\ \A i \in F .. F + t - 1 : B[i] \in Mbufs
    OBVIOUS
  <2>2. /\ SubSeq(B, F, F + t - 1) \in Seq(Mbufs)
        /\ Len(SubSeq(B, F, F + t - 1)) = IF F <= F + t - 1 THEN (F + t - 1) - F + 1 ELSE 0
        /\ \A i \in 1 .. (F + t - 1) - F + 1 : SubSeq(B, F, F + t - 1)[i] = B[F + i - 1]
    BY <2>1, SubSeqProperties
  <2>3. (IF F <= F + t - 1 THEN (F + t - 1) - F + 1 ELSE 0) = t /\ (F + t - 1) - F + 1 = t
    OBVIOUS
  <2> QED
    BY <1>4, <2>2, <2>3
<1>6. s = s1 \o s2
  BY <1>1, <1>2, <1>4
<1>7. /\ s \in Seq(Mbufs) /\ Len(s) = (lr - w) + t
      /\ \A i \in 1 .. (lr - w) + t : s[i] = IF i <= lr - w THEN s1[i] ELSE s2[i - (lr - w)]
  <2>1. /\ s1 \o s2 \in Seq(Mbufs) /\ Len(s1 \o s2) = Len(s1) + Len(s2)
        /\ \A i \in 1 .. Len(s1) + Len(s2) : (s1 \o s2)[i] = IF i <= Len(s1) THEN s1[i] ELSE s2[i - Len(s1)]
    BY <1>3, <1>5, ConcatProperties
  <2>2. Len(s1) = lr - w /\ Len(s2) = t
    BY <1>3, <1>5
  <2> QED
    BY <1>6, <2>1, <2>2, Zenon
<1>8. \A i \in 1 .. (lr - w) + t : s[i] \in Mbufs
  BY <1>7, ElementOfSeq
<1>9. IsLine([i \in 1 .. Len(s) |-> K[s[i]]], R, lr, w, B, F, t, K)
  <2>1. PICK q : q = [i \in 1 .. (lr - w) + t |-> K[s[i]]]
    OBVIOUS
  <2>2. q \in Seq(Loads) /\ Len(q) = (lr - w) + t
    <3>a. (lr - w) + t \in Nat
      BY <1>1
    <3>1. PICK k \in Nat : k = (lr - w) + t
      BY <3>a
    <3>2. q \in [1 .. k -> Loads]
      BY <1>8, <2>1, <3>1
    <3>3. q \in Seq(Loads) /\ Len(q) = k
      BY ONLY <3>2, k \in Nat
    <3> QED
      BY <3>1, <3>3
  <2>3. ASSUME NEW i \in 1 .. lr - w PROVE q[i] = K[R[w + i]]
    <3>1. i \in 1 .. (lr - w) + t /\ i <= lr - w
      BY <1>1
    <3> QED
      BY <1>3, <1>7, <2>1, <3>1
  <2>4. ASSUME NEW i \in 1 .. t PROVE q[lr - w + i] = K[B[F + i - 1]]
    <3>1. lr - w + i \in 1 .. (lr - w) + t /\ ~ (lr - w + i <= lr - w) /\ (lr - w + i) - (lr - w) = i
      BY <1>1
    <3>2. s[lr - w + i] = s2[i]
      BY <1>7, <3>1
    <3>3. q[lr - w + i] = K[s[lr - w + i]]
      BY <2>1, <3>1
    <3> QED
      BY <1>5, <3>2, <3>3
  <2>5. q = [i \in 1 .. Len(s) |-> K[s[i]]]
    BY <1>7, <2>1
  <2>6. Len(q) = lr - w + t
    BY <1>1, <2>2
  <2> QED
    BY <2>2, <2>3, <2>4, <2>5, <2>6 DEF IsLine
<1>10. IsGone([i \in 1 .. Len(g) |-> K[g[i]]], R, w, K)
  <2>1. 1 \in Int /\ w \in Int /\ \A i \in 1 .. w : R[i] \in Mbufs
    BY <1>1
  <2>2. /\ Len(SubSeq(R, 1, w)) = IF 1 <= w THEN w - 1 + 1 ELSE 0
        /\ \A i \in 1 .. w - 1 + 1 : SubSeq(R, 1, w)[i] = R[1 + i - 1]
    BY <2>1, SubSeqProperties
  <2>3. (IF 1 <= w THEN w - 1 + 1 ELSE 0) = w /\ w - 1 + 1 = w /\ \A i \in 1 .. w : 1 + i - 1 = i
    OBVIOUS
  <2>4. Len(g) = w /\ \A i \in 1 .. w : g[i] = R[i]
    BY <2>2, <2>3
  <2>5. PICK q : q = [i \in 1 .. w |-> K[g[i]]]
    OBVIOUS
  <2>6. q \in [1 .. w -> Loads] /\ \A i \in 1 .. w : q[i] = K[R[i]]
    BY <2>1, <2>4, <2>5
  <2>7. q \in Seq(Loads) /\ Len(q) = w
    BY <2>6
  <2> QED
    BY <2>4, <2>5, <2>6, <2>7 DEF IsGone
<1> QED
  BY <1>1, <1>9, <1>10 DEF LineSeq, GoneSeq

(* Dpdk::send as it changes the packets attached to mbufs. *)
Attaches(R, lr, w, B, t, K, K2, p) ==
  /\ lr \in Nat /\ w \in Nat /\ w <= lr /\ t \in Nat /\ Burst \in Nat /\ t < Burst
  /\ K \in [Mbufs -> Loads] /\ p \in Packets
  /\ \A i \in 1 .. lr : R[i] \in Mbufs
  /\ \A i \in 1 .. Burst : B[i] \in Mbufs
  /\ K2 = [K EXCEPT ![B[t + 1]] = p]

(* Dpdk::send adds a packet at the end of the line. *)
LEMMA LineSend ==
  ASSUME NEW R, NEW lr, NEW w, NEW Q, NEW lq, NEW B, NEW t, NEW P, NEW L, NEW K, NEW K2, NEW p, NEW s, NEW g,
         Attaches(R, lr, w, B, t, K, K2, p), Apart(R, lr, Q, lq, B, 1, P, L),
         IsLine(s, R, lr, w, B, 1, t, K), IsGone(g, R, w, K)
  PROVE  IsLine(Append(s, p), R, lr, w, B, 1, t + 1, K2) /\ IsGone(g, R, w, K2)
<1>0. /\ lr \in Nat /\ w \in Nat /\ w <= lr /\ t \in Nat /\ Burst \in Nat /\ t < Burst
      /\ K \in [Mbufs -> Loads] /\ p \in Packets
      /\ \A i \in 1 .. lr : R[i] \in Mbufs
      /\ \A i \in 1 .. Burst : B[i] \in Mbufs
      /\ K2 = [K EXCEPT ![B[t + 1]] = p]
  BY DEF Attaches
<1> USE <1>0
<1>1. t + 1 \in 1 .. Burst /\ B[t + 1] \in Mbufs
  OBVIOUS
<1>2. K2[B[t + 1]] = p /\ \A m \in Mbufs : m # B[t + 1] => K2[m] = K[m]
  BY <1>1
<1>3. ASSUME NEW i \in 1 .. lr PROVE K2[R[i]] = K[R[i]]
  <2>1. Holds(R, 1, lr, R[i]) /\ Holds(B, 1, Burst, B[t + 1]) /\ R[i] \in Mbufs
    BY <1>1 DEF Holds
  <2>2. R[i] # B[t + 1]
    BY <1>1, <2>1 DEF Apart
  <2> QED
    BY <1>2, <2>1, <2>2
<1>4. ASSUME NEW i \in 1 .. t PROVE K2[B[1 + i - 1]] = K[B[1 + i - 1]]
  <2>1. 1 + i - 1 \in 1 .. Burst /\ 1 + i - 1 # t + 1
    OBVIOUS
  <2>2. B[1 + i - 1] # B[t + 1]
    BY <1>1, <2>1 DEF Apart, Once
  <2> QED
    BY <1>2, <2>1, <2>2
<1>5. PICK q : q = Append(s, p)
  OBVIOUS
<1>6. s \in Seq(Loads) /\ Len(s) = lr - w + t /\ p \in Loads
  BY DEF IsLine, Loads
<1>7. q \in Seq(Loads) /\ Len(q) = (lr - w + t) + 1 /\ q[(lr - w + t) + 1] = p
      /\ \A i \in 1 .. lr - w + t : q[i] = s[i]
  <2>1. q \in Seq(Loads) /\ Len(q) = Len(s) + 1 /\ q[Len(s) + 1] = p
        /\ \A i \in 1 .. Len(s) : q[i] = s[i]
    BY ONLY <1>5, <1>6, AppendProperties
  <2> QED
    BY <1>6, <2>1
<1>8. ASSUME NEW i \in 1 .. lr - w PROVE q[i] = K2[R[w + i]]
  <2>1. i \in 1 .. lr - w + t /\ w + i \in 1 .. lr
    OBVIOUS
  <2>2. s[i] = K[R[w + i]]
    BY DEF IsLine
  <2> QED
    BY <1>3, <1>7, <2>1, <2>2
<1>9. ASSUME NEW i \in 1 .. t + 1 PROVE q[lr - w + i] = K2[B[1 + i - 1]]
  <2>1. CASE i \in 1 .. t
    <3>1. lr - w + i \in 1 .. lr - w + t
      BY <2>1
    <3>2. s[lr - w + i] = K[B[1 + i - 1]]
      BY <2>1 DEF IsLine
    <3> QED
      BY <1>4, <1>7, <2>1, <3>1, <3>2
  <2>2. CASE i = t + 1
    <3>1. lr - w + i = (lr - w + t) + 1 /\ 1 + i - 1 = t + 1
      BY <2>2
    <3> QED
      BY <1>2, <1>7, <3>1
  <2> QED
    BY <2>1, <2>2
<1>10. Len(q) = lr - w + (t + 1)
  BY <1>7
<1>11. IsGone(g, R, w, K2)
  <2>1. \A i \in 1 .. w : i \in 1 .. lr
    OBVIOUS
  <2> QED
    BY <1>3, <2>1 DEF IsGone
<1> QED
  BY <1>5, <1>7, <1>8, <1>9, <1>10, <1>11 DEF IsLine

(* A round of flush leaves the line as it is, and gives back the r oldest  *)
(* packets that have left.                                                 *)
LEMMA LineDrain ==
  ASSUME NEW R, NEW lr, NEW R2, NEW lr2, NEW Q, NEW lq, NEW B, NEW F, NEW F2, NEW P, NEW P2, NEW L,
         NEW r, NEW nb, NEW t, NEW t2, NEW K, NEW K2, NEW w \in Nat, NEW w2, NEW s, NEW g,
         Drained(R, lr, R2, lr2, B, F, F2, P, P2, r, nb), Apart(R, lr, Q, lq, B, F, P, L),
         Unloaded(R, r, nb, F, t, t2, K, K2), w <= lr, r <= w, w2 = w - r,
         IsLine(s, R, lr, w, B, F, t, K), IsGone(g, R, w, K)
  PROVE  IsLine(s, R2, lr2, w2, B, F2, t2, K2) /\ IsGone(SubSeq(g, r + 1, Len(g)), R2, w2, K2)
<1>0. /\ lr \in Nat /\ F \in Nat \ {0} /\ r \in Nat /\ nb \in Nat /\ Burst \in Nat
      /\ r <= lr /\ F + nb <= Burst + 1
      /\ \A i \in 1 .. lr : R[i] \in Mbufs
      /\ \A i \in 1 .. Burst : B[i] \in Mbufs
      /\ \A i \in 1 .. lr - r : R2[i] = R[i + r]
      /\ \A i \in 1 .. nb : R2[lr - r + i] = B[F + i - 1]
      /\ lr2 = lr - r + nb /\ F2 = F + nb
      /\ t \in Nat /\ nb <= t /\ F + t <= Burst + 1 /\ t2 = t - nb
      /\ \A m \in Mbufs : K2[m] = K[m] \/ Holds(R, 1, r, m)
  BY DEF Drained, Unloaded, Holds
<1> USE <1>0
<1>1. ASSUME NEW i \in r + 1 .. lr PROVE K2[R[i]] = K[R[i]]
  <2>1. i \in 1 .. lr /\ \A j \in 1 .. r : j \in 1 .. lr /\ j # i
    OBVIOUS
  <2>2. ~ Holds(R, 1, r, R[i])
    BY <2>1 DEF Apart, Once, Holds
  <2> QED
    BY <2>1, <2>2
<1>2. ASSUME NEW i \in F .. Burst PROVE K2[B[i]] = K[B[i]]
  <2>1. B[i] \in Mbufs /\ Holds(B, F, Burst, B[i])
    BY DEF Holds
  <2>2. ~ Holds(R, 1, lr, B[i])
    BY <2>1 DEF Apart
  <2>3. ~ Holds(R, 1, r, B[i])
    <3>1. \A j \in 1 .. r : j \in 1 .. lr
      OBVIOUS
    <3> QED
      BY <2>2, <3>1 DEF Holds
  <2> QED
    BY <2>1, <2>3
<1>3. lr2 - w2 = (lr - w) + nb
  OBVIOUS
<1>4. ASSUME NEW i \in 1 .. (lr - w) + nb PROVE s[i] = K2[R2[w2 + i]]
  <2>1. CASE i <= lr - w
    <3>1. i \in 1 .. lr - w /\ w2 + i \in 1 .. lr - r /\ (w2 + i) + r = w + i /\ w + i \in r + 1 .. lr
      BY <2>1
    <3>2. s[i] = K[R[w + i]]
      BY <3>1 DEF IsLine
    <3>3. R2[w2 + i] = R[w + i]
      BY <3>1
    <3> QED
      BY <1>1, <3>1, <3>2, <3>3
  <2>2. CASE i > lr - w
    <3>1. PICK j \in 1 .. nb : i = (lr - w) + j
      <4>1. i - (lr - w) \in 1 .. nb /\ i = (lr - w) + (i - (lr - w))
        BY <2>2
      <4> QED
        BY <4>1
    <3>2. j \in 1 .. t /\ w2 + i = lr - r + j /\ F + j - 1 \in F .. Burst
      BY <3>1
    <3>3. s[lr - w + j] = K[B[F + j - 1]]
      BY <3>2 DEF IsLine
    <3>4. R2[lr - r + j] = B[F + j - 1]
      OBVIOUS
    <3> QED
      BY <1>2, <3>1, <3>2, <3>3, <3>4
  <2> QED
    BY <2>1, <2>2
<1>5. ASSUME NEW i \in 1 .. t2 PROVE s[(lr - w) + nb + i] = K2[B[F2 + i - 1]]
  <2>1. nb + i \in 1 .. t /\ lr - w + (nb + i) = (lr - w) + nb + i /\ F + (nb + i) - 1 = F2 + i - 1
        /\ F2 + i - 1 \in F .. Burst
    OBVIOUS
  <2>2. s[lr - w + (nb + i)] = K[B[F + (nb + i) - 1]]
    BY <2>1 DEF IsLine
  <2> QED
    BY <1>2, <2>1, <2>2
<1>6. s \in Seq(Loads) /\ Len(s) = lr2 - w2 + t2
  BY DEF IsLine
<1>7. IsLine(s, R2, lr2, w2, B, F2, t2, K2)
  BY <1>3, <1>4, <1>5, <1>6 DEF IsLine
<1>8. g \in Seq(Loads) /\ Len(g) = w /\ \A i \in 1 .. w : g[i] = K[R[i]] /\ g[i] \in Loads
  BY ElementOfSeq DEF IsGone
<1>9. PICK h : h = SubSeq(g, r + 1, w)
  OBVIOUS
<1>10. h \in Seq(Loads) /\ Len(h) = w2 /\ \A i \in 1 .. w2 : h[i] = g[r + i]
  <2>1. r + 1 \in Int /\ w \in Int /\ \A i \in r + 1 .. w : g[i] \in Loads
    BY <1>8
  <2>2. /\ SubSeq(g, r + 1, w) \in Seq(Loads)
        /\ Len(SubSeq(g, r + 1, w)) = IF r + 1 <= w THEN w - (r + 1) + 1 ELSE 0
        /\ \A i \in 1 .. w - (r + 1) + 1 : SubSeq(g, r + 1, w)[i] = g[(r + 1) + i - 1]
    BY <2>1, SubSeqProperties
  <2>3. (IF r + 1 <= w THEN w - (r + 1) + 1 ELSE 0) = w2 /\ w - (r + 1) + 1 = w2
        /\ \A i \in 1 .. w2 : (r + 1) + i - 1 = r + i
    OBVIOUS
  <2> QED
    BY <1>9, <2>2, <2>3
<1>11. ASSUME NEW i \in 1 .. w2 PROVE h[i] = K2[R2[i]]
  <2>1. r + i \in 1 .. w /\ i \in 1 .. lr - r /\ i + r = r + i /\ r + i \in r + 1 .. lr
    OBVIOUS
  <2>2. R2[i] = R[r + i]
    BY <2>1
  <2>3. h[i] = K[R[r + i]]
    BY <1>8, <1>10, <2>1
  <2>4. K2[R[r + i]] = K[R[r + i]]
    BY <1>1, <2>1
  <2> QED
    BY <2>2, <2>3, <2>4
<1>12. IsGone(h, R2, w2, K2)
  BY <1>10, <1>11 DEF IsGone
<1> QED
  BY <1>7, <1>8, <1>9, <1>12

(* The port puts the oldest packet of the line on the wire. *)
LEMMA LineTransmit ==
  ASSUME NEW R, NEW lr \in Nat, NEW w \in Nat, w < lr, NEW B, NEW F, NEW t \in Nat, NEW K,
         NEW s, NEW g, IsLine(s, R, lr, w, B, F, t, K), IsGone(g, R, w, K)
  PROVE  /\ s # <<>>
         /\ IsLine(Tail(s), R, lr, w + 1, B, F, t, K)
         /\ IsGone(Append(g, Head(s)), R, w + 1, K)
<1>1. s \in Seq(Loads) /\ Len(s) = lr - w + t /\ Len(s) >= 1
  BY DEF IsLine
<1>2. s # <<>>
  BY <1>1, EmptySeq
<1>3. Tail(s) \in Seq(Loads) /\ Len(Tail(s)) = lr - (w + 1) + t
      /\ \A i \in 1 .. Len(Tail(s)) : Tail(s)[i] = s[i + 1]
  <2>1. /\ Tail(s) \in Seq(Loads) /\ Len(Tail(s)) = Len(s) - 1
        /\ \A i \in 1 .. Len(Tail(s)) : Tail(s)[i] = s[i + 1]
    BY <1>1, <1>2, HeadTailProperties
  <2> QED
    BY <1>1, <2>1
<1>4. ASSUME NEW i \in 1 .. lr - (w + 1) PROVE Tail(s)[i] = K[R[(w + 1) + i]]
  <2>1. i \in 1 .. Len(Tail(s)) /\ i + 1 \in 1 .. lr - w /\ w + (i + 1) = (w + 1) + i
    BY <1>3
  <2>2. s[i + 1] = K[R[w + (i + 1)]]
    BY <2>1 DEF IsLine
  <2> QED
    BY <1>3, <2>1, <2>2
<1>5. ASSUME NEW i \in 1 .. t PROVE Tail(s)[lr - (w + 1) + i] = K[B[F + i - 1]]
  <2>1. lr - (w + 1) + i \in 1 .. Len(Tail(s)) /\ (lr - (w + 1) + i) + 1 = lr - w + i
    BY <1>3
  <2>2. s[lr - w + i] = K[B[F + i - 1]]
    BY DEF IsLine
  <2> QED
    BY <1>3, <2>1, <2>2
<1>6. Head(s) = K[R[w + 1]] /\ Head(s) \in Loads
  <2>1. Head(s) = s[1] /\ Head(s) \in Loads
    BY <1>1, <1>2, HeadTailProperties
  <2>2. s[1] = K[R[w + 1]]
    BY DEF IsLine
  <2> QED
    BY <2>1, <2>2
<1>7. PICK h : h = Append(g, Head(s))
  OBVIOUS
<1>8. g \in Seq(Loads) /\ Len(g) = w /\ \A i \in 1 .. w : g[i] = K[R[i]]
  BY DEF IsGone
<1>9. h \in Seq(Loads) /\ Len(h) = w + 1 /\ h[w + 1] = Head(s) /\ \A i \in 1 .. w : h[i] = g[i]
  BY <1>6, <1>7, <1>8, AppendProperties
<1>10. \A i \in 1 .. w + 1 : i \in 1 .. w \/ i = w + 1
  OBVIOUS
<1>11. \A i \in 1 .. w + 1 : h[i] = K[R[i]]
  BY <1>6, <1>8, <1>9, <1>10
<1>12. IsGone(h, R, w + 1, K)
  BY <1>9, <1>11 DEF IsGone
<1> QED
  BY <1>2, <1>3, <1>4, <1>5, <1>7, <1>12 DEF IsLine

(* With nothing buffered, the slots of the buffer do not matter. *)
LEMMA LineRefill ==
  ASSUME NEW R, NEW lr, NEW w, NEW B, NEW B2, NEW F, NEW K, NEW s, IsLine(s, R, lr, w, B, F, 0, K)
  PROVE  IsLine(s, R, lr, w, B2, 1, 0, K)
BY DEF IsLine

(* The line and the packets that have left, adapter by adapter. *)
LineOf(n, s) == IsLine(s, ring[n], Len(ring[n]), wired[n], txBufs[n], First(n), txIdx[n], pkt[n])
GoneOf(n, g) == IsGone(g, ring[n], wired[n], pkt[n])

(* fifo and flight are the lines and the packets that have left ...        *)
LEMMA MapsTo ==
  ASSUME TypeOK, CtlInv
  PROVE  /\ fifo = [n \in Nics |-> fifo[n]] /\ flight = [n \in Nics |-> flight[n]]
         /\ \A n \in Nics : LineOf(n, fifo[n]) /\ GoneOf(n, flight[n])
<1>1. fifo = [n \in Nics |-> fifo[n]] /\ flight = [n \in Nics |-> flight[n]]
  BY DEF fifo, flight
<1>2. ASSUME NEW n \in Nics PROVE LineOf(n, fifo[n]) /\ GoneOf(n, flight[n])
  <2>1. PICK R, w, B, F, t, K : R = ring[n] /\ w = wired[n] /\ B = txBufs[n] /\ F = First(n)
                                /\ t = txIdx[n] /\ K = pkt[n]
    OBVIOUS
  <2>2. R \in Seq(Mbufs) /\ w \in Nat /\ w <= Len(R) /\ B \in [1 .. Burst -> Mbufs] /\ Burst \in Nat
        /\ F \in Nat \ {0} /\ t \in Nat /\ F + t <= Burst + 1 /\ K \in [Mbufs -> Loads]
    BY <2>1, AdapterType DEF Loads
  <2>3. LineTypes(R, w, B, F, t, K)
    BY <2>2 DEF LineTypes
  <2>4. fifo[n] = LineSeq(R, w, B, F, t, K) /\ flight[n] = GoneSeq(R, w, K)
    BY <2>1 DEF fifo, flight, PacketsOf, Buffered, LineSeq, GoneSeq
  <2> QED
    BY <2>1, <2>3, <2>4, Mapping DEF LineOf, GoneOf
<1> QED
  BY <1>1, <1>2

(* ... before a step and after it. *)
LEMMA MapsToNext ==
  ASSUME TypeOK', CtlInv'
  PROVE  /\ fifo' = [n \in Nics |-> fifo'[n]] /\ flight' = [n \in Nics |-> flight'[n]]
         /\ \A n \in Nics : LineOf(n, fifo[n])' /\ GoneOf(n, flight[n])'
<1>1. fifo' = [n \in Nics |-> fifo'[n]] /\ flight' = [n \in Nics |-> flight'[n]]
  BY DEF fifo, flight
<1>2. ASSUME NEW n \in Nics PROVE LineOf(n, fifo[n])' /\ GoneOf(n, flight[n])'
  <2>1. PICK R, w, B, F, t, K : R = ring'[n] /\ w = wired'[n] /\ B = txBufs'[n] /\ F = First(n)'
                                /\ t = txIdx'[n] /\ K = pkt'[n]
    OBVIOUS
  <2>2. R \in Seq(Mbufs) /\ w \in Nat /\ w <= Len(R) /\ B \in [1 .. Burst -> Mbufs] /\ Burst \in Nat
        /\ t \in 0 .. Burst /\ K \in [Mbufs -> Loads] /\ off' \in 0 .. Burst
    BY <2>1, IoAssumption DEF TypeOK, Loads
  <2>3. F \in Nat \ {0} /\ t \in Nat /\ F + t <= Burst + 1
    <3>1. CASE Flushing(n)'
      <4>1. F = off' + 1 /\ off' + t <= Burst
        BY <2>1, <3>1 DEF First, Flushing, CtlInv
      <4>2. PICK o : o = off' /\ o \in 0 .. Burst
        BY <2>2
      <4>3. F = o + 1 /\ o + t <= Burst
        BY <4>1, <4>2
      <4>4. Burst \in Nat /\ t \in 0 .. Burst
        BY <2>2
      <4>5. o \in Nat /\ t \in Nat
        BY <4>2, <4>4
      <4>6. F \in Nat /\ F # 0
        BY <4>3, <4>5
      <4>7. F + t <= Burst + 1
        BY <4>3, <4>4, <4>5
      <4> QED
        BY <4>5, <4>6, <4>7
    <3>2. CASE ~ Flushing(n)'
      <4>1. F = 1
        BY <2>1, <3>2 DEF First
      <4> QED
        BY <2>2, <4>1
    <3> QED
      BY <3>1, <3>2
  <2>4. LineTypes(R, w, B, F, t, K)
    BY <2>2, <2>3 DEF LineTypes
  <2>5. fifo'[n] = LineSeq(R, w, B, F, t, K) /\ flight'[n] = GoneSeq(R, w, K)
    BY <2>1 DEF fifo, flight, PacketsOf, Buffered, LineSeq, GoneSeq
  <2> QED
    BY <2>1, <2>4, <2>5, Mapping DEF LineOf, GoneOf
<1> QED
  BY <1>1, <1>2

(* What one adapter does to its line, seen from outside. *)
LineSteps(n) ==
  \/ fifo'[n] = fifo[n] /\ flight'[n] = flight[n]
  \/ \E p \in Packets : fifo'[n] = Append(fifo[n], p) /\ flight'[n] = flight[n]
  \/ fifo[n] # <<>> /\ fifo'[n] = Tail(fifo[n]) /\ flight'[n] = Append(flight[n], Head(fifo[n]))
  \/ \E k \in 1 .. Len(flight[n]) :
       fifo'[n] = fifo[n] /\ flight'[n] = SubSeq(flight[n], k + 1, Len(flight[n]))

(* The line after a step is what the step says it is. *)
LEMMA LineIs ==
  ASSUME IInv, IInv', NEW n \in Nics, NEW s, NEW g, LineOf(n, s)', GoneOf(n, g)'
  PROVE  fifo'[n] = s /\ flight'[n] = g
<1>1. PICK s2, g2 : s2 = fifo'[n] /\ g2 = flight'[n]
  OBVIOUS
<1>2. LineOf(n, s2)' /\ GoneOf(n, g2)'
  BY <1>1, MapsToNext DEF IInv, LineOf, GoneOf
<1>3. ring'[n] \in Seq(Mbufs) /\ Len(ring'[n]) \in Nat /\ wired'[n] \in Nat /\ txIdx'[n] \in Nat
      /\ wired'[n] <= Len(ring'[n])
  <2>1. ring'[n] \in Seq(Mbufs) /\ wired'[n] \in Nat /\ txIdx'[n] \in 0 .. Burst
        /\ wired'[n] <= Len(ring'[n]) /\ Burst \in Nat
    BY IoAssumption DEF IInv, TypeOK
  <2> QED
    BY <2>1, LenProperties
<1>4. s2 = s
  BY <1>2, <1>3, LineUnique DEF LineOf
<1>5. g2 = g
  BY <1>2, GoneUnique DEF GoneOf
<1> QED
  BY <1>1, <1>4, <1>5

(* An adapter that a step leaves alone keeps its line. *)
LEMMA SameLine ==
  ASSUME IInv, IInv', NEW n \in Nics, SameTx(n), wired'[n] = wired[n]
  PROVE  fifo'[n] = fifo[n] /\ flight'[n] = flight[n]
<1>1. PICK s, g : s = fifo[n] /\ g = flight[n]
  OBVIOUS
<1>2. LineOf(n, s) /\ GoneOf(n, g)
  BY <1>1, MapsTo DEF IInv
<1>3. LineOf(n, s)' /\ GoneOf(n, g)'
  BY <1>2 DEF LineOf, GoneOf, SameTx
<1> QED
  BY <1>1, <1>3, LineIs

(* What a change of an adapter does to its line. *)
LEMMA ChangedLine ==
  ASSUME IInv, IInv', NEW n \in Nics, Changes(n)
  PROVE  LineSteps(n)
<1>1. PICK s, g : s = fifo[n] /\ g = flight[n]
  OBVIOUS
<1>2. LineOf(n, s) /\ GoneOf(n, g) /\ TypeOK /\ CtlInv /\ Len(g) = wired[n]
  BY <1>1, MapsTo DEF IInv, GoneOf, IsGone
<1>0. /\ txBufs[n] \in [1 .. Burst -> Mbufs] /\ txIdx[n] \in 0 .. Burst /\ Burst \in Nat
      /\ Len(ring[n]) \in Nat /\ \A i \in 1 .. Len(ring[n]) : ring[n][i] \in Mbufs
      /\ wired[n] \in Nat /\ wired[n] <= Len(ring[n])
      /\ pkt[n] \in [Mbufs -> Loads]
      /\ First(n) \in 1 .. Burst + 1 /\ First(n) + txIdx[n] <= Burst + 1
  BY <1>2, AdapterType DEF Loads
<1>a. \A i \in 1 .. Burst : txBufs[n][i] \in Mbufs
  BY <1>0
<1>3. ASSUME NEW p \in Packets, Buffers(n, p)
      PROVE  LineSteps(n)
  <2>1. Owns(n) /\ First(n) = 1
    BY <1>3 DEF IInv, OwnInv, Buffers
  <2>2. /\ Apart(ring[n], Len(ring[n]), rxq[n], Len(rxq[n]), txBufs[n], 1, mpool[n], lent[n])
        /\ IsLine(s, ring[n], Len(ring[n]), wired[n], txBufs[n], 1, txIdx[n], pkt[n])
        /\ IsGone(g, ring[n], wired[n], pkt[n])
    BY <1>2, <2>1 DEF Owns, LineOf, GoneOf
  <2>3. pkt'[n] = [pkt[n] EXCEPT ![txBufs[n][txIdx[n] + 1]] = p] /\ txIdx[n] < Burst /\ txIdx[n] \in Nat
    BY <1>0, <1>3 DEF Buffers
  <2>4. /\ IsLine(Append(s, p), ring[n], Len(ring[n]), wired[n], txBufs[n], 1, txIdx[n] + 1, pkt'[n])
        /\ IsGone(g, ring[n], wired[n], pkt'[n])
    <3>1. Attaches(ring[n], Len(ring[n]), wired[n], txBufs[n], txIdx[n], pkt[n], pkt'[n], p)
      BY <1>0, <1>a, <2>3 DEF Attaches
    <3> QED
      BY <2>2, <3>1, LineSend
  <2>5. PICK q : q = Append(s, p)
    OBVIOUS
  <2>6. LineOf(n, q)' /\ GoneOf(n, g)'
    BY <1>3, <2>4, <2>5 DEF Buffers, LineOf, GoneOf
  <2>7. fifo'[n] = q /\ flight'[n] = g
    BY <2>6, LineIs
  <2> QED
    BY <1>1, <2>5, <2>7 DEF LineSteps
<1>4. ASSUME NEW r \in Nat, NEW nb \in Nat, Drains(n, r, nb)
      PROVE  LineSteps(n)
  <2>0. Apart(ring[n], Len(ring[n]), rxq[n], Len(rxq[n]), txBufs[n], First(n), mpool[n], lent[n])
    BY <1>4 DEF Drains, IInv, OwnInv, Owns
  <2>1. r <= wired[n] /\ wired'[n] = wired[n] - r /\ txBufs'[n] = txBufs[n]
    BY <1>0, <1>4 DEF Drains
  <2>2. /\ Drained(ring[n], Len(ring[n]), ring'[n], Len(ring'[n]), txBufs[n], First(n), First(n)',
                   mpool[n], mpool'[n], r, nb)
        /\ Unloaded(ring[n], r, nb, First(n), txIdx[n], txIdx'[n], pkt[n], pkt'[n])
    BY <1>2, <1>4, DrainFacts
  <2>6. /\ IsLine(s, ring[n], Len(ring[n]), wired[n], txBufs[n], First(n), txIdx[n], pkt[n])
        /\ IsGone(g, ring[n], wired[n], pkt[n])
    BY <1>2 DEF LineOf, GoneOf
  <2>7. /\ IsLine(s, ring'[n], Len(ring'[n]), wired'[n], txBufs[n], First(n)', txIdx'[n], pkt'[n])
        /\ IsGone(SubSeq(g, r + 1, Len(g)), ring'[n], wired'[n], pkt'[n])
    BY <1>0, <2>0, <2>1, <2>2, <2>6, LineDrain
  <2>8. PICK h : h = SubSeq(g, r + 1, Len(g))
    OBVIOUS
  <2>9. LineOf(n, s)' /\ GoneOf(n, h)'
    BY <2>1, <2>7, <2>8 DEF LineOf, GoneOf
  <2>10. fifo'[n] = s /\ flight'[n] = h
    BY <2>9, LineIs
  <2>11. CASE r = 0
    <3>1. g \in Seq(Loads)
      BY <2>6 DEF IsGone
    <3>2. SubSeq(g, 1, Len(g)) = g
      BY <3>1, SubSeqFull
    <3> QED
      BY <1>1, <2>8, <2>10, <2>11, <3>2 DEF LineSteps
  <2>12. CASE r # 0
    <3>1. r \in 1 .. Len(g)
      BY <1>0, <1>2, <2>1, <2>12
    <3> QED
      BY <1>1, <2>8, <2>10, <3>1 DEF LineSteps
  <2> QED
    BY <2>11, <2>12
<1>5. ASSUME (\E ms \in [1 .. First(n) - 1 -> Mbufs] : Refills(n, ms)) \/ GivesUp(n)
      PROVE  LineSteps(n)
  <2>1. txIdx[n] = 0 /\ txIdx'[n] = 0 /\ First(n)' = 1 /\ ring'[n] = ring[n] /\ pkt'[n] = pkt[n]
        /\ wired'[n] = wired[n]
    BY <1>5 DEF Refills, GivesUp
  <2>2. IsLine(s, ring[n], Len(ring[n]), wired[n], txBufs[n], First(n), 0, pkt[n])
    BY <1>2, <2>1 DEF LineOf
  <2>3. IsLine(s, ring[n], Len(ring[n]), wired[n], txBufs'[n], 1, 0, pkt[n])
    BY <2>2, LineRefill
  <2>4. LineOf(n, s)' /\ GoneOf(n, g)'
    BY <1>2, <2>1, <2>3 DEF LineOf, GoneOf
  <2>5. fifo'[n] = s /\ flight'[n] = g
    BY <2>4, LineIs
  <2> QED
    BY <1>1, <2>5 DEF LineSteps
<1>6. ASSUME Transmits(n)
      PROVE  LineSteps(n)
  <2>1. wired[n] < Len(ring[n]) /\ wired'[n] = wired[n] + 1 /\ txIdx[n] \in Nat
    BY <1>0, <1>6 DEF Transmits
  <2>2. /\ s # <<>>
        /\ IsLine(Tail(s), ring[n], Len(ring[n]), wired[n] + 1, txBufs[n], First(n), txIdx[n], pkt[n])
        /\ IsGone(Append(g, Head(s)), ring[n], wired[n] + 1, pkt[n])
    BY <1>0, <1>2, <2>1, LineTransmit DEF LineOf, GoneOf
  <2>3. PICK q, h : q = Tail(s) /\ h = Append(g, Head(s))
    OBVIOUS
  <2>4. LineOf(n, q)' /\ GoneOf(n, h)'
    BY <1>6, <2>1, <2>2, <2>3 DEF LineOf, GoneOf, Transmits, SameTx
  <2>5. fifo'[n] = q /\ flight'[n] = h
    BY <2>4, LineIs
  <2> QED
    BY <1>1, <2>2, <2>3, <2>5 DEF LineSteps
<1>7. ASSUME (\E k \in Nat : Receives(n, k)) \/ (\E m \in Mbufs : Arrives(n, m) \/ GetsBack(n, m))
      PROVE  LineSteps(n)
  <2>1. SameTx(n) /\ wired'[n] = wired[n]
    BY <1>7 DEF Receives, Arrives, GetsBack
  <2> QED
    BY <2>1, SameLine DEF LineSteps
<1> QED
  BY <1>3, <1>4, <1>5, <1>6, <1>7 DEF Changes

(* The transmit side of the adapters implements a FIFO per interface that  *)
(* loses, duplicates and reorders nothing, partial bursts, refills and     *)
(* failures included.                                                      *)
THEOREM AdaptersImplementFifo == Spec => FifoSpec
<1>1. ASSUME Init PROVE Fifo!Init
  <2>1. IInv
    BY <1>1, InitIInv
  <2>2. ASSUME NEW n \in Nics PROVE fifo[n] = <<>> /\ flight[n] = <<>>
    <3>1. ring[n] = <<>> /\ wired[n] = 0 /\ txIdx[n] = 0
      BY <1>1 DEF Init
    <3>2. LineOf(n, fifo[n]) /\ GoneOf(n, flight[n])
      BY <2>1, MapsTo DEF IInv
    <3>3. fifo[n] \in Seq(Loads) /\ flight[n] \in Seq(Loads) /\ Len(fifo[n]) = 0 /\ Len(flight[n]) = 0
      <4>1. Len(<<>>) - 0 + 0 = 0
        OBVIOUS
      <4> QED
        BY <3>1, <3>2, <4>1 DEF LineOf, GoneOf, IsLine, IsGone
    <3> QED
      BY <3>3, EmptySeq
  <2>3. fifo = [n \in Nics |-> fifo[n]] /\ flight = [n \in Nics |-> flight[n]]
    BY <2>1, MapsTo DEF IInv
  <2> QED
    BY <2>2, <2>3 DEF Fifo!Init
<1>2. ASSUME IInv, IInv', [Next]_vars PROVE [Fifo!Next]_(Fifo!vars)
  <2>1. fifo = [n \in Nics |-> fifo[n]] /\ flight = [n \in Nics |-> flight[n]]
    BY <1>2, MapsTo DEF IInv
  <2>2. fifo' = [n \in Nics |-> fifo'[n]] /\ flight' = [n \in Nics |-> flight'[n]]
    BY <1>2, MapsToNext DEF IInv
  <2>3. OneChange
    BY <1>2, Locality DEF IInv
  <2>4. \A n \in Nics : Same(n) => fifo'[n] = fifo[n] /\ flight'[n] = flight[n]
    BY <1>2, SameLine DEF Same
  <2>5. CASE \A n \in Nics : Same(n)
    <3>1. fifo' = fifo /\ flight' = flight
      BY <2>1, <2>2, <2>4, <2>5
    <3> QED
      BY <3>1 DEF Fifo!vars
  <2>6. ASSUME NEW n \in Nics, Changes(n), \A m \in Nics : m # n => Same(m)
        PROVE  [Fifo!Next]_(Fifo!vars)
    <3>1. PICK f, f2, g, g2 : f = fifo /\ f2 = fifo' /\ g = flight /\ g2 = flight'
      OBVIOUS
    <3>2. /\ f = [m \in Nics |-> f[m]] /\ f2 = [m \in Nics |-> f2[m]]
          /\ g = [m \in Nics |-> g[m]] /\ g2 = [m \in Nics |-> g2[m]]
      BY <2>1, <2>2, <3>1
    <3>3. \A m \in Nics : m # n => f2[m] = f[m] /\ g2[m] = g[m]
      BY <2>4, <2>6, <3>1
    <3>4. \/ f2[n] = f[n] /\ g2[n] = g[n]
          \/ \E p \in Packets : f2[n] = Append(f[n], p) /\ g2[n] = g[n]
          \/ f[n] # <<>> /\ f2[n] = Tail(f[n]) /\ g2[n] = Append(g[n], Head(f[n]))
          \/ \E k \in 1 .. Len(g[n]) : f2[n] = f[n] /\ g2[n] = SubSeq(g[n], k + 1, Len(g[n]))
      BY <1>2, <2>6, <3>1, ChangedLine DEF LineSteps
    <3>5. \/ f2 = f /\ g2 = g
          \/ \E p \in Packets : f2 = [f EXCEPT ![n] = Append(@, p)] /\ g2 = g
          \/ /\ f[n] # <<>> /\ f2 = [f EXCEPT ![n] = Tail(@)]
             /\ g2 = [g EXCEPT ![n] = Append(@, Head(f[n]))]
          \/ \E k \in 1 .. Len(g[n]) : g2 = [g EXCEPT ![n] = SubSeq(@, k + 1, Len(@))] /\ f2 = f
      <4>1. CASE f2[n] = f[n] /\ g2[n] = g[n]
        BY <3>2, <3>3, <4>1
      <4>2. ASSUME NEW p \in Packets, f2[n] = Append(f[n], p), g2[n] = g[n]
            PROVE  f2 = [f EXCEPT ![n] = Append(@, p)] /\ g2 = g
        BY <3>2, <3>3, <4>2
      <4>3. CASE f[n] # <<>> /\ f2[n] = Tail(f[n]) /\ g2[n] = Append(g[n], Head(f[n]))
        <5>1. f2 = [f EXCEPT ![n] = Tail(@)] /\ g2 = [g EXCEPT ![n] = Append(@, Head(f[n]))]
          BY <3>2, <3>3, <4>3
        <5> QED
          BY <4>3, <5>1
      <4>4. ASSUME NEW k \in 1 .. Len(g[n]), f2[n] = f[n], g2[n] = SubSeq(g[n], k + 1, Len(g[n]))
            PROVE  g2 = [g EXCEPT ![n] = SubSeq(@, k + 1, Len(@))] /\ f2 = f
        BY <3>2, <3>3, <4>4
      <4> QED
        BY <3>4, <4>1, <4>2, <4>3, <4>4
    <3> QED
      BY <3>1, <3>5 DEF Fifo!Next, Fifo!Send, Fifo!Transmit, Fifo!Release, Fifo!vars
  <2> QED
    BY <2>3, <2>5, <2>6 DEF OneChange
<1> QED
  BY <1>1, <1>2, Invariance, PTL DEF Spec, FifoSpec, Fifo!Spec
=============================================================================
