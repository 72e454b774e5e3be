------------------------------- MODULE TxFifo -------------------------------
(***************************************************************************)
(* What the transmit side of an adapter promises the node that uses it:    *)
(* the packets handed to a network interface leave it in the order they    *)
(* were handed over, each of them once, and a packet is given back to its  *)
(* pool only after its frame has left.                                     *)
(***************************************************************************)
EXTENDS Naturals, Sequences

CONSTANTS Nics, Packets

VARIABLES
  fifo,     \* fifo[n]: packets handed to interface n and not yet on the wire
  flight    \* flight[n]: packets whose frame has left, not yet given back

vars == <<fifo, flight>>

Init ==
  /\ fifo = [n \in Nics |-> <<>>]
  /\ flight = [n \in Nics |-> <<>>]

Send(n, p) ==
  /\ fifo' = [fifo EXCEPT ![n] = Append(@, p)]
  /\ UNCHANGED flight

Transmit(n) ==
  /\ fifo[n] # <<>>
  /\ fifo' = [fifo EXCEPT ![n] = Tail(@)]
  /\ flight' = [flight EXCEPT ![n] = Append(@, Head(fifo[n]))]

(* The k oldest packets are given back. *)
Release(n, k) ==
  /\ flight' = [flight EXCEPT ![n] = SubSeq(@, k + 1, Len(@))]
  /\ UNCHANGED fifo

Next ==
  \E n \in Nics :
    \/ \E p \in Packets : Send(n, p)
    \/ Transmit(n)
    \/ \E k \in 1 .. Len(flight[n]) : Release(n, k)

Spec == Init /\ [][Next]_vars
=============================================================================
