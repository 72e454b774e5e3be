----------------------------- MODULE MCStartup -----------------------------
(***************************************************************************)
(* Three workers of one graph entry, two of them configured for the same   *)
(* lcore, or two workers and two interfaces.                               *)
(***************************************************************************)
EXTENDS Startup

SharedCpu == <<1, 2, 2>>

OwnCpu == <<1, 2>>

OneEntry == [w \in 1 .. NumWorkers |-> 1]

OnePort == <<0>>

TwoPorts == <<0, 1>>
=============================================================================
