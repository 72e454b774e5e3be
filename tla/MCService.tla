----------------------------- MODULE MCService -----------------------------
(***************************************************************************)
(* A thread that enters, exits and enters again, and one that enters and   *)
(* exits, with two thread ids between them.                                *)
(***************************************************************************)
EXTENDS Service

CONSTANTS c1, c2

TwoClients == {c1, c2}

Calls == [c \in Clients |-> IF c = c1 THEN 3 ELSE 2]

OneCall == [c \in Clients |-> 1]
=============================================================================
