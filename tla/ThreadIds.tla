----------------------------- MODULE ThreadIds -----------------------------
(***************************************************************************)
(* What the service promises about thread ids: an id is given to a thread  *)
(* only when nobody has it and the table has it marked free, and the entry *)
(* of an id is cleared only when nobody has it any more.  An id can get    *)
(* lost: the thread it was meant for has given up, or asked in vain to be  *)
(* rid of it.                                                              *)
(***************************************************************************)
CONSTANTS Clients, Ids

VARIABLES
  ids,    \* ids[c]: the ids that client c uses, or is about to be told of
  used    \* the ids that are marked as used

vars == <<ids, used>>

Init ==
  /\ ids = [c \in Clients |-> {}]
  /\ used = {}

Grant(c, i) ==
  /\ i \notin used
  /\ used' = used \cup {i}
  /\ ids' = [ids EXCEPT ![c] = @ \cup {i}]

(* The client that asked has given up. *)
GrantLost(i) ==
  /\ i \notin used
  /\ used' = used \cup {i}
  /\ UNCHANGED ids

(* The client stops using its id, or does not wait for it. *)
GiveUp(c) ==
  /\ ids' = [ids EXCEPT ![c] = {}]
  /\ UNCHANGED used

Free(i) ==
  /\ \A c \in Clients : i \notin ids[c]
  /\ used' = used \ {i}
  /\ UNCHANGED ids

Next ==
  \/ \E c \in Clients : GiveUp(c) \/ \E i \in Ids : Grant(c, i)
  \/ \E i \in Ids : GrantLost(i) \/ Free(i)

Spec == Init /\ [][Next]_vars
=============================================================================
