------------------------------ MODULE SlotPool ------------------------------
(***************************************************************************)
(* What a memory pool promises its threads: once it exists, a free slot is *)
(* handed to one thread, stays with that thread until the thread gives it  *)
(* back, and is free again then.  Free slots can get lost, slots that      *)
(* somebody has cannot.                                                    *)
(***************************************************************************)
CONSTANTS Threads, Slots

VARIABLES
  made,    \* the pool has been created
  free,    \* slots that can be handed out
  taken    \* taken[t]: the slots thread t has

vars == <<made, free, taken>>

Init ==
  /\ made = FALSE
  /\ free = {}
  /\ taken = [t \in Threads |-> {}]

Make ==
  /\ ~ made
  /\ made' = TRUE
  /\ free' = Slots
  /\ UNCHANGED taken

Take(t, got) ==
  /\ free' = free \ got
  /\ taken' = [taken EXCEPT ![t] = @ \cup got]
  /\ UNCHANGED made

Give(t, s) ==
  /\ free' = free \cup {s}
  /\ taken' = [taken EXCEPT ![t] = @ \ {s}]
  /\ UNCHANGED made

Lose(some) ==
  /\ free' = free \ some
  /\ UNCHANGED <<made, taken>>

Next ==
  \/ Make
  \/ \E t \in Threads, got \in SUBSET free : Take(t, got)
  \/ \E t \in Threads : \E s \in taken[t] : Give(t, s)
  \/ \E some \in SUBSET free : Lose(some)

Spec == Init /\ [][Next]_vars
=============================================================================
