----------------------------- MODULE MCDatapath -----------------------------
(***************************************************************************)
(* Two interfaces, and a graph in which packets are copied: what the user  *)
(* sends goes to an adapter twice and back to the user, and what is        *)
(* received goes to the user on two paths.  The rings are of one and two   *)
(* descriptors, so that a flush has to wait for frames to leave.           *)
(***************************************************************************)
EXTENDS Datapath

CONSTANTS p1, p2, p3

MCPackets == {p1, p2, p3}

MCKind == <<"io", "filter", "forward", "user", "forward", "forward">>

MCLinks == <<<<2>>, <<5, 4>>, <<1, 4, 6>>, <<3>>, <<4>>, <<1>>>>

MCRingSize == <<1, 2>>

MCHeight == <<0, 2, 2, 0, 1, 1>>
=============================================================================
