------------------------------ MODULE MCIoNode ------------------------------
(***************************************************************************)
(* Two adapters with buffers of two, rings no larger than a burst and      *)
(* pools that run dry; two packets take the first interface, one the       *)
(* second.                                                                 *)
(***************************************************************************)
EXTENDS IoNode, TLC

CONSTANTS m1, m2, m3, p1, p2, p3

MCMbufs == {m1, m2, m3}

MCPackets == {p1, p2, p3}

MCNic == p1 :> 1 @@ p2 :> 1 @@ p3 :> 2

MCRingSize == <<2, 1>>
=============================================================================
