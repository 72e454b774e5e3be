---------------------------- MODULE MCMemoryPool ----------------------------
(***************************************************************************)
(* Three threads with two ids between them, so that an id is used again,   *)
(* and a pool that two caches can hold.                                    *)
(***************************************************************************)
EXTENDS MemoryPool

CONSTANTS t1, t2, t3, s1, s2, s3

MCThreads == {t1, t2, t3}

MCSlots == {s1, s2, s3}

MCBursts == {1, 2}

MCIds == {0, 1}
=============================================================================
