------------------------- MODULE MCSegmentAllocator -------------------------
(***************************************************************************)
(* Small instances of the allocator for TLC.                               *)
(***************************************************************************)
EXTENDS SegmentAllocator, TLC

CONSTANTS s1, s2, s3, l1, l2, t1, t2, t3

MCNumSlots == [b \in SmallBins |-> IF b = s3 THEN 3 ELSE 2]
ThreadSymmetry == Permutations(Threads)

MCNumChunks == [b \in LargeBins |-> IF b = l1 THEN 1 ELSE 2]
=============================================================================
