-------------------------- MODULE MCAllocatorFiles --------------------------
(***************************************************************************)
(* A small instance, for TLC, of the allocator and the files it is written *)
(* to and read from.                                                       *)
(***************************************************************************)
EXTENDS AllocatorFiles, TLC

CONSTANTS s1, s2, l2, t1, t2

MCNumSlots == [b \in SmallBins |-> 2]
MCNumChunks == [b \in LargeBins |-> 2]
ThreadSymmetry == Permutations(Threads)
=============================================================================
