--------------------------- MODULE MCObjectCache ---------------------------
(***************************************************************************)
(* Object caches for TLC: one cache with two bins and three blocks, and    *)
(* two caches over one allocator with one bin and two blocks each.  A      *)
(* behaviour is one of either.  Objects are numbers; those of bin 1 are    *)
(* the larger ones.                                                        *)
(***************************************************************************)
EXTENDS ObjectCache

VARIABLES
    shared,                           \* whether there are two caches
    caches, ops, sharedFree, clients  \* the two caches

twoVars == <<caches, ops, sharedFree, clients>>

\* The one cache.
BinOfObject == <<0, 0, 1, 1>>
SizeOfBin == [b \in {0, 1} |-> b + 1]
BatchOfBin == [b \in {0, 1} |-> 2 - b]

Two == INSTANCE ObjectCache WITH
          Caches <- {1, 2}, Bins <- {0}, Object <- 1 .. 3, BinOf <- <<0, 0, 0>>,
          ObjectSize <- [b \in {0} |-> 1], BatchSize <- [b \in {0} |-> 2],
          k_capacity <- 2, NumBlocks <- 2, MaxCacheSize <- 4,
          cache <- caches, op <- ops, free <- sharedFree, live <- clients

MCInit == shared \in BOOLEAN /\ Init /\ Two!Init

NextOne == ~shared /\ Next /\ UNCHANGED <<shared, twoVars>>
NextTwo == shared /\ Two!Next /\ UNCHANGED <<shared, vars>>

MCNext == NextOne \/ NextTwo

\* A thread in a call of a cache goes on: nothing it waits for is held by a
\* thread that waits.
MCSpec ==
    /\ MCInit /\ [][MCNext]_<<shared, vars, twoVars>>
    /\ \A c \in {1, 2} : WF_twoVars(shared /\ Two!Step(c) /\ UNCHANGED <<shared, vars>>)

-----------------------------------------------------------------------------
\* Two caches over one allocator implement a pool that loses no object and hands
\* none out twice, and every call of a cache returns, whatever the other does.
SharedCaches == Two!ImplementsPool /\ Two!CallsReturn
=============================================================================
