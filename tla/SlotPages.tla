------------------------------ MODULE SlotPages ------------------------------
(***************************************************************************)
(* Pages of a chunk of small objects that are given back when an object is *)
(* deallocated, priv_free_slot_without_bin_lock (segment_allocator.hpp):   *)
(* the build with METALL_FREE_SMALL_OBJECT_SIZE_HINT.  Objects need not    *)
(* begin or end at a page.  The lock of the bin is held all the time.      *)
(***************************************************************************)
EXTENDS Integers, FiniteSetsExt

CONSTANTS
    PageSize,       \* bytes
    ChunkSize,      \* bytes of a chunk, whole pages
    ObjectSizes,    \* sizes of small objects
    SizeHint        \* METALL_FREE_SMALL_OBJECT_SIZE_HINT

VARIABLES
    object_size,    \* of this chunk
    marked,         \* slots in use
    used            \* pages that hold memory

vars == <<object_size, marked, used>>

Slots == 0 .. ChunkSize \div object_size - 1
PagesBetween(a, b) == {p \in 0 .. ChunkSize \div PageSize - 1 : p * PageSize < b /\ (p + 1) * PageSize > a}
PagesOf(s) == PagesBetween(s * object_size, (s + 1) * object_size)

Init == object_size \in ObjectSizes /\ marked = {} /\ used = {}

\* The lowest free slot; the program writes the object.
Allocate ==
    /\ Slots \ marked # {}
    /\ LET s == Min(Slots \ marked)
       IN  marked' = marked \cup {s} /\ used' = used \cup PagesOf(s)
    /\ UNCHANGED object_size

round_up(v) == ((v + PageSize - 1) \div PageSize) * PageSize
round_down(v) == (v \div PageSize) * PageSize

\* Mutant: the neighbours are not looked at.
FreeWidely(s, left) ==
    IF object_size < Max({2 * PageSize, SizeHint}) THEN {}
    ELSE PagesBetween(round_down(s * object_size), round_up((s + 1) * object_size))

\* The pages priv_free_slot_without_bin_lock frees: those at the two ends too,
\* unless the slot next to it is marked.  The bit after the last slot is 0.
priv_free_slot(s, left) ==
    LET begin == s * object_size
        end == begin + object_size
    IN  IF object_size < Max({2 * PageSize, SizeHint}) THEN {}
        ELSE PagesBetween(IF s - 1 \in left THEN round_up(begin) ELSE round_down(begin),
                          IF s + 1 \in left THEN round_down(end) ELSE round_up(end))

\* With its last object the chunk itself is freed; a chunk that was full is not.
Deallocate(s) ==
    LET left == marked \ {s}
        full == marked = Slots
    IN  /\ s \in marked
        /\ marked' = left
        /\ used' = IF ~full /\ left = {} THEN {} ELSE used \ priv_free_slot(s, left)
        /\ UNCHANGED object_size

Next == Allocate \/ \E s \in Slots : Deallocate(s)

Spec == Init /\ [][Next]_vars

\* No page of an object in use is freed, and when the objects are large enough no
\* page is kept that only deallocated objects were in ("The left region will be
\* freed when the previous slot is freed").
PagesFollowSlots ==
    LET needed == UNION {PagesOf(s) : s \in marked}
    IN  /\ needed \subseteq used
        /\ object_size >= Max({2 * PageSize, SizeHint}) => used = needed
=============================================================================
