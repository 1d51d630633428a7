--------------------------- MODULE ChunkDirectory ---------------------------
(***************************************************************************)
(* metall::kernel::chunk_directory (kernel/chunk_directory.hpp): the table *)
(* with one entry per chunk of the application data segment.               *)
(*                                                                         *)
(* A small chunk is divided into slots of one bin's object size; a large   *)
(* object takes one head chunk and zero or more body chunks.  The slot     *)
(* occupancy bitset of an entry is the set of its marked slots.  The class *)
(* takes no lock; SegmentAllocator adds the callers' locks.                *)
(*                                                                         *)
(* The operations are modelled for the default (Release, NDEBUG) build:    *)
(* their assert()s are not executed.  The guards in Next are the ones that *)
(* the asserts and the callers promise; SegmentAllocator is checked and    *)
(* proved to call the operations only under them.                          *)
(***************************************************************************)
EXTENDS Integers, FiniteSets

CONSTANTS
    SmallBins,      \* bin numbers below bin_no_mngr::num_small_bins()
    LargeBins,      \* the other bin numbers
    NumSlots,       \* calc_num_slots(to_object_size(b)) of a small bin
    NumChunks,      \* chunks an object of a large bin takes
    MaxNumChunks    \* m_max_num_chunks

ASSUME BinAssumption ==
    /\ SmallBins # {}
    /\ SmallBins \cap LargeBins = {}
    /\ NumSlots \in [SmallBins -> Nat \ {0, 1}]
    /\ NumChunks \in [LargeBins -> Nat \ {0}]

ASSUME SizeAssumption == MaxNumChunks \in Nat \ {0}

VARIABLES
    m_table,                \* chunk number -> entry_type
    m_last_used_chunk_no    \* -1 when no chunk is used

directoryVars == <<m_table, m_last_used_chunk_no>>

Bins == SmallBins \cup LargeBins
ZeroBin == CHOOSE b \in SmallBins : TRUE   \* bin number 0
Chunk == 0 .. MaxNumChunks - 1
Slot(b) == 0 .. NumSlots[b] - 1

ChunkType == {"unused", "small_chunk", "large_chunk_head", "large_chunk_body"}

Entry == [bin_no : Bins, type : ChunkType,
          num_occupied_slots : Nat, slot_occupancy : SUBSET Nat]

-----------------------------------------------------------------------------
(* Queries. *)

unused_chunk(c) == m_table[c].type = "unused"

slots(c) == NumSlots[m_table[c].bin_no]

all_slots_marked(c) == m_table[c].num_occupied_slots = slots(c)

\* Mutant: slots in use are handed out again.
AnySlots(c) == Slot(m_table[c].bin_no)

FreeSlots(c) == Slot(m_table[c].bin_no) \ m_table[c].slot_occupancy

\* The test both insertions make before they take a chunk.
Insertable(c) == c > m_last_used_chunk_no \/ unused_chunk(c)

\* The chunks an insertion for bin b takes when it starts at chunk c.
Extent(b, c) == IF b \in SmallBins THEN {c} ELSE c .. c + NumChunks[b] - 1

Later(a, b) == IF a > b THEN a ELSE b

-----------------------------------------------------------------------------
(* Operations. *)

\* entry_type::init() leaves bin_no alone.
InitEntry(e) == [e EXCEPT !.type = "unused", !.num_occupied_slots = 0,
                          !.slot_occupancy = {}]

SmallEntry(b) == [bin_no |-> b, type |-> "small_chunk",
                  num_occupied_slots |-> 0, slot_occupancy |-> {}]

\* priv_insert_small_chunk: the first chunk that can be taken.  MaxNumChunks
\* is returned when there is none, or when malloc fails for the slot bitset;
\* in the second case the entry stays typed but m_last_used_chunk_no is not
\* moved.
InsertSmall(b, c) ==
    \/ /\ c \in Chunk
       /\ Insertable(c)
       /\ \A d \in 0 .. c - 1 : ~Insertable(d)
       /\ m_table' = [m_table EXCEPT ![c] = SmallEntry(b)]
       /\ m_last_used_chunk_no' = Later(c, m_last_used_chunk_no)
    \/ /\ c = MaxNumChunks
       /\ \A d \in Chunk : ~Insertable(d)
       /\ UNCHANGED directoryVars

InsertSmallNoMemory(b, c) ==
    /\ c = MaxNumChunks
    /\ \E d \in Chunk :
        /\ Insertable(d)
        /\ \A e \in 0 .. d - 1 : ~Insertable(e)
        /\ m_table' = [m_table EXCEPT ![d] = SmallEntry(b)]
    /\ UNCHANGED m_last_used_chunk_no

LargeFits(b, c) ==
    /\ c + NumChunks[b] <= MaxNumChunks
    /\ \A d \in Extent(b, c) : Insertable(d)

\* Entries past the last used one are initialised when the scan meets them.
LargeEntry(b, c, d) ==
    LET e == IF d > m_last_used_chunk_no THEN InitEntry(m_table[d])
                                         ELSE m_table[d]
    IN  [e EXCEPT !.bin_no = b,
                  !.type = IF d = c THEN "large_chunk_head"
                                    ELSE "large_chunk_body"]

\* priv_insert_large_chunk: the first run of NumChunks[b] chunks that can be
\* taken, MaxNumChunks when there is none.
InsertLarge(b, c) ==
    \/ /\ c \in Chunk
       /\ LargeFits(b, c)
       /\ \A d \in 0 .. c - 1 : ~LargeFits(b, d)
       /\ m_table' = [d \in Chunk |-> IF d \in Extent(b, c)
                                      THEN LargeEntry(b, c, d) ELSE m_table[d]]
       /\ m_last_used_chunk_no' =
              Later(c + NumChunks[b] - 1, m_last_used_chunk_no)
    \/ /\ c = MaxNumChunks
       /\ \A d \in Chunk : ~LargeFits(b, d)
       /\ m_table' = [d \in Chunk |-> IF d > m_last_used_chunk_no
                                      THEN InitEntry(m_table[d])
                                      ELSE m_table[d]]
       /\ UNCHANGED m_last_used_chunk_no

ErasedWhileLarge(c) ==
    {d \in Chunk : /\ d >= c
                   /\ \A e \in c + 1 .. d :
                          m_table[e].type \in {"large_chunk_head", "large_chunk_body"}}

\* The entries erase(c) initialises: the chunk itself and, after a large
\* chunk, every body chunk that follows without a gap.
ErasedRun(c) ==
    IF m_table[c].type = "small_chunk" THEN {c}
    ELSE {d \in Chunk : /\ d >= c
                        /\ \A e \in c + 1 .. d :
                               m_table[e].type = "large_chunk_body"}

\* Mutant: one step back instead of a search.
IsPreviousChunk(c, l) == l = c - 1

\* find_next_used_chunk_backward, called after the entries are initialised.
IsNextUsedBackward(c, l) ==
    /\ l \in -1 .. c
    /\ l # -1 => m_table'[l].type # "unused"
    /\ \A d \in l + 1 .. c : m_table'[d].type = "unused"

Erase(c) ==
    IF unused_chunk(c) THEN UNCHANGED directoryVars
    ELSE LET run == ErasedRun(c)
             last == m_last_used_chunk_no
         IN  /\ m_table' = [d \in Chunk |-> IF d \in run
                                            THEN InitEntry(m_table[d])
                                            ELSE m_table[d]]
             /\ IF last \in run /\ last + 1 \notin run
                THEN \E l \in -1 .. last :
                        IsNextUsedBackward(last, l) /\ m_last_used_chunk_no' = l
                ELSE UNCHANGED m_last_used_chunk_no

\* The n lowest free slots of chunk c.  find_and_set and find_and_set_many
\* return the lowest unset bits (see MultilayerBitset).
LowestFree(c, n, S) ==
    /\ S \subseteq FreeSlots(c)
    /\ IsFiniteSet(S)
    /\ Cardinality(S) = n
    /\ \A s \in S, r \in FreeSlots(c) \ S : s < r

\* find_and_mark_slot (n = 1) and find_and_mark_many_slots.
MarkSlots(c, S) ==
    /\ m_table' = [m_table EXCEPT
                     ![c].slot_occupancy = @ \cup S,
                     ![c].num_occupied_slots = @ + Cardinality(S)]
    /\ UNCHANGED m_last_used_chunk_no

\* Mutant: the counter is decremented, the bit stays set.
UnmarkCountOnly(c, s) ==
    /\ m_table' = [m_table EXCEPT ![c].num_occupied_slots = @ - 1]
    /\ UNCHANGED m_last_used_chunk_no

unmark_slot(c, s) ==
    /\ m_table' = [m_table EXCEPT
                     ![c].slot_occupancy = @ \ {s},
                     ![c].num_occupied_slots = @ - 1]
    /\ UNCHANGED m_last_used_chunk_no

-----------------------------------------------------------------------------
(* The directory by itself: any sequence of calls its callers may make. *)

\* mmap(MAP_ANONYMOUS) hands out zero-filled pages, and zero is `unused'.
DirectoryInit ==
    /\ m_table = [c \in Chunk |-> InitEntry(SmallEntry(ZeroBin))]
    /\ m_last_used_chunk_no = -1

IsSmall(c) == c \in Chunk /\ m_table[c].type = "small_chunk"

CallInsertSmall ==
    \E b \in SmallBins, c \in 0 .. MaxNumChunks :
        InsertSmall(b, c) \/ InsertSmallNoMemory(b, c)

CallInsertLarge ==
    \E b \in LargeBins, c \in 0 .. MaxNumChunks : InsertLarge(b, c)

\* Called for small chunks and the heads of large ones only.
CallErase ==
    \E c \in 0 .. m_last_used_chunk_no :
        m_table[c].type # "large_chunk_body" /\ Erase(c)

\* assert(num_occupied_slots < num_slots)
CallMark ==
    \E c \in 0 .. m_last_used_chunk_no :
        /\ IsSmall(c)
        /\ m_table[c].num_occupied_slots < slots(c)
        /\ \E S \in SUBSET FreeSlots(c) :
              S # {} /\ LowestFree(c, Cardinality(S), S) /\ MarkSlots(c, S)

\* Only marked slots are unmarked; assert(num_occupied_slots > 0)
CallUnmark ==
    \E c \in 0 .. m_last_used_chunk_no :
        /\ IsSmall(c)
        /\ m_table[c].num_occupied_slots > 0
        /\ \E s \in m_table[c].slot_occupancy : unmark_slot(c, s)

DirectoryNext == \/ CallInsertSmall
                 \/ CallInsertLarge
                 \/ CallErase
                 \/ CallMark
                 \/ CallUnmark

DirectorySpec == DirectoryInit /\ [][DirectoryNext]_directoryVars

-----------------------------------------------------------------------------
(* Properties. *)

\* The table and the last used chunk number have their types.
DirectoryTypeOK ==
    /\ m_table \in [Chunk -> Entry]
    /\ m_last_used_chunk_no \in -1 .. MaxNumChunks - 1

\* num_occupied_slots, the counter every full/empty decision of the allocator
\* is made on, is the number of bits set in the chunk's slot bitset, and every
\* bit set belongs to a slot of the chunk.
CountExact ==
    \A c \in Chunk : m_table[c].type = "small_chunk" =>
        /\ m_table[c].bin_no \in SmallBins
        /\ m_table[c].slot_occupancy \subseteq Slot(m_table[c].bin_no)
        /\ m_table[c].num_occupied_slots = Cardinality(m_table[c].slot_occupancy)

\* The chunk size() ends at is in use.
SizeIsTight ==
    m_last_used_chunk_no # -1 => ~unused_chunk(m_last_used_chunk_no)

\* size(), which bounds serialize(), get_all_marked_slots() and
\* num_used_large_chunks(), covers every chunk that holds an object, and is no
\* larger than it must be: the chunk it ends at is in use.
SizeCoversUse ==
    /\ SizeIsTight
    /\ \A c \in Chunk : c > m_last_used_chunk_no =>
          /\ m_table[c].type \in {"unused", "small_chunk"}
          /\ m_table[c].slot_occupancy = {}

\* A large head is followed by exactly the body chunks its object needs, and
\* every body chunk belongs to a head: erase(), which has no length and stops
\* at the first chunk that is not a body, frees the chunks of one object.
LargeRuns ==
    /\ \A c \in Chunk : m_table[c].type = "large_chunk_head" =>
          /\ m_table[c].bin_no \in LargeBins
          /\ c + NumChunks[m_table[c].bin_no] <= MaxNumChunks
          /\ \A d \in Extent(m_table[c].bin_no, c) \ {c} :
                m_table[d].type = "large_chunk_body"
    /\ \A d \in Chunk : m_table[d].type = "large_chunk_body" =>
          \E c \in 0 .. d - 1 :
             /\ m_table[c].type = "large_chunk_head"
             /\ d \in Extent(m_table[c].bin_no, c)

\* Entries that are not small chunks have no marked slots: a slot bitset never
\* survives the chunk it belonged to.
OnlySmallMarked ==
    \A c \in Chunk : m_table[c].type # "small_chunk" =>
        m_table[c].slot_occupancy = {} /\ m_table[c].num_occupied_slots = 0

\* The inductive invariant.
DirectoryInv ==
    DirectoryTypeOK /\ CountExact /\ OnlySmallMarked /\ SizeCoversUse /\ LargeRuns

\* A step empties either nothing or the chunks of exactly one allocation, the
\* ones its bin number says it has, whatever is stored next to it.
EmptiesOneExtent ==
    LET emptied == {c \in 0 .. m_last_used_chunk_no :
                       ~unused_chunk(c) /\ unused_chunk(c)'}
    IN  \/ emptied = {}
        \/ \E c \in emptied : emptied = Extent(m_table[c].bin_no, c)

EraseIsExact == [][EmptiesOneExtent]_directoryVars
=============================================================================
