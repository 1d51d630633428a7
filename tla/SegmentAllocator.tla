-------------------------- MODULE SegmentAllocator --------------------------
(***************************************************************************)
(* metall::kernel::segment_allocator (kernel/segment_allocator.hpp) without *)
(* the object cache: the threads of one process allocating and freeing     *)
(* small and large objects through the global structures, that is the      *)
(* chunk directory, the non-full chunk bins and the segment storage.       *)
(*                                                                         *)
(* One mutex per small bin (m_bin_mutex) protects the bin's list and the   *)
(* slots of its chunks; one chunk mutex (m_chunk_mutex) protects the       *)
(* directory's chunk types and the segment size.  An operation is one      *)
(* action for each stretch of code between two points where another thread *)
(* can make a difference; pc names where a thread stands.                  *)
(*                                                                         *)
(* A call with n > 1 objects is how the object cache fills a block or      *)
(* empties one; bins too large for the cache are called with n = 1.        *)
(***************************************************************************)
EXTENDS ChunkDirectory, Sequences

CONSTANTS
    Threads,
    NoThread,           \* the owner of a free mutex
    BatchSizes,         \* numbers of objects asked for in one call
    ManyThreshold,      \* k_many_allocations_threshold
    BlockChunks,        \* k_block_size / k_chunk_size
    Capacity            \* m_segment_capacity / k_chunk_size

ASSUME ThreadAssumption == NoThread \notin Threads

ASSUME BatchAssumption == BatchSizes \subseteq Nat \ {0}

ASSUME CapacityAssumption ==
    /\ ManyThreshold \in Nat
    /\ BlockChunks \in Nat \ {0}
    /\ Capacity \in BlockChunks .. MaxNumChunks
    /\ Capacity % BlockChunks = 0

VARIABLES
    m_non_full_chunk_bin,   \* small bin -> sequence of chunk numbers
    m_segment_size,         \* chunks mapped; 0 once the storage is broken
    m_chunk_mutex,          \* owner
    m_bin_mutex,            \* small bin -> owner
    live,                   \* objects the callers hold: <<bin, chunk, slot>>
    pc,                     \* thread -> where it stands
    bin,                    \* thread -> the bin number it works on
    many,                   \* thread -> num_allocates is at the threshold
    todo,                   \* thread -> objects still to be allocated
    objs,                   \* thread -> objects obtained, or still to be freed
    chunk,                  \* thread -> new_chunk_no or the chunk to free
    aborted                 \* the process died from an invalid memory access

locals == <<bin, many, todo, objs, chunk>>
allocatorVars == <<m_table, m_last_used_chunk_no, m_non_full_chunk_bin,
                   m_segment_size, m_chunk_mutex, m_bin_mutex, live, pc, bin,
                   many, todo, objs, chunk, aborted>>

PC == {"idle", "alloc", "extend", "extend_large",
       "free_lock", "free", "erase", "punch", "unlist",
       "free_large", "punch_large"}

-----------------------------------------------------------------------------
(* Operations on a bin's list (kernel/bin_directory.hpp): a deque that is  *)
(* filled, read and popped at the front.                                   *)

BinInsert(b, c) ==
    m_non_full_chunk_bin' = [m_non_full_chunk_bin EXCEPT ![b] = <<c>> \o @]

BinPop(b) == m_non_full_chunk_bin' = [m_non_full_chunk_bin EXCEPT ![b] = Tail(@)]

\* erase: the first occurrence, if there is one.
FirstAt(q, c, i) == i \in DOMAIN q /\ q[i] = c /\ \A j \in 1 .. i - 1 : q[j] # c

WithoutAt(q, i) == [j \in 1 .. Len(q) - 1 |-> IF j < i THEN q[j] ELSE q[j + 1]]

BinErase(b, c) ==
    LET q == m_non_full_chunk_bin[b]
    IN  \/ /\ \A i \in DOMAIN q : q[i] # c
           /\ UNCHANGED m_non_full_chunk_bin
        \/ \E i \in DOMAIN q :
              /\ FirstAt(q, c, i)
              /\ m_non_full_chunk_bin' =
                     [m_non_full_chunk_bin EXCEPT ![b] = WithoutAt(q, i)]

-----------------------------------------------------------------------------
(* The segment storage as the allocator uses it.                           *)

RoundUpToBlock(n) == ((n + BlockChunks - 1) \div BlockChunks) * BlockChunks

\* priv_extend_segment_without_lock and segment_storage::extend.  Only a
\* size beyond the capacity fails and leaves the segment as it is; a block
\* file that cannot be created or mapped makes the storage unmap the whole
\* segment and refuse every later extension (size() is 0 from then on).
HasSize(n) == n <= m_segment_size

Extends(n) ==
    /\ m_segment_size # 0
    /\ n \in m_segment_size + 1 .. Capacity
    /\ m_segment_size' = RoundUpToBlock(n)

ExtendSucceeds(n) == \/ HasSize(n) /\ UNCHANGED m_segment_size
                     \/ Extends(n)

ExtendFails(n) ==
    /\ ~HasSize(n)
    /\ \/ (m_segment_size = 0 \/ n > Capacity) /\ UNCHANGED m_segment_size
       \/ n <= Capacity /\ m_segment_size # 0 /\ m_segment_size' = 0

-----------------------------------------------------------------------------
(* Allocation of small objects.                                            *)

Goto(t, l) == pc' = [pc EXCEPT ![t] = l]

\* The call returns and its local variables are gone.
Return(t) ==
    /\ Goto(t, "idle")
    /\ bin' = [bin EXCEPT ![t] = ZeroBin]
    /\ many' = [many EXCEPT ![t] = FALSE]
    /\ todo' = [todo EXCEPT ![t] = 0]
    /\ objs' = [objs EXCEPT ![t] = {}]
    /\ chunk' = [chunk EXCEPT ![t] = 0]

Smaller(a, b) == IF a < b THEN a ELSE b

\* priv_allocate_small_objects_from_global takes the bin's mutex.
AllocateSmall(t, b, n) ==
    /\ pc[t] = "idle"
    /\ m_bin_mutex[b] = NoThread
    /\ m_bin_mutex' = [m_bin_mutex EXCEPT ![b] = t]
    /\ bin' = [bin EXCEPT ![t] = b]
    /\ many' = [many EXCEPT ![t] = n >= ManyThreshold]
    /\ todo' = [todo EXCEPT ![t] = n]
    /\ objs' = [objs EXCEPT ![t] = {}]
    /\ Goto(t, "alloc")
    /\ UNCHANGED <<directoryVars, m_non_full_chunk_bin, m_segment_size,
                   m_chunk_mutex, live, chunk, aborted>>

\* Mutant: the full chunk stays in the list.
MarkOnly(t, c, S) == MarkSlots(c, S) /\ UNCHANGED m_non_full_chunk_bin

\* One turn of the loop when the bin lists a chunk: mark slots of the chunk at
\* the front and drop the chunk from the list once it is full.
MarkAndPop(t, c, S) ==
    /\ MarkSlots(c, S)
    /\ IF m_table'[c].num_occupied_slots = slots(c)
       THEN BinPop(bin[t])
       ELSE UNCHANGED m_non_full_chunk_bin

AllocateFromChunk(t) ==
    /\ pc[t] = "alloc"
    /\ todo[t] > 0
    /\ m_non_full_chunk_bin[bin[t]] # <<>>
    /\ LET c == Head(m_non_full_chunk_bin[bin[t]])
           n == IF many[t]
                THEN Smaller(todo[t], slots(c) - m_table[c].num_occupied_slots)
                ELSE 1
       IN  \E S \in SUBSET FreeSlots(c) :
              /\ LowestFree(c, n, S)
              /\ MarkAndPop(t, c, S)
              /\ objs' = [objs EXCEPT ![t] = @ \cup {<<bin[t], c, s>> : s \in S}]
              /\ todo' = [todo EXCEPT ![t] = @ - n]
    /\ UNCHANGED <<m_segment_size, m_chunk_mutex, m_bin_mutex, live, pc, bin,
                   many, chunk, aborted>>

\* priv_insert_new_small_object_chunk takes the chunk mutex and registers a
\* chunk ...
InsertNewChunk(t) ==
    /\ pc[t] = "alloc"
    /\ todo[t] > 0
    /\ m_non_full_chunk_bin[bin[t]] = <<>>
    /\ m_chunk_mutex = NoThread
    /\ m_chunk_mutex' = t
    /\ \E c \in 0 .. MaxNumChunks :
          /\ InsertSmall(bin[t], c) \/ InsertSmallNoMemory(bin[t], c)
          /\ chunk' = [chunk EXCEPT ![t] = c]
    /\ Goto(t, "extend")
    /\ UNCHANGED <<m_non_full_chunk_bin, m_segment_size, m_bin_mutex, live, bin,
                   many, todo, objs, aborted>>

\* ... then extends the segment and lists the chunk.
ListNewChunk(t) ==
    /\ pc[t] = "extend"
    /\ ExtendSucceeds(chunk[t] + 1)
    /\ BinInsert(bin[t], chunk[t])
    /\ m_chunk_mutex' = NoThread
    /\ Goto(t, "alloc")
    /\ UNCHANGED <<directoryVars, m_bin_mutex, live, locals, aborted>>

\* Mutants: the objects already obtained are forgotten; the failed object is
\* tried again.
FailNewChunkForgets(t) ==
    /\ pc[t] = "extend"
    /\ ExtendFails(chunk[t] + 1)
    /\ m_chunk_mutex' = NoThread
    /\ todo' = [todo EXCEPT ![t] = 0]
    /\ objs' = [objs EXCEPT ![t] = {}]
    /\ Goto(t, "alloc")
    /\ UNCHANGED <<directoryVars, m_non_full_chunk_bin, m_bin_mutex, live, bin,
                   many, chunk, aborted>>

FailNewChunkRetries(t) ==
    /\ pc[t] = "extend"
    /\ ExtendFails(chunk[t] + 1)
    /\ m_chunk_mutex' = NoThread
    /\ Goto(t, "alloc")
    /\ UNCHANGED <<directoryVars, m_non_full_chunk_bin, m_bin_mutex, live,
                   locals, aborted>>

\* When the segment cannot be extended the chunk stays in the directory.  A
\* call for many objects gives up, the other goes on with its next object.
FailNewChunk(t) ==
    /\ pc[t] = "extend"
    /\ ExtendFails(chunk[t] + 1)
    /\ m_chunk_mutex' = NoThread
    /\ todo' = [todo EXCEPT ![t] = IF many[t] THEN 0 ELSE @ - 1]
    /\ Goto(t, "alloc")
    /\ UNCHANGED <<directoryVars, m_non_full_chunk_bin, m_bin_mutex, live, bin,
                   many, objs, chunk, aborted>>

ReturnSmall(t) ==
    /\ pc[t] = "alloc"
    /\ todo[t] = 0
    /\ m_bin_mutex' = [m_bin_mutex EXCEPT ![bin[t]] = NoThread]
    /\ live' = live \cup objs[t]
    /\ Return(t)
    /\ UNCHANGED <<directoryVars, m_non_full_chunk_bin, m_segment_size,
                   m_chunk_mutex, aborted>>

-----------------------------------------------------------------------------
(* Allocation of large objects (priv_allocate_large_object).               *)

AllocateLarge(t, b) ==
    /\ pc[t] = "idle"
    /\ m_chunk_mutex = NoThread
    /\ m_chunk_mutex' = t
    /\ bin' = [bin EXCEPT ![t] = b]
    /\ \E c \in 0 .. MaxNumChunks :
          InsertLarge(b, c) /\ chunk' = [chunk EXCEPT ![t] = c]
    /\ Goto(t, "extend_large")
    /\ UNCHANGED <<m_non_full_chunk_bin, m_segment_size, m_bin_mutex, live,
                   many, todo, objs, aborted>>

\* Mutant: the segment is extended by the object's first chunk only.
ReturnLargeHeadMapped(t) ==
    /\ pc[t] = "extend_large"
    /\ ExtendSucceeds(chunk[t] + 1)
    /\ live' = live \cup {<<bin[t], chunk[t], 0>>}
    /\ m_chunk_mutex' = NoThread
    /\ Return(t)
    /\ UNCHANGED <<directoryVars, m_non_full_chunk_bin, m_bin_mutex, aborted>>

ReturnLarge(t) ==
    /\ pc[t] = "extend_large"
    /\ ExtendSucceeds(chunk[t] + NumChunks[bin[t]])
    /\ live' = live \cup {<<bin[t], chunk[t], 0>>}
    /\ m_chunk_mutex' = NoThread
    /\ Return(t)
    /\ UNCHANGED <<directoryVars, m_non_full_chunk_bin, m_bin_mutex, aborted>>

\* The new chunk is erased again.  When none was found erase() is called with
\* MaxNumChunks and reads past the end of the table: the entry it finds looks
\* unused, or the access kills the process.
FailLarge(t) ==
    /\ pc[t] = "extend_large"
    /\ ExtendFails(chunk[t] + NumChunks[bin[t]])
    /\ \/ chunk[t] \in Chunk /\ Erase(chunk[t]) /\ UNCHANGED aborted
       \/ /\ chunk[t] = MaxNumChunks
          /\ UNCHANGED directoryVars
          /\ aborted' \in BOOLEAN
    /\ m_chunk_mutex' = NoThread
    /\ Return(t)
    /\ UNCHANGED <<m_non_full_chunk_bin, m_bin_mutex, live>>

-----------------------------------------------------------------------------
(* Deallocation.                                                           *)

\* deallocate reads the chunk's bin number without holding any mutex.
Deallocate(t, o) ==
    /\ pc[t] = "idle"
    /\ LET b == m_table[o[2]].bin_no
       IN  /\ bin' = [bin EXCEPT ![t] = b]
           /\ Goto(t, IF b \in SmallBins THEN "free_lock" ELSE "free_large")
    /\ live' = live \ {o}
    /\ objs' = [objs EXCEPT ![t] = {o}]
    /\ UNCHANGED <<directoryVars, m_non_full_chunk_bin, m_segment_size,
                   m_chunk_mutex, m_bin_mutex, many, todo, chunk, aborted>>

\* The object cache frees a block of objects of one bin, which it remembers.
DeallocateMany(t, b, S) ==
    /\ pc[t] = "idle"
    /\ bin' = [bin EXCEPT ![t] = b]
    /\ Goto(t, "free_lock")
    /\ live' = live \ S
    /\ objs' = [objs EXCEPT ![t] = S]
    /\ UNCHANGED <<directoryVars, m_non_full_chunk_bin, m_segment_size,
                   m_chunk_mutex, m_bin_mutex, many, todo, chunk, aborted>>

\* priv_deallocate_small_objects_from_global takes the bin's mutex.
LockForFree(t) ==
    /\ pc[t] = "free_lock"
    /\ m_bin_mutex[bin[t]] = NoThread
    /\ m_bin_mutex' = [m_bin_mutex EXCEPT ![bin[t]] = t]
    /\ Goto(t, "free")
    /\ UNCHANGED <<directoryVars, m_non_full_chunk_bin, m_segment_size,
                   m_chunk_mutex, live, locals, aborted>>

\* priv_deallocate_small_object_from_global_without_bin_lock: list the chunk
\* again if it was full, free it if this was its last object.
FreeSlot(t) ==
    /\ pc[t] = "free"
    /\ \E o \in objs[t] :
          LET c == o[2]
          IN  /\ unmark_slot(c, o[3])
              /\ objs' = [objs EXCEPT ![t] = @ \ {o}]
              /\ chunk' = [chunk EXCEPT ![t] = c]
              /\ IF all_slots_marked(c)
                 THEN BinInsert(bin[t], c) /\ UNCHANGED pc
                 ELSE /\ UNCHANGED m_non_full_chunk_bin
                      /\ IF m_table'[c].num_occupied_slots = 0
                         THEN Goto(t, "erase")
                         ELSE UNCHANGED pc
    /\ UNCHANGED <<m_segment_size, m_chunk_mutex, m_bin_mutex, live, bin,
                   many, todo, aborted>>

\* Mutant: the chunk mutex is released before the pages are given back.
EraseChunkUnlocks(t) ==
    /\ pc[t] = "erase"
    /\ m_chunk_mutex = NoThread
    /\ Erase(chunk[t])
    /\ Goto(t, "punch")
    /\ UNCHANGED <<m_non_full_chunk_bin, m_segment_size, m_chunk_mutex,
                   m_bin_mutex, live, locals, aborted>>

EraseChunk(t) ==
    /\ pc[t] = "erase"
    /\ m_chunk_mutex = NoThread
    /\ m_chunk_mutex' = t
    /\ Erase(chunk[t])
    /\ Goto(t, "punch")
    /\ UNCHANGED <<m_non_full_chunk_bin, m_segment_size, m_bin_mutex, live,
                   locals, aborted>>

\* priv_free_chunk returns the chunk's pages and file space, still under the
\* chunk mutex, which is released after it.
FreeChunk(t) ==
    /\ pc[t] = "punch"
    /\ m_chunk_mutex' = NoThread
    /\ Goto(t, "unlist")
    /\ UNCHANGED <<directoryVars, m_non_full_chunk_bin, m_segment_size,
                   m_bin_mutex, live, locals, aborted>>

\* Mutant: the freed chunk stays in the list.
UnlistNothing(t) ==
    /\ pc[t] = "unlist"
    /\ Goto(t, "free")
    /\ UNCHANGED <<directoryVars, m_non_full_chunk_bin, m_segment_size,
                   m_chunk_mutex, m_bin_mutex, live, locals, aborted>>

UnlistChunk(t) ==
    /\ pc[t] = "unlist"
    /\ BinErase(bin[t], chunk[t])
    /\ Goto(t, "free")
    /\ UNCHANGED <<directoryVars, m_segment_size, m_chunk_mutex, m_bin_mutex,
                   live, locals, aborted>>

ReturnFree(t) ==
    /\ pc[t] = "free"
    /\ objs[t] = {}
    /\ m_bin_mutex' = [m_bin_mutex EXCEPT ![bin[t]] = NoThread]
    /\ Return(t)
    /\ UNCHANGED <<directoryVars, m_non_full_chunk_bin, m_segment_size,
                   m_chunk_mutex, live, aborted>>

\* priv_deallocate_large_object.
EraseLarge(t) ==
    /\ pc[t] = "free_large"
    /\ m_chunk_mutex = NoThread
    /\ m_chunk_mutex' = t
    /\ \E o \in objs[t] : Erase(o[2]) /\ chunk' = [chunk EXCEPT ![t] = o[2]]
    /\ objs' = [objs EXCEPT ![t] = {}]
    /\ Goto(t, "punch_large")
    /\ UNCHANGED <<m_non_full_chunk_bin, m_segment_size, m_bin_mutex, live, bin,
                   many, todo, aborted>>

FreeLarge(t) ==
    /\ pc[t] = "punch_large"
    /\ m_chunk_mutex' = NoThread
    /\ Return(t)
    /\ UNCHANGED <<directoryVars, m_non_full_chunk_bin, m_segment_size,
                   m_bin_mutex, live, aborted>>

-----------------------------------------------------------------------------
(* Specification. *)

Init ==
    /\ DirectoryInit
    /\ m_non_full_chunk_bin = [b \in SmallBins |-> <<>>]
    /\ m_segment_size = BlockChunks
    /\ m_chunk_mutex = NoThread
    /\ m_bin_mutex = [b \in SmallBins |-> NoThread]
    /\ live = {}
    /\ pc = [t \in Threads |-> "idle"]
    /\ bin = [t \in Threads |-> ZeroBin]
    /\ many = [t \in Threads |-> FALSE]
    /\ todo = [t \in Threads |-> 0]
    /\ objs = [t \in Threads |-> {}]
    /\ chunk = [t \in Threads |-> 0]
    /\ aborted = FALSE

\* A new call of a client of the allocator.
Call(t) ==
    \/ \E b \in SmallBins, n \in BatchSizes : AllocateSmall(t, b, n)
    \/ \E b \in LargeBins : AllocateLarge(t, b)
    \/ \E o \in live : Deallocate(t, o)
    \/ \E b \in SmallBins, S \in SUBSET live :
          /\ Cardinality(S) \in BatchSizes \ {1}
          /\ \A o \in S : o[1] = b
          /\ DeallocateMany(t, b, S)

\* A step of a call that has begun.
Continue(t) ==
    \/ AllocateFromChunk(t) \/ InsertNewChunk(t) \/ ListNewChunk(t)
    \/ FailNewChunk(t) \/ ReturnSmall(t)
    \/ ReturnLarge(t) \/ FailLarge(t)
    \/ LockForFree(t) \/ FreeSlot(t) \/ EraseChunk(t) \/ FreeChunk(t)
    \/ UnlistChunk(t) \/ ReturnFree(t)
    \/ EraseLarge(t) \/ FreeLarge(t)

Next == \/ ~aborted /\ \E t \in Threads : Call(t) \/ Continue(t)
        \/ aborted /\ UNCHANGED allocatorVars

Spec == Init /\ [][Next]_allocatorVars

\* A thread inside the allocator keeps running.  Nothing makes a client call.
FairSpec == Spec /\ \A t \in Threads : WF_allocatorVars(~aborted /\ Continue(t))

-----------------------------------------------------------------------------
(* Properties. *)

\* Objects handed out, about to be handed out or about to be freed.
Held == live \cup UNION {objs[t] : t \in Threads}

\* Two objects share memory unless they are different slots of one bin's chunk
\* or lie in different chunks.
Overlap(o, p) ==
    /\ Extent(o[1], o[2]) \cap Extent(p[1], p[2]) # {}
    /\ ~(o[1] = p[1] /\ o[1] \in SmallBins /\ o[3] # p[3])

\* The variables have their types.
TypeOK ==
    /\ DirectoryTypeOK
    /\ m_non_full_chunk_bin \in [SmallBins -> Seq(Chunk)]
    /\ m_segment_size \in 0 .. Capacity
    /\ m_chunk_mutex \in Threads \cup {NoThread}
    /\ m_bin_mutex \in [SmallBins -> Threads \cup {NoThread}]
    /\ live \subseteq Bins \X Chunk \X Nat
    /\ pc \in [Threads -> PC]
    /\ bin \in [Threads -> Bins]
    /\ many \in [Threads -> BOOLEAN]
    /\ todo \in [Threads -> Nat]
    /\ objs \in [Threads -> SUBSET (Bins \X Chunk \X Nat)]
    /\ chunk \in [Threads -> 0 .. MaxNumChunks]
    /\ aborted \in BOOLEAN

\* Whatever the threads do, no two objects handed out overlap (the multithread
\* tests call this validate_overlap), and no object has two holders.
NoOverlap ==
    /\ \A o, p \in Held : o # p => ~Overlap(o, p)
    /\ \A t \in Threads :
          /\ objs[t] \cap live = {}
          /\ \A u \in Threads \ {t} : objs[t] \cap objs[u] = {}

\* The directory agrees with the objects: each object held is a marked slot of
\* a small chunk of its bin or a large chunk of its bin, and a slot is marked
\* only for an object held.  Nothing is lost and nothing is handed out twice.
SlotsAccounted ==
    /\ \A o \in Held :
          /\ m_table[o[2]].bin_no = o[1]
          /\ \/ /\ m_table[o[2]].type = "small_chunk"
                /\ o[3] \in m_table[o[2]].slot_occupancy
             \/ m_table[o[2]].type = "large_chunk_head" /\ o[3] = 0
    /\ \A c \in Chunk : m_table[c].type = "small_chunk" =>
          \A s \in m_table[c].slot_occupancy :
             <<m_table[c].bin_no, c, s>> \in Held

\* Chunk c is in bin b's list.
Listed(b, c) ==
    \E i \in DOMAIN m_non_full_chunk_bin[b] : m_non_full_chunk_bin[b][i] = c

\* A chunk of bin b with both objects and free slots.
PartlyFull(b, c) ==
    /\ m_table[c].type = "small_chunk"
    /\ m_table[c].bin_no = b
    /\ m_table[c].num_occupied_slots \in 1 .. NumSlots[b] - 1

ListedOnce(b) ==
    \A i, j \in DOMAIN m_non_full_chunk_bin[b] :
        m_non_full_chunk_bin[b][i] = m_non_full_chunk_bin[b][j] => i = j

\* While nobody works on a bin its list holds, once each, exactly the chunks of
\* the bin that have both objects and free slots.  It does not hold a chunk
\* number that was freed and taken by another bin, although a freed chunk can
\* be taken before its old bin's list is updated.
BinListsExact ==
    \A b \in SmallBins : m_bin_mutex[b] = NoThread =>
        /\ ListedOnce(b)
        /\ \A c \in Chunk : Listed(b, c) <=> PartlyFull(b, c)

\* The pages and the file space priv_free_chunk gives back hold no object of
\* anyone at the moment they are given back.
FreedPagesUnused ==
    \A t \in Threads : pc[t] \in {"punch", "punch_large"} =>
        \A o \in Held :
            Extent(o[1], o[2]) \cap Extent(bin[t], chunk[t]) = {}

\* Every object held lies inside the mapped part of the segment, unless a
\* failed extension unmapped all of it.
InsideSegment ==
    m_segment_size # 0 =>
        \A o \in Held : \A c \in Extent(o[1], o[2]) : c < m_segment_size

\* The chunks the lists offer lie inside it too.
ListedInside ==
    m_segment_size # 0 =>
        \A b \in SmallBins, c \in Chunk : Listed(b, c) => c < m_segment_size

\* The threads use the chunk directory as if one caller did: every step is a
\* call the directory's asserts allow, or leaves it alone.
UsesDirectory == [][DirectoryNext]_directoryVars

\* Once clients stop calling, every call that has begun returns: no cycle of
\* bin mutexes and the chunk mutex, no endless loop over a bin's list.
CallsReturn ==
    <>[][\A t \in Threads : ~Call(t)]_allocatorVars
        => <>[](aborted \/ \A t \in Threads : pc[t] = "idle")

\* "Each bin holds non-full chunk IDs of the same internal allocation size":
\* a non-full chunk of a bin nobody works on can be found through the bin.
NonFullChunksListed ==
    \A b \in SmallBins, c \in Chunk :
        /\ m_bin_mutex[b] = NoThread
        /\ m_table[c].type = "small_chunk"
        /\ m_table[c].bin_no = b
        /\ m_table[c].num_occupied_slots < NumSlots[b]
        => \E i \in DOMAIN m_non_full_chunk_bin[b] :
               m_non_full_chunk_bin[b][i] = c

-----------------------------------------------------------------------------
(* The inductive invariant of the proofs.                                  *)

HoldsChunkMutex == {"extend", "extend_large", "punch", "punch_large"}
HoldsBinMutex == {"alloc", "extend", "free", "erase", "punch", "unlist"}
WorksOnLarge == {"extend_large", "free_large", "punch_large"}

\* A mutex is owned by the thread that stands where the code holds it.
LocksOK ==
    \A t \in Threads :
        /\ pc[t] \in HoldsChunkMutex <=> m_chunk_mutex = t
        /\ \A b \in SmallBins :
              m_bin_mutex[b] = t <=> pc[t] \in HoldsBinMutex /\ bin[t] = b
        /\ pc[t] \in HoldsBinMutex \cup {"free_lock"} => bin[t] \in SmallBins
        /\ pc[t] \in WorksOnLarge => bin[t] \in LargeBins

\* A thread's objects are of the bin it works on and belong to nobody else.
ObjsOK ==
    \A t \in Threads :
        /\ pc[t] \in {"idle", "extend_large", "punch_large"} => objs[t] = {}
        /\ \A o \in objs[t] : /\ o[1] = bin[t]
                             /\ o \notin live
                             /\ \A u \in Threads \ {t} : o \notin objs[u]

\* A small chunk of bin b that no object has been taken from.
Fresh(b, c) ==
    /\ c \in Chunk
    /\ c <= m_last_used_chunk_no
    /\ m_table[c].type = "small_chunk"
    /\ m_table[c].bin_no = b
    /\ m_table[c].slot_occupancy = {}

\* The chunk a thread has at hand: still its own while it waits for the chunk
\* mutex or the segment, in nobody's use while its pages are given back, and
\* not back in the same bin while it is still listed there.
ChunkOK ==
    \A t \in Threads :
        /\ pc[t] = "extend" /\ chunk[t] # MaxNumChunks =>
              Fresh(bin[t], chunk[t])
        /\ pc[t] = "extend" => m_non_full_chunk_bin[bin[t]] = <<>> /\ todo[t] > 0
        /\ pc[t] = "extend_large" /\ chunk[t] # MaxNumChunks =>
              /\ m_table[chunk[t]].type = "large_chunk_head"
              /\ m_table[chunk[t]].bin_no = bin[t]
              /\ <<bin[t], chunk[t], 0>> \notin Held
        /\ pc[t] = "erase" => Fresh(bin[t], chunk[t])
        /\ pc[t] \in {"punch", "punch_large"} =>
              \A d \in Extent(bin[t], chunk[t]) : d \in Chunk /\ unused_chunk(d)
        /\ pc[t] \in {"punch", "unlist"} =>
              /\ chunk[t] \in Chunk
              /\ ~(/\ m_table[chunk[t]].type = "small_chunk"
                   /\ m_table[chunk[t]].bin_no = bin[t])

\* A listed chunk is partly full, or its bin's owner is about to take from it
\* or to unlist it.
ListedFor(b, c, t) ==
    /\ m_bin_mutex[b] = t
    /\ \/ /\ pc[t] \in {"erase", "punch", "unlist"}
          /\ chunk[t] = c
       \/ /\ pc[t] = "alloc"
          /\ todo[t] > 0
          /\ m_non_full_chunk_bin[b] = <<c>>
          /\ Fresh(b, c)

ListsOK ==
    \A b \in SmallBins :
        /\ ListedOnce(b)
        /\ \A c \in Chunk : PartlyFull(b, c) => Listed(b, c)
        /\ \A c \in Chunk : Listed(b, c) =>
              PartlyFull(b, c) \/ \E t \in Threads : ListedFor(b, c, t)

\* Everything above holds at every step: directory, locks, objects and their
\* holders, chunks at hand and lists agree, whichever threads are where in
\* their calls.
AllocatorInv ==
    /\ TypeOK
    /\ DirectoryInv
    /\ LocksOK
    /\ ObjsOK
    /\ SlotsAccounted
    /\ ChunkOK
    /\ ListsOK
=============================================================================
