----------------------- MODULE SegmentAllocatorSteps ------------------------
(***************************************************************************)
(* What each step of the allocator does in a state that satisfies          *)
(* AllocatorInv: to the directory, to the lists and to the types.          *)
(* SegmentAllocatorProofs builds the allocator's theorems from these.      *)
(***************************************************************************)
EXTENDS SegmentAllocator, ChunkDirectoryProofs

\* The types of the variables, one by one.
LEMMA Types ==
    ASSUME AllocatorInv
    PROVE  /\ m_table \in [Chunk -> Entry]
           /\ m_last_used_chunk_no \in -1 .. MaxNumChunks - 1
           /\ m_non_full_chunk_bin \in [SmallBins -> Seq(Chunk)]
           /\ m_segment_size \in 0 .. Capacity
           /\ m_chunk_mutex \in Threads \cup {NoThread}
           /\ m_bin_mutex \in [SmallBins -> Threads \cup {NoThread}]
           /\ live \subseteq Bins \X Chunk \X Nat
           /\ pc \in [Threads -> PC]
           /\ bin \in [Threads -> Bins]
           /\ many \in [Threads -> BOOLEAN]
           /\ todo \in [Threads -> Nat]
           /\ objs \in [Threads -> SUBSET (Bins \X Chunk \X Nat)]
           /\ chunk \in [Threads -> 0 .. MaxNumChunks]
           /\ aborted \in BOOLEAN
BY Zenon DEF AllocatorInv, TypeOK, DirectoryTypeOK

\* An object held is a marked slot of a small chunk or a large chunk, and its
\* entry cannot be taken by an insertion.
LEMMA HeldEntry ==
    ASSUME AllocatorInv, NEW o \in Held
    PROVE  /\ o \in Bins \X Chunk \X Nat
           /\ o[1] \in Bins /\ o[2] \in Chunk /\ o[3] \in Nat
           /\ o = <<o[1], o[2], o[3]>>
           /\ m_table[o[2]].bin_no = o[1]
           /\ o[1] \in SmallBins => /\ m_table[o[2]].type = "small_chunk"
                                    /\ o[3] \in m_table[o[2]].slot_occupancy
           /\ o[1] \in LargeBins => /\ m_table[o[2]].type = "large_chunk_head"
                                    /\ o[3] = 0
           /\ o[2] <= m_last_used_chunk_no
           /\ ~Insertable(o[2])
<1>1. o \in Bins \X Chunk \X Nat
  BY Types DEF Held
<1>2. /\ o[1] \in Bins /\ o[2] \in Chunk /\ o[3] \in Nat
      /\ o = <<o[1], o[2], o[3]>>
  BY <1>1
<1>3. /\ m_table[o[2]].bin_no = o[1]
      /\ \/ /\ m_table[o[2]].type = "small_chunk"
            /\ o[3] \in m_table[o[2]].slot_occupancy
         \/ m_table[o[2]].type = "large_chunk_head" /\ o[3] = 0
  BY Zenon DEF AllocatorInv, SlotsAccounted
<1>4. CASE m_table[o[2]].type = "small_chunk" /\ o[3] \in m_table[o[2]].slot_occupancy
  <2>1. o[1] \in SmallBins /\ o[1] \notin LargeBins
    BY Zenon, <1>2, <1>3, <1>4, BinAssumption DEF AllocatorInv, DirectoryInv, CountExact
  <2>2. ~(o[2] > m_last_used_chunk_no)
    BY Zenon, <1>2, <1>4 DEF AllocatorInv, DirectoryInv, SizeCoversUse
  <2>3. o[2] <= m_last_used_chunk_no /\ ~Insertable(o[2])
    BY <1>2, <1>4, <2>2, Types, SizeAssumption DEF Insertable, unused_chunk, Chunk
  <2> QED BY Zenon, <1>1, <1>2, <1>3, <1>4, <2>1, <2>3
<1>5. CASE m_table[o[2]].type = "large_chunk_head" /\ o[3] = 0
  <2>1. o[1] \in LargeBins /\ o[1] \notin SmallBins
    BY Zenon, <1>2, <1>3, <1>5, BinAssumption DEF AllocatorInv, DirectoryInv, LargeRuns
  <2>2. ~(o[2] > m_last_used_chunk_no)
    BY Zenon, <1>2, <1>5 DEF AllocatorInv, DirectoryInv, SizeCoversUse
  <2>3. o[2] <= m_last_used_chunk_no /\ ~Insertable(o[2])
    BY <1>2, <1>5, <2>2, Types, SizeAssumption DEF Insertable, unused_chunk, Chunk
  <2> QED BY Zenon, <1>1, <1>2, <1>3, <1>5, <2>1, <2>3
<1> QED BY Zenon, <1>3, <1>4, <1>5

-----------------------------------------------------------------------------
(* What the allocation and deallocation loops do to one small chunk.       *)

\* The counter says whether a small chunk has objects; such a chunk lies below
\* size().
LEMMA CountTells ==
    ASSUME DirectoryInv, NEW c \in Chunk, m_table[c].type = "small_chunk"
    PROVE  /\ m_table[c].bin_no \in SmallBins
           /\ m_table[c].num_occupied_slots \in Nat
           /\ IsFiniteSet(m_table[c].slot_occupancy)
           /\ m_table[c].num_occupied_slots = Cardinality(m_table[c].slot_occupancy)
           /\ m_table[c].num_occupied_slots = 0 <=> m_table[c].slot_occupancy = {}
           /\ m_table[c].slot_occupancy # {} => c <= m_last_used_chunk_no
<1> DEFINE X == m_table[c].slot_occupancy
<1>1. /\ m_table[c].bin_no \in SmallBins
      /\ X \subseteq Slot(m_table[c].bin_no)
      /\ m_table[c].num_occupied_slots = Cardinality(X)
  BY Zenon DEF DirectoryInv, CountExact
<1>2. IsFiniteSet(X)
  BY Zenon, <1>1, SlotsFinite, FS_Subset
<1>3. Cardinality(X) \in Nat
  BY Zenon, <1>2, FS_CardinalityType
<1>4. Cardinality(X) = 0 <=> X = {}
  BY Zenon, <1>2, FS_EmptySet
<1>5. X # {} => ~(c > m_last_used_chunk_no)
  BY Zenon DEF DirectoryInv, SizeCoversUse
<1>6. m_last_used_chunk_no \in Int /\ c \in Int
  BY SizeAssumption DEF DirectoryInv, DirectoryTypeOK, Chunk
<1>7. X # {} => c <= m_last_used_chunk_no
  BY <1>5, <1>6
<1> QED BY Zenon, <1>1, <1>2, <1>3, <1>4, <1>7

\* The chunk at the front of the list has a free slot and is the thread's.
LEMMA HeadUsable ==
    ASSUME AllocatorInv, NEW t \in Threads, pc[t] = "alloc",
           m_non_full_chunk_bin[bin[t]] # <<>>
    PROVE  LET c == Head(m_non_full_chunk_bin[bin[t]])
           IN  /\ bin[t] \in SmallBins
               /\ c \in Chunk
               /\ c <= m_last_used_chunk_no
               /\ IsSmall(c)
               /\ m_table[c].bin_no = bin[t]
               /\ m_table[c].num_occupied_slots < slots(c)
               /\ 1 \in DOMAIN m_non_full_chunk_bin[bin[t]]
               /\ c = m_non_full_chunk_bin[bin[t]][1]
               /\ slots(c) = NumSlots[bin[t]]
<1> DEFINE b == bin[t]
           q == m_non_full_chunk_bin[b]
           c == q[1]
<1>1. b \in SmallBins /\ m_bin_mutex[b] = t
  BY ZenonT(60) DEF AllocatorInv, LocksOK, HoldsBinMutex
<1>2. q \in Seq(Chunk) /\ q # <<>>
  BY Zenon, <1>1, Types
<1>3. /\ Head(q) = q[1] /\ 1 \in DOMAIN q /\ c \in Chunk
  BY <1>2
<1>4. Listed(b, c)
  BY Zenon, <1>3 DEF Listed
<1>5. PartlyFull(b, c) \/ \E u \in Threads : ListedFor(b, c, u)
  BY Zenon, <1>1, <1>3, <1>4 DEF AllocatorInv, ListsOK
<1>6. NumSlots[b] \in Nat \ {0, 1}
  BY Zenon, <1>1, BinAssumption
<1>7. CASE PartlyFull(b, c)
  <2>1. /\ m_table[c].type = "small_chunk" /\ m_table[c].bin_no = b
        /\ m_table[c].num_occupied_slots \in 1 .. NumSlots[b] - 1
    BY Zenon, <1>7 DEF PartlyFull
  <2>2. m_table[c].slot_occupancy # {}
    BY <2>1, <1>3, <1>6, CountTells DEF AllocatorInv
  <2>3. c <= m_last_used_chunk_no
    BY Zenon, <2>1, <2>2, <1>3, CountTells DEF AllocatorInv
  <2>4. m_table[c].num_occupied_slots < NumSlots[b]
    BY <1>6, <2>1
  <2> QED BY Zenon, <1>1, <1>3, <2>1, <2>3, <2>4 DEF IsSmall, slots
<1>8. CASE \E u \in Threads : ListedFor(b, c, u)
  <2>1. Fresh(b, c)
    BY Zenon, <1>1, <1>8 DEF ListedFor
  <2>2. m_table[c].num_occupied_slots = 0
    BY Zenon, <2>1, <1>3, CountTells DEF Fresh, AllocatorInv
  <2>3. /\ c <= m_last_used_chunk_no /\ m_table[c].type = "small_chunk"
        /\ m_table[c].bin_no = b
    BY Zenon, <2>1 DEF Fresh
  <2>4. m_table[c].num_occupied_slots < NumSlots[b]
    BY <1>6, <2>2
  <2> QED BY Zenon, <1>1, <1>3, <2>3, <2>4 DEF IsSmall, slots
<1> QED BY Zenon, <1>5, <1>7, <1>8

-----------------------------------------------------------------------------
(* What the directory's calls do to the entries.                           *)

\* An insertion for a small bin leaves the entries in use alone and turns at
\* most one other entry into an empty chunk of the bin.
LEMMA InsertSmallEffect ==
    ASSUME DirectoryInv, NEW b \in SmallBins, NEW c \in 0 .. MaxNumChunks,
           InsertSmall(b, c) \/ InsertSmallNoMemory(b, c)
    PROVE  /\ \A d \in Chunk : ~Insertable(d) => m_table'[d] = m_table[d]
           /\ \A d \in Chunk : \/ m_table'[d] = m_table[d]
                               \/ /\ m_table'[d].type = "small_chunk"
                                  /\ m_table'[d].bin_no = b
                                  /\ m_table'[d].slot_occupancy = {}
           /\ m_last_used_chunk_no' \in Int
           /\ m_last_used_chunk_no <= m_last_used_chunk_no'
           /\ c # MaxNumChunks => Fresh(b, c)'
<1>1. /\ m_table \in [Chunk -> Entry]
      /\ m_last_used_chunk_no \in Int
      /\ \A d \in Chunk : d \in Int
      /\ MaxNumChunks \notin Chunk
      /\ c # MaxNumChunks => c \in Chunk
  BY SizeAssumption DEF DirectoryInv, DirectoryTypeOK, Chunk
<1>2. CASE c \in Chunk /\ Insertable(c) /\ m_table' = [m_table EXCEPT ![c] = SmallEntry(b)]
              /\ m_last_used_chunk_no' = Later(c, m_last_used_chunk_no)
  <2>1. /\ m_table'[c].type = "small_chunk"
        /\ m_table'[c].bin_no = b
        /\ m_table'[c].slot_occupancy = {}
        /\ \A d \in Chunk : d # c => m_table'[d] = m_table[d]
    BY Zenon, <1>1, <1>2 DEF SmallEntry
  <2>2. /\ m_last_used_chunk_no' \in Int
        /\ m_last_used_chunk_no <= m_last_used_chunk_no'
        /\ c <= m_last_used_chunk_no'
    BY <1>1, <1>2 DEF Later
  <2> QED BY Zenon, <1>2, <2>1, <2>2 DEF Fresh, Chunk
<1>3. CASE c = MaxNumChunks /\ UNCHANGED directoryVars
  BY <1>1, <1>3 DEF directoryVars
<1>4. CASE InsertSmallNoMemory(b, c)
  <2>1. PICK d \in Chunk : /\ Insertable(d)
                           /\ m_table' = [m_table EXCEPT ![d] = SmallEntry(b)]
    BY Zenon, <1>4 DEF InsertSmallNoMemory
  <2>2. /\ m_table'[d].type = "small_chunk"
        /\ m_table'[d].bin_no = b
        /\ m_table'[d].slot_occupancy = {}
        /\ \A e \in Chunk : e # d => m_table'[e] = m_table[e]
    BY Zenon, <1>1, <2>1 DEF SmallEntry
  <2>3. c = MaxNumChunks /\ m_last_used_chunk_no' = m_last_used_chunk_no
    BY Zenon, <1>4 DEF InsertSmallNoMemory
  <2> QED BY <1>1, <2>1, <2>2, <2>3
<1> QED BY Zenon, <1>2, <1>3, <1>4 DEF InsertSmall

\* An insertion for a large bin leaves the entries in use alone; the entries it
\* changes are not small chunks afterwards.
LEMMA InsertLargeEffect ==
    ASSUME DirectoryInv, NEW b \in LargeBins, NEW c \in 0 .. MaxNumChunks,
           InsertLarge(b, c)
    PROVE  /\ \A d \in Chunk : ~Insertable(d) => m_table'[d] = m_table[d]
           /\ \A d \in Chunk : \/ m_table'[d] = m_table[d]
                               \/ m_table'[d].type # "small_chunk"
           /\ m_last_used_chunk_no' \in Int
           /\ m_last_used_chunk_no <= m_last_used_chunk_no'
           /\ c # MaxNumChunks => /\ Insertable(c)
                                  /\ m_table'[c].type = "large_chunk_head"
                                  /\ m_table'[c].bin_no = b
<1>1. /\ m_table \in [Chunk -> Entry]
      /\ m_last_used_chunk_no \in Int
      /\ \A d \in Chunk : d \in Int
      /\ MaxNumChunks \notin Chunk
      /\ c # MaxNumChunks => c \in Chunk
      /\ NumChunks[b] \in Nat \ {0}
      /\ b \notin SmallBins
  BY SizeAssumption, BinAssumption DEF DirectoryInv, DirectoryTypeOK, Chunk
<1>2. CASE /\ c \in Chunk
           /\ LargeFits(b, c)
           /\ m_table' = [d \in Chunk |-> IF d \in Extent(b, c)
                                   THEN LargeEntry(b, c, d) ELSE m_table[d]]
           /\ m_last_used_chunk_no' =
                 Later(c + NumChunks[b] - 1, m_last_used_chunk_no)
  <2>1. \A d \in Extent(b, c) : Insertable(d)
    BY Zenon, <1>2 DEF LargeFits
  <2>2. \A d \in Chunk :
           /\ LargeEntry(b, c, d).type =
                 IF d = c THEN "large_chunk_head" ELSE "large_chunk_body"
           /\ LargeEntry(b, c, d).bin_no = b
    <3> TAKE d \in Chunk
    <3> DEFINE e == IF d > m_last_used_chunk_no THEN InitEntry(m_table[d])
                                                ELSE m_table[d]
    <3>1. e \in Entry
      BY Zenon, <1>1, InitEntryFields
    <3>2. LargeEntry(b, c, d) =
            [e EXCEPT !.bin_no = b, !.type = IF d = c THEN "large_chunk_head"
                                                     ELSE "large_chunk_body"]
      BY Zenon DEF LargeEntry
    <3> HIDE DEF e
    <3> QED BY Zenon, <3>1, <3>2 DEF Entry
  <2>3. c \in Extent(b, c)
    BY <1>1, <1>2 DEF Extent
  <2>4. \A d \in Chunk : \/ d \in Extent(b, c) /\ m_table'[d] = LargeEntry(b, c, d)
                         \/ d \notin Extent(b, c) /\ m_table'[d] = m_table[d]
    BY Zenon, <1>2
  <2>5. /\ m_last_used_chunk_no' \in Int
        /\ m_last_used_chunk_no <= m_last_used_chunk_no'
    BY <1>1, <1>2 DEF Later
  <2>6. /\ \A d \in Chunk : ~Insertable(d) => m_table'[d] = m_table[d]
        /\ \A d \in Chunk : \/ m_table'[d] = m_table[d]
                            \/ m_table'[d].type # "small_chunk"
    BY Zenon, <2>1, <2>2, <2>4
  <2>7. /\ Insertable(c)
        /\ m_table'[c].type = "large_chunk_head"
        /\ m_table'[c].bin_no = b
    BY Zenon, <1>2, <2>1, <2>2, <2>3, <2>4
  <2> QED BY Zenon, <2>5, <2>6, <2>7
<1>3. CASE /\ c = MaxNumChunks
           /\ m_table' = [d \in Chunk |-> IF d > m_last_used_chunk_no
                                  THEN InitEntry(m_table[d]) ELSE m_table[d]]
           /\ m_last_used_chunk_no' = m_last_used_chunk_no
  <2>1. \A d \in Chunk : InitEntry(m_table[d]).type = "unused"
    BY Zenon, <1>1, InitEntryFields
  <2> QED BY <1>1, <1>3, <2>1 DEF Insertable
<1> QED BY Zenon, <1>2, <1>3 DEF InsertLarge

\* erase() leaves the entries outside the object alone, and size() still
\* covers the ones in use.
LEMMA EraseLeaves ==
    ASSUME DirectoryInv, NEW c \in Chunk, Erase(c),
           m_table[c].type \in {"small_chunk", "large_chunk_head"}
    PROVE  LET X == Extent(m_table[c].bin_no, c)
           IN  /\ c \in X /\ X \subseteq Chunk
               /\ \A d \in X : m_table'[d].type = "unused"
               /\ \A d \in Chunk : d \notin X => m_table'[d] = m_table[d]
               /\ m_last_used_chunk_no' \in Int
               /\ \A d \in Chunk : d \notin X /\ d <= m_last_used_chunk_no
                                     /\ ~unused_chunk(d)
                                   => d <= m_last_used_chunk_no'
<1> DEFINE X == Extent(m_table[c].bin_no, c)
           last == m_last_used_chunk_no
<1>1. /\ c \in X /\ X \subseteq Chunk
      /\ \A d \in X : m_table'[d].type = "unused"
      /\ \A d \in Chunk : d \notin X => m_table'[d] = m_table[d]
  BY Zenon, EraseEffect
<1>2. last \in Int /\ \A d \in Chunk : d \in Int
  BY SizeAssumption DEF DirectoryInv, DirectoryTypeOK, Chunk
<1>3. CASE m_last_used_chunk_no' = last
  BY Zenon, <1>1, <1>2, <1>3
<1>4. CASE \E l \in -1 .. last : IsNextUsedBackward(last, l) /\ m_last_used_chunk_no' = l
  <2>1. PICK l \in -1 .. last : IsNextUsedBackward(last, l) /\ m_last_used_chunk_no' = l
    BY Zenon, <1>4
  <2>2. ASSUME NEW d \in Chunk, d \notin X, d <= last, ~unused_chunk(d)
        PROVE  d <= l
    <3>1. m_table'[d].type # "unused"
      BY Zenon, <1>1, <2>2 DEF unused_chunk
    <3>2. d \in l + 1 .. last => m_table'[d].type = "unused"
      BY Zenon, <2>1 DEF IsNextUsedBackward
    <3> QED BY <1>2, <2>1, <2>2, <3>1, <3>2
  <2> QED BY <1>1, <1>2, <2>1, <2>2
<1>5. ~unused_chunk(c)
  BY Zenon DEF unused_chunk
<1> QED BY Zenon, <1>3, <1>4, <1>5 DEF Erase

-----------------------------------------------------------------------------
(* The steps that call the directory.                                      *)

\* The objects held, element by element.
LEMMA HeldIs ==
    /\ \A o : o \in Held <=> o \in live \/ \E u \in Threads : o \in objs[u]
    /\ \A o : o \in Held' <=> o \in live' \/ \E u \in Threads : o \in objs'[u]
BY Zenon DEF Held

\* Where a thread's bin is small and the mutex it holds.
LEMMA OwnsBin ==
    ASSUME AllocatorInv, NEW t \in Threads, pc[t] \in HoldsBinMutex
    PROVE  /\ bin[t] \in SmallBins
           /\ m_bin_mutex[bin[t]] = t
           /\ \A u \in Threads : u # t /\ pc[u] \in HoldsBinMutex => bin[u] # bin[t]
BY DEF AllocatorInv, LocksOK

\* A turn of the allocation loop marks at least one and at most todo[t] free
\* slots of the chunk at the front of the bin's list.
Takes(t, c, S) ==
    /\ bin[t] \in SmallBins
    /\ 1 \in DOMAIN m_non_full_chunk_bin[bin[t]]
    /\ c = m_non_full_chunk_bin[bin[t]][1]
    /\ c <= m_last_used_chunk_no
    /\ IsSmall(c)
    /\ m_table[c].bin_no = bin[t]
    /\ m_table[c].num_occupied_slots < NumSlots[bin[t]]
    /\ IsFiniteSet(S) /\ S # {} /\ Cardinality(S) \in 1 .. todo[t]
    /\ LowestFree(c, Cardinality(S), S)
    /\ MarkSlots(c, S)
    /\ SlotChange(c, m_table[c].slot_occupancy \cup S)
    /\ m_table'[c].num_occupied_slots
          = m_table[c].num_occupied_slots + Cardinality(S)
    /\ IF m_table'[c].num_occupied_slots = NumSlots[bin[t]]
       THEN BinPop(bin[t])
       ELSE UNCHANGED m_non_full_chunk_bin
    /\ objs' = [objs EXCEPT ![t] = @ \cup {<<bin[t], c, s>> : s \in S}]
    /\ todo' = [todo EXCEPT ![t] = @ - Cardinality(S)]

\* A turn of the allocation loop marks slots of one chunk in that way.
LEMMA TakeEffect ==
    ASSUME AllocatorInv, NEW t \in Threads, AllocateFromChunk(t)
    PROVE  \E c \in Chunk : \E S \in SUBSET FreeSlots(c) : Takes(t, c, S)
<1> DEFINE q == m_non_full_chunk_bin[bin[t]]
           c == Head(q)
           n == IF many[t]
                THEN Smaller(todo[t], slots(c) - m_table[c].num_occupied_slots)
                ELSE 1
<1>1. pc[t] = "alloc" /\ todo[t] > 0 /\ q # <<>>
  BY Zenon DEF AllocateFromChunk
<1>2. PICK S \in SUBSET FreeSlots(c) :
         /\ LowestFree(c, n, S)
         /\ MarkAndPop(t, c, S)
         /\ objs' = [objs EXCEPT ![t] = @ \cup {<<bin[t], c, s>> : s \in S}]
         /\ todo' = [todo EXCEPT ![t] = @ - n]
  BY Zenon DEF AllocateFromChunk
<1>3. /\ bin[t] \in SmallBins
      /\ c \in Chunk
      /\ c <= m_last_used_chunk_no
      /\ IsSmall(c)
      /\ m_table[c].bin_no = bin[t]
      /\ m_table[c].num_occupied_slots < slots(c)
      /\ 1 \in DOMAIN q
      /\ c = q[1]
      /\ slots(c) = NumSlots[bin[t]]
  BY Zenon, <1>1, HeadUsable
<1>4. m_table[c].num_occupied_slots \in Nat /\ NumSlots[bin[t]] \in Nat /\ todo[t] \in Nat
  BY Zenon, <1>3, CountTells, BinAssumption, Types DEF AllocatorInv, IsSmall
<1>5. n \in 1 .. todo[t]
  BY <1>1, <1>3, <1>4 DEF Smaller
<1> HIDE DEF n
<1>6. Cardinality(S) = n /\ IsFiniteSet(S)
  BY Zenon, <1>2 DEF LowestFree
<1>7. S # {}
  BY <1>5, <1>6, FS_EmptySet
<1>8. MarkSlots(c, S)
  BY Zenon, <1>2 DEF MarkAndPop
<1>9. /\ SlotChange(c, m_table[c].slot_occupancy \cup S)
      /\ m_table'[c].num_occupied_slots
            = m_table[c].num_occupied_slots + Cardinality(S)
  BY Zenon, <1>3, <1>6, <1>8, MarkEffect DEF AllocatorInv
<1>10. IF m_table'[c].num_occupied_slots = NumSlots[bin[t]]
       THEN BinPop(bin[t])
       ELSE UNCHANGED m_non_full_chunk_bin
  BY Zenon, <1>2, <1>3 DEF MarkAndPop
<1> HIDE DEF c
<1>11. LowestFree(c, Cardinality(S), S)
  BY Zenon, <1>2, <1>6
<1> QED BY Zenon, <1>2, <1>3, <1>5, <1>6, <1>7, <1>8, <1>9, <1>10, <1>11 DEF Takes

\* A turn of the deallocation loop unmarks the slot of one of the thread's
\* objects, and lists or empties its chunk when the counter says so.
Frees(t, o, c, s) ==
    /\ bin[t] \in SmallBins
    /\ o = <<bin[t], c, s>> /\ o \in Held
    /\ s \in m_table[c].slot_occupancy
    /\ c <= m_last_used_chunk_no
    /\ IsSmall(c)
    /\ m_table[c].bin_no = bin[t]
    /\ m_table[c].num_occupied_slots \in 1 .. NumSlots[bin[t]]
    /\ unmark_slot(c, s)
    /\ SlotChange(c, m_table[c].slot_occupancy \ {s})
    /\ m_table'[c].num_occupied_slots = m_table[c].num_occupied_slots - 1
    /\ objs' = [objs EXCEPT ![t] = @ \ {o}]
    /\ chunk' = [chunk EXCEPT ![t] = c]
    /\ \/ /\ m_table[c].num_occupied_slots = NumSlots[bin[t]]
          /\ BinInsert(bin[t], c) /\ UNCHANGED pc
       \/ /\ m_table[c].num_occupied_slots = 1
          /\ UNCHANGED m_non_full_chunk_bin /\ Goto(t, "erase")
       \/ /\ m_table[c].num_occupied_slots \in 2 .. NumSlots[bin[t]] - 1
          /\ UNCHANGED <<m_non_full_chunk_bin, pc>>

\* Freeing a slot unmarks the slot of one object in that way.
LEMMA FreeEffect ==
    ASSUME AllocatorInv, NEW t \in Threads, FreeSlot(t)
    PROVE  \E o \in objs[t], c \in Chunk, s \in Nat : Frees(t, o, c, s)
<1>1. PICK o \in objs[t] :
         /\ unmark_slot(o[2], o[3])
         /\ objs' = [objs EXCEPT ![t] = @ \ {o}]
         /\ chunk' = [chunk EXCEPT ![t] = o[2]]
         /\ IF all_slots_marked(o[2])
            THEN BinInsert(bin[t], o[2]) /\ UNCHANGED pc
            ELSE /\ UNCHANGED m_non_full_chunk_bin
                 /\ IF m_table'[o[2]].num_occupied_slots = 0
                    THEN Goto(t, "erase")
                    ELSE UNCHANGED pc
  BY Zenon DEF FreeSlot
<1> DEFINE c == o[2]
           s == o[3]
           n == m_table[c].num_occupied_slots
           b == bin[t]
<1>2. o \in Held
  BY Zenon, HeldIs
<1>3. b \in SmallBins /\ o[1] = b
  BY Zenon, OwnsBin DEF FreeSlot, HoldsBinMutex, AllocatorInv, ObjsOK
<1>4. /\ o = <<b, c, s>> /\ c \in Chunk
      /\ m_table[c].bin_no = b
      /\ m_table[c].type = "small_chunk"
      /\ s \in m_table[c].slot_occupancy
      /\ c <= m_last_used_chunk_no
  BY Zenon, <1>2, <1>3, HeldEntry
<1>5. /\ IsFiniteSet(m_table[c].slot_occupancy)
      /\ n = Cardinality(m_table[c].slot_occupancy)
      /\ n \in Nat /\ n # 0
  BY Zenon, <1>4, CountTells DEF AllocatorInv
<1>6. NumSlots[b] \in Nat \ {0, 1}
  BY Zenon, <1>3, BinAssumption
<1>7. n <= NumSlots[b]
  <2>1. m_table[c].slot_occupancy \subseteq Slot(b)
    BY Zenon, <1>4 DEF AllocatorInv, DirectoryInv, CountExact
  <2> QED BY <1>3, <1>5, <2>1, SlotsFinite, FS_Subset
<1>8. IsSmall(c)
  BY Zenon, <1>4 DEF IsSmall
<1>9. /\ SlotChange(c, m_table[c].slot_occupancy \ {s})
      /\ m_table'[c].num_occupied_slots = n - 1
  BY Zenon, <1>1, <1>4, <1>8, UnmarkEffect DEF AllocatorInv
<1>10. all_slots_marked(c) <=> n = NumSlots[b]
  BY Zenon, <1>4 DEF all_slots_marked, slots
<1>11. \/ /\ n = NumSlots[b]
          /\ BinInsert(b, c) /\ UNCHANGED pc
       \/ /\ n = 1
          /\ UNCHANGED m_non_full_chunk_bin /\ Goto(t, "erase")
       \/ /\ n \in 2 .. NumSlots[b] - 1
          /\ UNCHANGED <<m_non_full_chunk_bin, pc>>
  <2> HIDE DEF n
  <2>1. CASE n = NumSlots[b]
    BY Zenon, <1>1, <1>10, <2>1
  <2>2. CASE n # NumSlots[b] /\ n = 1
    BY <1>1, <1>9, <1>10, <2>2
  <2>3. CASE n # NumSlots[b] /\ n # 1
    <3>1. n \in 2 .. NumSlots[b] - 1 /\ n - 1 # 0
      BY <1>5, <1>6, <1>7, <2>3
    <3> QED BY Zenon, <1>1, <1>9, <1>10, <2>3, <3>1
  <2> QED BY Zenon, <2>1, <2>2, <2>3
<1>12. n \in 1 .. NumSlots[b]
  BY <1>5, <1>6, <1>7
<1>13. s \in Nat
  BY Zenon, <1>2, HeldEntry
<1> HIDE DEF c, s
<1> QED BY Zenon, <1>1, <1>2, <1>3, <1>4, <1>8, <1>9, <1>11, <1>12, <1>13 DEF Frees

\* A chunk that holds a large object lies below size().
LEMMA HeadCovered ==
    ASSUME DirectoryInv, NEW c \in Chunk, m_table[c].type = "large_chunk_head"
    PROVE  c <= m_last_used_chunk_no
<1>1. ~(c > m_last_used_chunk_no)
  BY Zenon DEF DirectoryInv, SizeCoversUse
<1> QED BY <1>1, SizeAssumption DEF DirectoryInv, DirectoryTypeOK, Chunk

\* The chunk freed with a small object's last slot, with a large object or
\* after a failed extension is the first chunk of an allocation.
Erases(t, c) ==
    /\ Erase(c)
    /\ c <= m_last_used_chunk_no
    /\ m_table[c].bin_no = bin[t]
    /\ \/ /\ EraseChunk(t) /\ Fresh(bin[t], c)
          /\ c = chunk[t] /\ chunk'[t] = c
          /\ bin[t] \in SmallBins
          /\ m_table[c].type = "small_chunk"
       \/ /\ EraseLarge(t) /\ bin[t] \in LargeBins /\ chunk'[t] = c
          /\ <<bin[t], c, 0>> \in objs[t]
          /\ m_table[c].type = "large_chunk_head"
       \/ /\ FailLarge(t) /\ bin[t] \in LargeBins
          /\ <<bin[t], c, 0>> \notin Held /\ c = chunk[t]
          /\ m_table[c].type = "large_chunk_head"

\* What a thread erases is a chunk of its own that holds no object of others.
LEMMA EraseTarget ==
    ASSUME AllocatorInv, NEW t \in Threads,
           EraseChunk(t) \/ EraseLarge(t) \/ (FailLarge(t) /\ chunk[t] \in Chunk)
    PROVE  \E c \in Chunk : Erases(t, c)
<1>1. CASE EraseChunk(t)
  <2>1. Fresh(bin[t], chunk[t]) /\ bin[t] \in SmallBins
    BY Zenon, <1>1, OwnsBin DEF EraseChunk, AllocatorInv, ChunkOK, HoldsBinMutex
  <2> QED BY Zenon, <1>1, <2>1, Types DEF EraseChunk, Fresh, locals, Erases
<1>2. CASE EraseLarge(t)
  <2>1. PICK o \in objs[t] : Erase(o[2]) /\ chunk' = [chunk EXCEPT ![t] = o[2]]
    BY Zenon, <1>2 DEF EraseLarge
  <2>2. o \in Held /\ bin[t] \in LargeBins /\ o[1] = bin[t]
    BY ZenonT(60), <1>2, HeldIs DEF EraseLarge, AllocatorInv, LocksOK, ObjsOK, WorksOnLarge
  <2>3. /\ o[2] \in Chunk /\ o[2] <= m_last_used_chunk_no
        /\ o = <<bin[t], o[2], 0>>
        /\ m_table[o[2]].bin_no = bin[t]
        /\ m_table[o[2]].type = "large_chunk_head"
    BY Zenon, <2>2, HeldEntry
  <2> QED BY Zenon, <1>2, <2>1, <2>2, <2>3, Types DEF Erases
<1>3. CASE FailLarge(t) /\ chunk[t] \in Chunk
  <2>1. chunk[t] # MaxNumChunks
    BY <1>3, SizeAssumption DEF Chunk
  <2>2. /\ m_table[chunk[t]].type = "large_chunk_head"
        /\ m_table[chunk[t]].bin_no = bin[t]
        /\ <<bin[t], chunk[t], 0>> \notin Held
        /\ bin[t] \in LargeBins
    BY Zenon, <1>3, <2>1 DEF FailLarge, AllocatorInv, ChunkOK, LocksOK, WorksOnLarge
  <2>3. chunk[t] <= m_last_used_chunk_no
    BY Zenon, <1>3, <2>2, HeadCovered DEF AllocatorInv
  <2> QED BY Zenon, <1>3, <2>1, <2>2, <2>3 DEF FailLarge, Erases
<1> QED BY Zenon, <1>1, <1>2, <1>3

\* Which steps of a thread change what: the directory, the lists, the size of
\* the segment, the objects held; and which run under the mutex of a bin.
LEMMA StepKinds ==
    ASSUME NEW t \in Threads, Call(t) \/ Continue(t)
    PROVE  /\ \/ AllocateFromChunk(t) \/ FreeSlot(t) \/ InsertNewChunk(t)
              \/ \E b \in LargeBins : AllocateLarge(t, b)
              \/ EraseChunk(t) \/ EraseLarge(t) \/ FailLarge(t)
              \/ UNCHANGED directoryVars
           /\ \/ AllocateFromChunk(t) \/ ListNewChunk(t) \/ FreeSlot(t)
              \/ UnlistChunk(t)
              \/ UNCHANGED m_non_full_chunk_bin
           /\ \/ ListNewChunk(t) \/ FailNewChunk(t) \/ ReturnLarge(t)
              \/ FailLarge(t)
              \/ UNCHANGED m_segment_size
           /\ \/ AllocateFromChunk(t) \/ FreeSlot(t) \/ ReturnLarge(t)
              \/ EraseLarge(t)
              \/ \E b \in SmallBins, n \in BatchSizes : AllocateSmall(t, b, n)
              \/ \E o \in live : Deallocate(t, o)
              \/ \E b \in SmallBins, S \in SUBSET live : DeallocateMany(t, b, S)
              \/ ReturnSmall(t) \/ FailLarge(t) \/ ReturnFree(t) \/ FreeLarge(t)
              \/ UNCHANGED <<live, objs>>
           /\ \/ AllocateFromChunk(t) \/ InsertNewChunk(t) \/ ListNewChunk(t)
              \/ FailNewChunk(t) \/ ReturnSmall(t) \/ FreeSlot(t)
              \/ EraseChunk(t) \/ FreeChunk(t) \/ UnlistChunk(t) \/ ReturnFree(t)
              \/ pc[t] \notin HoldsBinMutex
<1>1. \A b \in SmallBins, n \in BatchSizes : AllocateSmall(t, b, n) =>
         UNCHANGED directoryVars /\ UNCHANGED m_non_full_chunk_bin /\ UNCHANGED m_segment_size /\ pc[t] \notin HoldsBinMutex
  BY Zenon DEF AllocateSmall, HoldsBinMutex
<1>2. \A b \in LargeBins : AllocateLarge(t, b) =>
         UNCHANGED m_non_full_chunk_bin /\ UNCHANGED m_segment_size /\ UNCHANGED <<live, objs>> /\ pc[t] \notin HoldsBinMutex
  BY Zenon DEF AllocateLarge, HoldsBinMutex
<1>3. \A o \in live : Deallocate(t, o) =>
         UNCHANGED directoryVars /\ UNCHANGED m_non_full_chunk_bin /\ UNCHANGED m_segment_size /\ pc[t] \notin HoldsBinMutex
  BY Zenon DEF Deallocate, HoldsBinMutex
<1>4. \A b \in SmallBins, S \in SUBSET live : DeallocateMany(t, b, S) =>
         UNCHANGED directoryVars /\ UNCHANGED m_non_full_chunk_bin /\ UNCHANGED m_segment_size /\ pc[t] \notin HoldsBinMutex
  BY Zenon DEF DeallocateMany, HoldsBinMutex
<1>5. AllocateFromChunk(t) =>
         UNCHANGED m_segment_size
  BY Zenon DEF AllocateFromChunk
<1>6. InsertNewChunk(t) =>
         UNCHANGED m_non_full_chunk_bin /\ UNCHANGED m_segment_size /\ UNCHANGED <<live, objs>>
  BY Zenon DEF InsertNewChunk
<1>7. ListNewChunk(t) =>
         UNCHANGED directoryVars /\ UNCHANGED <<live, objs>>
  BY Zenon DEF ListNewChunk, locals
<1>8. FailNewChunk(t) =>
         UNCHANGED directoryVars /\ UNCHANGED m_non_full_chunk_bin /\ UNCHANGED <<live, objs>>
  BY Zenon DEF FailNewChunk, locals
<1>9. ReturnSmall(t) =>
         UNCHANGED directoryVars /\ UNCHANGED m_non_full_chunk_bin /\ UNCHANGED m_segment_size
  BY Zenon DEF ReturnSmall
<1>10. ReturnLarge(t) =>
         UNCHANGED directoryVars /\ UNCHANGED m_non_full_chunk_bin /\ pc[t] \notin HoldsBinMutex
  BY Zenon DEF ReturnLarge, HoldsBinMutex
<1>11. FailLarge(t) =>
         UNCHANGED m_non_full_chunk_bin /\ pc[t] \notin HoldsBinMutex
  BY Zenon DEF FailLarge, HoldsBinMutex
<1>12. LockForFree(t) =>
         UNCHANGED directoryVars /\ UNCHANGED m_non_full_chunk_bin /\ UNCHANGED m_segment_size /\ UNCHANGED <<live, objs>> /\ pc[t] \notin HoldsBinMutex
  BY Zenon DEF LockForFree, HoldsBinMutex, locals
<1>13. FreeSlot(t) =>
         UNCHANGED m_segment_size
  BY Zenon DEF FreeSlot
<1>14. EraseChunk(t) =>
         UNCHANGED m_non_full_chunk_bin /\ UNCHANGED m_segment_size /\ UNCHANGED <<live, objs>>
  BY Zenon DEF EraseChunk, locals
<1>15. FreeChunk(t) =>
         UNCHANGED directoryVars /\ UNCHANGED m_non_full_chunk_bin /\ UNCHANGED m_segment_size /\ UNCHANGED <<live, objs>>
  BY Zenon DEF FreeChunk, locals
<1>16. UnlistChunk(t) =>
         UNCHANGED directoryVars /\ UNCHANGED m_segment_size /\ UNCHANGED <<live, objs>>
  BY ZenonT(60) DEF UnlistChunk, locals
<1>17. ReturnFree(t) =>
         UNCHANGED directoryVars /\ UNCHANGED m_non_full_chunk_bin /\ UNCHANGED m_segment_size
  BY ZenonT(60) DEF ReturnFree
<1>18. EraseLarge(t) =>
         UNCHANGED m_non_full_chunk_bin /\ UNCHANGED m_segment_size /\ pc[t] \notin HoldsBinMutex
  BY Zenon DEF EraseLarge, HoldsBinMutex
<1>19. FreeLarge(t) =>
         UNCHANGED directoryVars /\ UNCHANGED m_non_full_chunk_bin /\ UNCHANGED m_segment_size /\ pc[t] \notin HoldsBinMutex
  BY Zenon DEF FreeLarge, HoldsBinMutex
<1> QED
  BY Zenon, <1>1, <1>2, <1>3, <1>4, <1>5, <1>6, <1>7, <1>8, <1>9, <1>10,
     <1>11, <1>12, <1>13, <1>14, <1>15, <1>16, <1>17, <1>18, <1>19 DEF Call, Continue

\* Every step of the threads is a call of the directory that its asserts
\* allow, or does not touch it.
LEMMA StepUsesDirectory ==
    ASSUME AllocatorInv, NEW t \in Threads, Call(t) \/ Continue(t)
    PROVE  [DirectoryNext]_directoryVars
<1>0. \A c \in Chunk : c <= m_last_used_chunk_no => c \in 0 .. m_last_used_chunk_no
  BY Types, SizeAssumption DEF Chunk
<1>1. CASE AllocateFromChunk(t)
  <2>1. PICK c \in Chunk : \E S \in SUBSET FreeSlots(c) : Takes(t, c, S)
    BY Zenon, <1>1, TakeEffect
  <2>2. PICK S \in SUBSET FreeSlots(c) : Takes(t, c, S)
    BY Zenon, <2>1 
  <2>3. CallMark
    BY Zenon, <1>0, <2>2 DEF CallMark, slots, Takes
  <2> QED BY Zenon, <2>3 DEF DirectoryNext
<1>2. CASE FreeSlot(t)
  <2>1. PICK o \in objs[t], c \in Chunk, s \in Nat : Frees(t, o, c, s)
    BY Zenon, <1>2, FreeEffect 
  <2>2. m_table[c].num_occupied_slots > 0
    BY <2>1 DEF Frees
  <2>3. CallUnmark
    BY Zenon, <1>0, <2>1, <2>2 DEF CallUnmark, Frees
  <2> QED BY Zenon, <2>3 DEF DirectoryNext
<1>3. CASE InsertNewChunk(t)
  <2>1. bin[t] \in SmallBins
    BY Zenon, <1>3, OwnsBin DEF InsertNewChunk, HoldsBinMutex
  <2>2. CallInsertSmall
    BY Zenon, <1>3, <2>1 DEF InsertNewChunk, CallInsertSmall
  <2> QED BY Zenon, <2>2 DEF DirectoryNext
<1>4. CASE \E b \in LargeBins : AllocateLarge(t, b)
  BY Zenon, <1>4 DEF AllocateLarge, DirectoryNext, CallInsertLarge
<1>5. CASE EraseChunk(t) \/ EraseLarge(t) \/ (FailLarge(t) /\ chunk[t] \in Chunk)
  <2>1. PICK c \in Chunk : Erases(t, c)
    BY Zenon, <1>5, EraseTarget
  <2>2. CallErase
    BY Zenon, <1>0, <2>1 DEF CallErase, Erases
  <2> QED BY Zenon, <2>2 DEF DirectoryNext
<1>6. CASE FailLarge(t) /\ chunk[t] \notin Chunk
  BY Zenon, <1>6 DEF FailLarge
<1>7. CASE UNCHANGED directoryVars
  BY Zenon, <1>7
<1> QED BY ZenonT(60), <1>1, <1>2, <1>3, <1>4, <1>5, <1>6, <1>7, StepKinds

\* So the directory keeps its invariant whatever the threads do.
LEMMA DirectoryKept ==
    ASSUME AllocatorInv, NEW t \in Threads, Call(t) \/ Continue(t)
    PROVE  DirectoryInv'
BY Zenon, StepUsesDirectory, DirectoryStepInv DEF AllocatorInv

-----------------------------------------------------------------------------
(* Types.                                                                  *)

\* Rounding a size up to whole blocks does not pass the capacity, which is a
\* whole number of blocks.
LEMMA RoundUpInCapacity ==
    ASSUME NEW n \in Nat, n <= Capacity
    PROVE  RoundUpToBlock(n) \in n .. Capacity
<1> DEFINE B == BlockChunks
           k == Capacity \div B
           m == (n + B - 1) \div B
<1>1. B \in Nat \ {0} /\ Capacity \in Nat /\ Capacity % B = 0
  BY CapacityAssumption, SizeAssumption
<1>2. k \in Nat /\ Capacity = B * k
  BY <1>1
<1>3. m \in Nat /\ B * m <= n + B - 1 /\ n + B - 1 < B * m + B
  BY <1>1
<1> HIDE DEF k, m
<1>4. n <= B * m
  BY <1>1, <1>3
<1>5. m <= k
  <2>1. SUFFICES ASSUME m >= k + 1 PROVE FALSE
    BY <1>2, <1>3
  <2>2. B * m >= B * (k + 1)
    BY <1>1, <1>2, <1>3, <2>1
  <2>3. B * (k + 1) = B * k + B
    BY <1>1, <1>2
  <2>4. B * k \in Nat /\ B * m \in Nat
    BY <1>1, <1>2, <1>3
  <2> QED BY <1>1, <1>2, <1>3, <2>2, <2>3, <2>4
<1>6. B * m <= B * k
  BY <1>1, <1>2, <1>3, <1>5
<1>7. RoundUpToBlock(n) = m * B /\ m * B = B * m
  BY <1>1, <1>3 DEF RoundUpToBlock, m
<1>8. B * m \in Nat
  BY <1>1, <1>3
<1> QED BY <1>1, <1>2, <1>4, <1>6, <1>7, <1>8

\* extend() keeps the size within the capacity; it succeeds only for a size
\* within the capacity.
LEMMA ExtendTypes ==
    ASSUME NEW n \in Nat, m_segment_size \in 0 .. Capacity,
           ExtendSucceeds(n) \/ ExtendFails(n)
    PROVE  /\ m_segment_size' \in 0 .. Capacity
           /\ ExtendSucceeds(n) => n <= Capacity
<1>1. Capacity \in Nat
  BY CapacityAssumption, SizeAssumption
<1>2. CASE Extends(n)
  <2>1. n <= Capacity /\ m_segment_size' = RoundUpToBlock(n)
    BY <1>1, <1>2 DEF Extends
  <2> QED BY <1>1, <2>1, RoundUpInCapacity
<1>3. CASE HasSize(n) /\ UNCHANGED m_segment_size
  BY <1>1, <1>3 DEF HasSize
<1>4. CASE ExtendFails(n)
  BY <1>1, <1>4 DEF ExtendFails, ExtendSucceeds, HasSize, Extends
<1> QED BY Zenon, <1>2, <1>3, <1>4 DEF ExtendSucceeds

\* A chunk the segment was extended for exists.
LEMMA ExtendedChunk ==
    ASSUME AllocatorInv, NEW t \in Threads
    PROVE  /\ ListNewChunk(t) => chunk[t] \in Chunk /\ chunk[t] # MaxNumChunks
           /\ ReturnLarge(t) => chunk[t] \in Chunk /\ chunk[t] # MaxNumChunks
<1>1. /\ chunk[t] \in 0 .. MaxNumChunks /\ Capacity \in Nat
      /\ Capacity <= MaxNumChunks /\ MaxNumChunks \in Nat \ {0}
      /\ m_segment_size \in 0 .. Capacity
  BY Types, CapacityAssumption, SizeAssumption
<1>2. ASSUME ListNewChunk(t) PROVE chunk[t] \in Chunk /\ chunk[t] # MaxNumChunks
  <2>1. chunk[t] + 1 <= Capacity
    BY <1>1, <1>2, ExtendTypes DEF ListNewChunk
  <2> QED BY <1>1, <2>1 DEF Chunk
<1>3. ASSUME ReturnLarge(t) PROVE chunk[t] \in Chunk /\ chunk[t] # MaxNumChunks
  <2>1. NumChunks[bin[t]] \in Nat \ {0}
    BY Zenon, <1>3, BinAssumption DEF ReturnLarge, AllocatorInv, LocksOK, WorksOnLarge
  <2>2. chunk[t] + NumChunks[bin[t]] <= Capacity
    BY <1>1, <1>3, <2>1, ExtendTypes DEF ReturnLarge
  <2> QED BY <1>1, <2>1, <2>2 DEF Chunk
<1> QED BY Zenon, <1>2, <1>3

\* The segment size keeps its type.
LEMMA SegmentSizeKept ==
    ASSUME AllocatorInv, NEW t \in Threads, Call(t) \/ Continue(t)
    PROVE  m_segment_size' \in 0 .. Capacity
<1>1. m_segment_size \in 0 .. Capacity /\ chunk[t] \in Nat /\ bin[t] \in Bins
  BY Types, SizeAssumption
<1>2. CASE ListNewChunk(t) \/ FailNewChunk(t)
  <2>1. ExtendSucceeds(chunk[t] + 1) \/ ExtendFails(chunk[t] + 1)
    BY Zenon, <1>2 DEF ListNewChunk, FailNewChunk
  <2> QED BY <1>1, <2>1, ExtendTypes
<1>3. CASE ReturnLarge(t) \/ FailLarge(t)
  <2>1. NumChunks[bin[t]] \in Nat \ {0}
    BY ZenonT(60), <1>3, BinAssumption
    DEF ReturnLarge, FailLarge, AllocatorInv, LocksOK, WorksOnLarge
  <2>2. \/ ExtendSucceeds(chunk[t] + NumChunks[bin[t]])
        \/ ExtendFails(chunk[t] + NumChunks[bin[t]])
    BY Zenon, <1>3 DEF ReturnLarge, FailLarge
  <2> QED BY <1>1, <2>1, <2>2, ExtendTypes
<1>4. CASE m_segment_size' = m_segment_size
  BY Zenon, <1>1, <1>4
<1> QED BY Zenon, <1>2, <1>3, <1>4, StepKinds

\* The lists keep their type.
LEMMA ListsTyped ==
    ASSUME AllocatorInv, NEW t \in Threads, Call(t) \/ Continue(t)
    PROVE  m_non_full_chunk_bin' \in [SmallBins -> Seq(Chunk)]
<1>1. m_non_full_chunk_bin \in [SmallBins -> Seq(Chunk)]
  BY Zenon, Types
<1>2. ASSUME NEW c \in Chunk, BinInsert(bin[t], c), bin[t] \in SmallBins
      PROVE  m_non_full_chunk_bin' \in [SmallBins -> Seq(Chunk)]
  <2>1. <<c>> \o m_non_full_chunk_bin[bin[t]] \in Seq(Chunk)
    BY <1>1, <1>2
  <2> QED BY Zenon, <1>1, <1>2, <2>1 DEF BinInsert
<1>3. ASSUME m_non_full_chunk_bin[bin[t]] # <<>>, BinPop(bin[t]), bin[t] \in SmallBins
      PROVE  m_non_full_chunk_bin' \in [SmallBins -> Seq(Chunk)]
  <2>1. Tail(m_non_full_chunk_bin[bin[t]]) \in Seq(Chunk)
    BY <1>1, <1>3
  <2> QED BY ZenonT(60), <1>1, <1>3, <2>1 DEF BinPop
<1>4. CASE AllocateFromChunk(t)
  <2>1. \/ BinPop(bin[t]) \/ UNCHANGED m_non_full_chunk_bin
    BY ZenonT(60), <1>4, TakeEffect DEF Takes
  <2>2. m_non_full_chunk_bin[bin[t]] # <<>> /\ bin[t] \in SmallBins
    BY Zenon, <1>4, OwnsBin DEF AllocateFromChunk, HoldsBinMutex
  <2> QED BY ZenonT(60), <1>1, <1>3, <2>1, <2>2
<1>5. CASE ListNewChunk(t)
  <2>1. bin[t] \in SmallBins /\ chunk[t] \in Chunk
    BY ZenonT(60), <1>5, OwnsBin, ExtendedChunk DEF ListNewChunk, HoldsBinMutex
  <2> QED BY ZenonT(60), <1>2, <1>5, <2>1 DEF ListNewChunk
<1>6. CASE FreeSlot(t)
  <2>1. PICK c \in Chunk : \/ BinInsert(bin[t], c)
                           \/ UNCHANGED m_non_full_chunk_bin
    BY ZenonT(60), <1>6, FreeEffect DEF Frees
  <2>2. bin[t] \in SmallBins
    BY Zenon, <1>6, OwnsBin DEF FreeSlot, HoldsBinMutex
  <2> QED BY ZenonT(60), <1>1, <1>2, <2>1, <2>2
<1>7. CASE UnlistChunk(t)
  <2> DEFINE q == m_non_full_chunk_bin[bin[t]]
  <2>1. bin[t] \in SmallBins /\ q \in Seq(Chunk)
    BY ZenonT(60), <1>1, <1>7, OwnsBin DEF UnlistChunk, HoldsBinMutex
  <2>2. ASSUME NEW i \in DOMAIN q PROVE WithoutAt(q, i) \in Seq(Chunk)
    <3>1. Len(q) - 1 \in Nat /\ DOMAIN q = 1 .. Len(q)
          /\ \A j \in 1 .. Len(q) : q[j] \in Chunk
      BY <2>1
    <3>2. \A j \in 1 .. Len(q) - 1 : j \in 1 .. Len(q) /\ j + 1 \in 1 .. Len(q)
      BY <3>1
    <3>3. WithoutAt(q, i) \in [1 .. Len(q) - 1 -> Chunk]
      BY Zenon, <3>1, <3>2 DEF WithoutAt
    <3> QED BY <3>1, <3>3
  <2> QED BY Zenon, <1>1, <1>7, <2>1, <2>2 DEF UnlistChunk, BinErase
<1>8. CASE UNCHANGED m_non_full_chunk_bin
  BY Zenon, <1>1, <1>8
<1> QED BY Zenon, <1>4, <1>5, <1>6, <1>7, <1>8, StepKinds

\* All types are kept.
LEMMA TypesKept ==
    ASSUME AllocatorInv, NEW t \in Threads, Call(t) \/ Continue(t)
    PROVE  TypeOK'
<1> USE ZeroBinSmall, SizeAssumption DEF Goto, PC
<1>0. SmallBins \subseteq Bins /\ LargeBins \subseteq Bins
      /\ Chunk \subseteq 0 .. MaxNumChunks /\ 0 \in 0 .. MaxNumChunks
  BY DEF Bins, Chunk
<1>1. DirectoryTypeOK'
  BY Zenon, DirectoryKept DEF DirectoryInv
<1>2. m_non_full_chunk_bin' \in [SmallBins -> Seq(Chunk)]
  BY Zenon, ListsTyped
<1>3. m_segment_size' \in 0 .. Capacity
  BY Zenon, SegmentSizeKept
<1> DEFINE Rest == /\ m_chunk_mutex' \in Threads \cup {NoThread}
                   /\ m_bin_mutex' \in [SmallBins -> Threads \cup {NoThread}]
                   /\ live' \subseteq Bins \X Chunk \X Nat
                   /\ pc' \in [Threads -> PC]
                   /\ bin' \in [Threads -> Bins]
                   /\ many' \in [Threads -> BOOLEAN]
                   /\ todo' \in [Threads -> Nat]
                   /\ objs' \in [Threads -> SUBSET (Bins \X Chunk \X Nat)]
                   /\ chunk' \in [Threads -> 0 .. MaxNumChunks]
                   /\ aborted' \in BOOLEAN
<1> SUFFICES Rest
  BY Zenon, <1>1, <1>2, <1>3 DEF TypeOK
<1>4. ASSUME Return(t)
      PROVE  /\ pc' \in [Threads -> PC]
             /\ bin' \in [Threads -> Bins]
             /\ many' \in [Threads -> BOOLEAN]
             /\ todo' \in [Threads -> Nat]
             /\ objs' \in [Threads -> SUBSET (Bins \X Chunk \X Nat)]
             /\ chunk' \in [Threads -> 0 .. MaxNumChunks]
  BY Zenon, <1>0, <1>4, Types DEF Return
<1>5. ASSUME NEW b \in SmallBins, NEW n \in BatchSizes, AllocateSmall(t, b, n)
      PROVE  Rest
  <2>1. n \in Nat /\ (n >= ManyThreshold) \in BOOLEAN
    BY BatchAssumption, CapacityAssumption
  <2> QED BY Zenon, <1>0, <1>5, <2>1, Types DEF AllocateSmall
<1>6. ASSUME NEW b \in LargeBins, AllocateLarge(t, b) PROVE Rest
  BY ZenonT(60), <1>0, <1>6, Types DEF AllocateLarge
<1>7. ASSUME NEW o \in live, Deallocate(t, o) PROVE Rest
  <2>1. o \in Bins \X Chunk \X Nat /\ m_table[o[2]] \in Entry
    BY Zenon, Types
  <2>2. m_table[o[2]].bin_no \in Bins /\ {o} \subseteq Bins \X Chunk \X Nat
    BY Zenon, <2>1 DEF Entry
  <2> QED BY Zenon, <1>0, <1>7, <2>2, Types DEF Deallocate
<1>8. ASSUME NEW b \in SmallBins, NEW S \in SUBSET live, DeallocateMany(t, b, S)
      PROVE  Rest
  BY ZenonT(60), <1>0, <1>8, Types DEF DeallocateMany
<1>9. CASE AllocateFromChunk(t)
  <2>1. PICK c \in Chunk : \E S \in SUBSET FreeSlots(c) : Takes(t, c, S)
    BY Zenon, <1>9, TakeEffect
  <2>2. PICK S \in SUBSET FreeSlots(c) : Takes(t, c, S)
    BY Zenon, <2>1 
  <2>3. S \subseteq Nat
    BY ZenonT(60), <2>2, SlotsFinite DEF FreeSlots, Takes
  <2>4. {<<bin[t], c, s>> : s \in S} \subseteq Bins \X Chunk \X Nat
    <3>1. bin[t] \in Bins
      BY Zenon, Types
    <3> QED BY <2>3, <3>1
  <2>5. todo[t] - Cardinality(S) \in Nat
    <3>1. Cardinality(S) \in 1 .. todo[t]
      BY Zenon, <2>2 DEF Takes
    <3>2. todo[t] \in Nat
      BY Zenon, Types 
    <3> QED BY <3>1, <3>2
  <2>6. objs' \in [Threads -> SUBSET (Bins \X Chunk \X Nat)]
    BY ZenonT(60), <2>2, <2>4, Types DEF Takes
  <2>7. todo' \in [Threads -> Nat]
    BY Zenon, <2>2, <2>5, Types DEF Takes
  <2> QED BY ZenonT(60), <1>9, <2>6, <2>7, Types DEF AllocateFromChunk
<1>10. CASE InsertNewChunk(t)
  BY ZenonT(60), <1>10, Types DEF InsertNewChunk
<1>11. CASE ListNewChunk(t)
  BY Zenon, <1>11, Types DEF ListNewChunk, locals
<1>12. CASE FailNewChunk(t)
  <2>1. pc[t] = "extend" /\ todo[t] \in Nat
    BY Zenon, <1>12, Types DEF FailNewChunk
  <2>2. todo[t] > 0
    BY Zenon, <2>1 DEF AllocatorInv, ChunkOK
  <2>3. todo[t] - 1 \in Nat
    BY <2>1, <2>2
  <2> QED BY Zenon, <1>12, <2>3, Types DEF FailNewChunk
<1>13. CASE ReturnSmall(t)
  <2>1. bin[t] \in SmallBins
    BY Zenon, <1>13, OwnsBin DEF ReturnSmall, HoldsBinMutex
  <2> QED BY ZenonT(60), <1>4, <1>13, <2>1, Types DEF ReturnSmall
<1>14. CASE ReturnLarge(t)
  <2>1. {<<bin[t], chunk[t], 0>>} \subseteq Bins \X Chunk \X Nat
    BY <1>14, ExtendedChunk, Types
  <2> QED BY ZenonT(60), <1>4, <1>14, <2>1, Types DEF ReturnLarge
<1>15. CASE FailLarge(t)
  BY Zenon, <1>4, <1>15, Types DEF FailLarge
<1>16. CASE LockForFree(t)
  BY Zenon, <1>16, Types DEF LockForFree, locals
<1>17. CASE FreeSlot(t)
  <2>1. PICK o \in objs[t], c \in Chunk, s \in Nat : Frees(t, o, c, s)
    BY Zenon, <1>17, FreeEffect
  <2>2. /\ objs' = [objs EXCEPT ![t] = @ \ {o}]
        /\ chunk' = [chunk EXCEPT ![t] = c]
        /\ Goto(t, "erase") \/ UNCHANGED pc
    BY Zenon, <2>1 DEF Frees
  <2> QED BY ZenonT(60), <1>0, <1>17, <2>2, Types DEF FreeSlot
<1>18. CASE EraseChunk(t) \/ FreeChunk(t) \/ UnlistChunk(t)
  BY ZenonT(60), <1>18, Types DEF EraseChunk, FreeChunk, UnlistChunk, locals
<1>19. CASE ReturnFree(t)
  <2>1. bin[t] \in SmallBins
    BY Zenon, <1>19, OwnsBin DEF ReturnFree, HoldsBinMutex
  <2> QED BY Zenon, <1>4, <1>19, <2>1, Types DEF ReturnFree
<1>20. CASE EraseLarge(t)
  <2>1. PICK o \in objs[t] : chunk' = [chunk EXCEPT ![t] = o[2]]
    BY Zenon, <1>20 DEF EraseLarge
  <2>2. o[2] \in Chunk
    BY Types, SMTT(30)
  <2> QED BY Zenon, <1>0, <1>20, <2>1, <2>2, Types DEF EraseLarge
<1>21. CASE FreeLarge(t)
  BY Zenon, <1>4, <1>21, Types DEF FreeLarge
<1> QED
  BY Zenon, <1>5, <1>6, <1>7, <1>8, <1>9, <1>10, <1>11, <1>12, <1>13, <1>14, <1>15, <1>16,
     <1>17, <1>18, <1>19, <1>20, <1>21 DEF Call, Continue
=============================================================================
