------------------------ MODULE ChunkDirectoryProofs ------------------------
(***************************************************************************)
(* The chunk directory keeps DirectoryInv under every sequence of calls,   *)
(* for every number of chunks, every set of bins and every slot count.     *)
(***************************************************************************)
EXTENDS ChunkDirectory, FiniteSetTheorems, TLAPS

\* Bin number 0 is a small bin.
LEMMA ZeroBinSmall == ZeroBin \in SmallBins
BY BinAssumption DEF ZeroBin

\* The slots of a bin are a finite set.
LEMMA SlotsFinite ==
    ASSUME NEW b \in SmallBins
    PROVE  /\ Slot(b) \subseteq Nat
           /\ IsFiniteSet(Slot(b))
           /\ Cardinality(Slot(b)) = NumSlots[b]
<1>1. NumSlots[b] \in Nat \ {0, 1}
  BY BinAssumption
<1> DEFINE m == NumSlots[b] - 1
<1>2. m \in Int /\ 0 \in Int /\ ~(0 > m) /\ m - 0 + 1 = NumSlots[b]
  BY <1>1
<1> HIDE DEF m
<1>3. /\ IsFiniteSet(0 .. m)
      /\ Cardinality(0 .. m) = IF 0 > m THEN 0 ELSE m - 0 + 1
  BY <1>2, FS_Interval, Zenon
<1>4. Slot(b) = 0 .. m
  BY DEF Slot, m
<1> QED BY <1>1, <1>2, <1>3, <1>4

\* What entry_type::init() changes and what it keeps.
LEMMA InitEntryFields ==
    ASSUME NEW e \in Entry
    PROVE  /\ InitEntry(e) \in Entry
           /\ InitEntry(e).bin_no = e.bin_no
           /\ InitEntry(e).type = "unused"
           /\ InitEntry(e).num_occupied_slots = 0
           /\ InitEntry(e).slot_occupancy = {}
BY Zenon DEF InitEntry, Entry, ChunkType

\* The initial table satisfies the invariant.
LEMMA DirectoryInitInv == DirectoryInit => DirectoryInv
<1> SUFFICES ASSUME DirectoryInit PROVE DirectoryInv
  OBVIOUS
<1> USE BinAssumption, SizeAssumption, ZeroBinSmall
<1>1. \A c \in Chunk : m_table[c] = [bin_no |-> ZeroBin, type |-> "unused",
                 num_occupied_slots |-> 0, slot_occupancy |-> {}]
  BY Zenon DEF DirectoryInit, InitEntry, SmallEntry
<1>2. DirectoryTypeOK
  BY <1>1 DEF DirectoryInit, DirectoryTypeOK, Entry, Bins, ChunkType, InitEntry, SmallEntry
<1>3. CountExact /\ OnlySmallMarked /\ LargeRuns
  BY <1>1 DEF CountExact, OnlySmallMarked, LargeRuns, DirectoryInit
<1>4. SizeCoversUse
  BY <1>1 DEF SizeCoversUse, SizeIsTight, DirectoryInit
<1> QED BY <1>2, <1>3, <1>4 DEF DirectoryInv
-----------------------------------------------------------------------------
(* Steps that leave the large chunks alone.                                *)

IsLarge(c) == m_table[c].type \in {"large_chunk_head", "large_chunk_body"}

\* LargeRuns only reads the types and bin numbers of large chunks.
LEMMA LargeKept ==
    ASSUME DirectoryInv,
           \A d \in Chunk : IsLarge(d) <=> IsLarge(d)',
           \A d \in Chunk : IsLarge(d) =>
              /\ m_table'[d].type = m_table[d].type
              /\ m_table'[d].bin_no = m_table[d].bin_no
    PROVE  LargeRuns'
<1>1. ASSUME NEW h \in Chunk, m_table'[h].type = "large_chunk_head"
      PROVE  /\ m_table'[h].bin_no \in LargeBins
             /\ h + NumChunks[m_table'[h].bin_no] <= MaxNumChunks
             /\ \A d \in Extent(m_table'[h].bin_no, h) \ {h} :
                   m_table'[d].type = "large_chunk_body"
  <2>1. /\ m_table[h].type = "large_chunk_head"
        /\ m_table'[h].bin_no = m_table[h].bin_no
    BY <1>1 DEF IsLarge
  <2>2. /\ m_table[h].bin_no \in LargeBins
        /\ h + NumChunks[m_table[h].bin_no] <= MaxNumChunks
        /\ \A d \in Extent(m_table[h].bin_no, h) \ {h} :
              m_table[d].type = "large_chunk_body"
    BY <2>1 DEF LargeRuns, DirectoryInv
  <2>3. Extent(m_table[h].bin_no, h) \subseteq Chunk
    BY <2>2, BinAssumption, SizeAssumption DEF Extent, Chunk
  <2> QED BY <2>1, <2>2, <2>3 DEF IsLarge
<1>2. ASSUME NEW d \in Chunk, m_table'[d].type = "large_chunk_body"
      PROVE  \E h \in 0 .. d - 1 : /\ m_table'[h].type = "large_chunk_head"
                                   /\ d \in Extent(m_table'[h].bin_no, h)
  <2>1. m_table[d].type = "large_chunk_body"
    BY <1>2 DEF IsLarge
  <2>2. PICK h \in 0 .. d - 1 : /\ m_table[h].type = "large_chunk_head"
                               /\ d \in Extent(m_table[h].bin_no, h)
    BY <2>1 DEF LargeRuns, DirectoryInv
  <2>3. h \in Chunk
    BY SizeAssumption DEF Chunk
  <2> QED BY <2>2, <2>3 DEF IsLarge
<1> QED BY <1>1, <1>2 DEF LargeRuns

\* A chunk that can be taken belongs to no large object.
LEMMA InsertableNotLarge ==
    ASSUME DirectoryInv, NEW c \in Chunk, Insertable(c)
    PROVE  m_table[c].type \in {"unused", "small_chunk"}
BY DEF DirectoryInv, SizeCoversUse, Insertable, unused_chunk

-----------------------------------------------------------------------------
(* Insertion of a small chunk.                                             *)

\* Making a chunk that can be taken a small chunk keeps the table in order.
LEMMA SmallEntryPlaced ==
    ASSUME DirectoryInv, NEW b \in SmallBins, NEW c \in Chunk, Insertable(c),
           m_table' = [m_table EXCEPT ![c] = SmallEntry(b)]
    PROVE  /\ m_table' \in [Chunk -> Entry]
           /\ m_table'[c] = SmallEntry(b)
           /\ \A d \in Chunk : d # c => m_table'[d] = m_table[d]
           /\ CountExact'
           /\ OnlySmallMarked'
           /\ LargeRuns'
<1>1. m_table \in [Chunk -> Entry]
  BY DEF DirectoryInv, DirectoryTypeOK
<1>2. SmallEntry(b) \in Entry
  BY DEF SmallEntry, Entry, Bins, ChunkType
<1>3. m_table'[c] = SmallEntry(b)
  BY <1>1
<1>4. \A d \in Chunk : d # c => m_table'[d] = m_table[d]
  BY <1>1
<1>5. m_table' \in [Chunk -> Entry]
  BY <1>1, <1>2
<1>6. CountExact'
  BY <1>3, <1>4, FS_EmptySet DEF CountExact, SmallEntry, DirectoryInv
<1>7. OnlySmallMarked'
  BY <1>3, <1>4 DEF OnlySmallMarked, SmallEntry, DirectoryInv
<1>8. LargeRuns'
  <2>1. m_table[c].type \in {"unused", "small_chunk"}
    BY InsertableNotLarge
  <2>2. m_table'[c].type = "small_chunk"
    BY <1>3 DEF SmallEntry
  <2> QED BY <2>1, <2>2, <1>4, LargeKept DEF IsLarge
<1> QED BY <1>3, <1>4, <1>5, <1>6, <1>7, <1>8

\* priv_insert_small_chunk keeps the invariant.
LEMMA InsertSmallInv ==
    ASSUME DirectoryInv, NEW b \in SmallBins, NEW c \in 0 .. MaxNumChunks,
           InsertSmall(b, c)
    PROVE  DirectoryInv'
<1>1. CASE c \in Chunk
  <2>1. /\ Insertable(c)
        /\ m_table' = [m_table EXCEPT ![c] = SmallEntry(b)]
        /\ m_last_used_chunk_no' = Later(c, m_last_used_chunk_no)
    BY <1>1, SizeAssumption DEF InsertSmall, Chunk
  <2>2. /\ m_table' \in [Chunk -> Entry]
        /\ m_table'[c] = SmallEntry(b)
        /\ \A d \in Chunk : d # c => m_table'[d] = m_table[d]
        /\ CountExact'
        /\ OnlySmallMarked'
        /\ LargeRuns'
    BY Zenon, <1>1, <2>1, SmallEntryPlaced
  <2>3. m_last_used_chunk_no \in -1 .. MaxNumChunks - 1 /\ SizeCoversUse
    BY DEF DirectoryInv, DirectoryTypeOK
  <2>4. DirectoryTypeOK'
    BY <1>1, <2>1, <2>2, <2>3, SizeAssumption DEF DirectoryTypeOK, Later, Chunk
  <2>5. SizeCoversUse'
    BY <1>1, <2>1, <2>2, <2>3, SizeAssumption
       DEF SizeCoversUse, SizeIsTight, unused_chunk, SmallEntry, Later, Chunk
  <2> QED BY <2>2, <2>4, <2>5 DEF DirectoryInv
<1>2. CASE c = MaxNumChunks
  <2>1. UNCHANGED directoryVars
    BY <1>2, SizeAssumption DEF InsertSmall, Chunk
  <2> QED BY <2>1 DEF directoryVars, DirectoryInv, DirectoryTypeOK, CountExact,
          OnlySmallMarked, SizeCoversUse, SizeIsTight, unused_chunk, LargeRuns
<1> QED BY <1>1, <1>2, SizeAssumption DEF Chunk

\* So does an insertion that finds no memory for the slot bitset.
LEMMA InsertSmallNoMemoryInv ==
    ASSUME DirectoryInv, NEW b \in SmallBins, NEW c \in 0 .. MaxNumChunks,
           InsertSmallNoMemory(b, c)
    PROVE  DirectoryInv'
<1>1. PICK d \in Chunk : /\ Insertable(d)
                         /\ m_table' = [m_table EXCEPT ![d] = SmallEntry(b)]
  BY Zenon DEF InsertSmallNoMemory
<1>2. m_last_used_chunk_no' = m_last_used_chunk_no
  BY DEF InsertSmallNoMemory
<1>3. /\ m_table' \in [Chunk -> Entry]
      /\ m_table'[d] = SmallEntry(b)
      /\ \A e \in Chunk : e # d => m_table'[e] = m_table[e]
      /\ CountExact'
      /\ OnlySmallMarked'
      /\ LargeRuns'
  BY Zenon, <1>1, SmallEntryPlaced
<1>4. DirectoryTypeOK'
  BY <1>2, <1>3 DEF DirectoryInv, DirectoryTypeOK
<1>5. SizeCoversUse'
  BY <1>2, <1>3, SizeAssumption
     DEF SizeCoversUse, SizeIsTight, unused_chunk, SmallEntry, Chunk,
         DirectoryInv, DirectoryTypeOK
<1> QED BY <1>3, <1>4, <1>5 DEF DirectoryInv

-----------------------------------------------------------------------------
(* Insertion of a large chunk.                                             *)

\* The chunks of a large object that fits are chunks of the table.
LEMMA LargeFitsInTable ==
    ASSUME NEW b \in LargeBins, NEW c \in Chunk, LargeFits(b, c)
    PROVE  /\ NumChunks[b] \in Nat \ {0}
           /\ Extent(b, c) = c .. c + NumChunks[b] - 1
           /\ c \in Extent(b, c)
           /\ Extent(b, c) \subseteq Chunk
           /\ \A d \in Extent(b, c) : Insertable(d)
<1>1. NumChunks[b] \in Nat \ {0} /\ b \notin SmallBins
  BY BinAssumption
<1>2. Extent(b, c) = c .. c + NumChunks[b] - 1
  BY <1>1 DEF Extent
<1> QED BY <1>1, <1>2, SizeAssumption DEF LargeFits, Chunk

\* priv_insert_large_chunk keeps the invariant.
LEMMA InsertLargeInv ==
    ASSUME DirectoryInv, NEW b \in LargeBins, NEW c \in 0 .. MaxNumChunks,
           InsertLarge(b, c)
    PROVE  DirectoryInv'
<1>0. /\ m_table \in [Chunk -> Entry]
      /\ m_last_used_chunk_no \in -1 .. MaxNumChunks - 1
      /\ b \in Bins
  BY DEF DirectoryInv, DirectoryTypeOK, Bins
<1>1. CASE c \in Chunk
  <2> DEFINE X == Extent(b, c)
  <2>1. /\ LargeFits(b, c)
        /\ m_table' = [d \in Chunk |-> IF d \in X THEN LargeEntry(b, c, d)
                                                  ELSE m_table[d]]
        /\ m_last_used_chunk_no' = Later(c + NumChunks[b] - 1, m_last_used_chunk_no)
    BY <1>1, SizeAssumption DEF InsertLarge, Chunk
  <2>2. /\ NumChunks[b] \in Nat \ {0}
        /\ X = c .. c + NumChunks[b] - 1
        /\ c \in X
        /\ X \subseteq Chunk
        /\ \A d \in X : Insertable(d)
    BY <1>1, <2>1, LargeFitsInTable
  <2>3. \A d \in X : m_table[d].type \in {"unused", "small_chunk"}
    BY <2>2, InsertableNotLarge
  <2>4. \A d \in Chunk : d \notin X => m_table'[d] = m_table[d]
    BY <2>1
  <2>5. \A d \in X : m_table'[d] = LargeEntry(b, c, d)
    BY <2>1, <2>2
  <2>6. ASSUME NEW d \in X
        PROVE  /\ LargeEntry(b, c, d) \in Entry
               /\ LargeEntry(b, c, d).bin_no = b
               /\ LargeEntry(b, c, d).type = IF d = c THEN "large_chunk_head"
                                                      ELSE "large_chunk_body"
               /\ LargeEntry(b, c, d).num_occupied_slots = 0
               /\ LargeEntry(b, c, d).slot_occupancy = {}
    <3>1. d \in Chunk /\ Insertable(d) /\ m_table[d] \in Entry
      BY <1>0, <2>2
    <3> DEFINE e == IF d > m_last_used_chunk_no THEN InitEntry(m_table[d])
                                                ELSE m_table[d]
    <3>2. e \in Entry /\ e.num_occupied_slots = 0 /\ e.slot_occupancy = {}
      <4>1. CASE d > m_last_used_chunk_no
        BY <3>1, <4>1, InitEntryFields
      <4>2. CASE ~(d > m_last_used_chunk_no)
        BY <3>1, <4>2 DEF Insertable, unused_chunk, OnlySmallMarked, DirectoryInv
      <4> QED BY <4>1, <4>2
    <3>3. LargeEntry(b, c, d) =
             [e EXCEPT !.bin_no = b,
                       !.type = IF d = c THEN "large_chunk_head"
                                         ELSE "large_chunk_body"]
      BY DEF LargeEntry
    <3> HIDE DEF e
    <3> QED BY Zenon, <3>2, <3>3, <1>0 DEF Entry, ChunkType
  <2> HIDE DEF X
  <2>7. \A d \in X : /\ m_table'[d] \in Entry
                     /\ m_table'[d].bin_no = b
                     /\ m_table'[d].type = IF d = c THEN "large_chunk_head"
                                                    ELSE "large_chunk_body"
                     /\ m_table'[d].num_occupied_slots = 0
                     /\ m_table'[d].slot_occupancy = {}
    BY <2>5, <2>6
  <2>8. DirectoryTypeOK'
    <3>1. m_table' \in [Chunk -> Entry]
      BY Zenon, <1>0, <2>1, <2>4, <2>7
    <3>2. c + NumChunks[b] <= MaxNumChunks
      BY <2>1 DEF LargeFits
    <3>3. m_last_used_chunk_no' \in -1 .. MaxNumChunks - 1
      BY <1>0, <1>1, <2>1, <2>2, <3>2, SizeAssumption DEF Later, Chunk
    <3> QED BY <3>1, <3>3 DEF DirectoryTypeOK
  <2>9. CountExact' /\ OnlySmallMarked'
    BY <2>4, <2>7 DEF CountExact, OnlySmallMarked, DirectoryInv
  <2>10. SizeCoversUse'
    <3>1. SizeCoversUse
      BY DEF DirectoryInv
    <3>2. c + NumChunks[b] - 1 \in X
      BY <1>1, <2>2, SizeAssumption DEF Chunk
    <3>3. SizeIsTight'
      <4>1. CASE c + NumChunks[b] - 1 > m_last_used_chunk_no
        BY <4>1, <3>2, <2>1, <2>7 DEF SizeIsTight, unused_chunk, Later
      <4>2. CASE ~(c + NumChunks[b] - 1 > m_last_used_chunk_no)
        <5>1. m_last_used_chunk_no' = m_last_used_chunk_no
          BY <4>2, <2>1 DEF Later
        <5>2. SUFFICES ASSUME m_last_used_chunk_no # -1
                       PROVE  m_table'[m_last_used_chunk_no].type # "unused"
          BY <5>1 DEF SizeIsTight, unused_chunk
        <5>3. m_last_used_chunk_no \in Chunk
          BY <1>0, <5>2, SizeAssumption DEF Chunk
        <5>4. m_table[m_last_used_chunk_no].type # "unused"
          BY <3>1, <5>2 DEF SizeCoversUse, SizeIsTight, unused_chunk
        <5> QED BY <5>3, <5>4, <2>4, <2>7
      <4> QED BY <4>1, <4>2
    <3>4. ASSUME NEW d \in Chunk, d > m_last_used_chunk_no'
          PROVE  /\ m_table'[d].type \in {"unused", "small_chunk"}
                 /\ m_table'[d].slot_occupancy = {}
      <4>1. d > c + NumChunks[b] - 1 /\ d > m_last_used_chunk_no
        BY <3>4, <1>0, <1>1, <2>1, <2>2, SizeAssumption DEF Later, Chunk
      <4>2. d \notin X
        BY <4>1, <2>2, <1>1, SizeAssumption DEF Chunk
      <4> QED BY <4>1, <4>2, <3>1, <2>4 DEF SizeCoversUse
    <3> QED BY <3>3, <3>4 DEF SizeCoversUse
  <2>11. LargeRuns'
    <3>1. LargeRuns
      BY DEF DirectoryInv
    <3>2. ASSUME NEW h \in Chunk, m_table'[h].type = "large_chunk_head"
          PROVE  /\ m_table'[h].bin_no \in LargeBins
                 /\ h + NumChunks[m_table'[h].bin_no] <= MaxNumChunks
                 /\ \A d \in Extent(m_table'[h].bin_no, h) \ {h} :
                       m_table'[d].type = "large_chunk_body"
      <4>1. CASE h \in X
        BY <4>1, <3>2, <2>1, <2>7 DEF LargeFits, X
      <4>2. CASE h \notin X
        <5>1. m_table'[h] = m_table[h]
          BY <4>2, <2>4
        <5>2. /\ m_table[h].bin_no \in LargeBins
              /\ h + NumChunks[m_table[h].bin_no] <= MaxNumChunks
              /\ \A d \in Extent(m_table[h].bin_no, h) \ {h} :
                    m_table[d].type = "large_chunk_body"
          BY <5>1, <3>1, <3>2 DEF LargeRuns
        <5>3. Extent(m_table[h].bin_no, h) \subseteq Chunk
          BY <5>2, BinAssumption, SizeAssumption DEF Extent, Chunk
        <5> QED BY <5>1, <5>2, <5>3, <2>3, <2>4
      <4> QED BY <4>1, <4>2
    <3>3. ASSUME NEW d \in Chunk, m_table'[d].type = "large_chunk_body"
          PROVE  \E h \in 0 .. d - 1 : /\ m_table'[h].type = "large_chunk_head"
                                       /\ d \in Extent(m_table'[h].bin_no, h)
      <4>1. CASE d \in X
        <5>1. c \in 0 .. d - 1
          BY <4>1, <3>3, <1>1, <2>2, <2>7, SizeAssumption DEF Chunk
        <5> QED BY Zenon, <5>1, <4>1, <2>2, <2>7 DEF X
      <4>2. CASE d \notin X
        <5>1. PICK h \in 0 .. d - 1 : /\ m_table[h].type = "large_chunk_head"
                                     /\ d \in Extent(m_table[h].bin_no, h)
          BY <4>2, <3>1, <3>3, <2>4 DEF LargeRuns
        <5>2. h \in Chunk
          BY SizeAssumption DEF Chunk
        <5> QED BY <5>1, <5>2, <2>3, <2>4
      <4> QED BY <4>1, <4>2
    <3> QED BY <3>2, <3>3 DEF LargeRuns
  <2> QED BY <2>8, <2>9, <2>10, <2>11 DEF DirectoryInv
<1>2. CASE c = MaxNumChunks
  <2>1. /\ m_table' = [d \in Chunk |-> IF d > m_last_used_chunk_no
                                       THEN InitEntry(m_table[d]) ELSE m_table[d]]
        /\ m_last_used_chunk_no' = m_last_used_chunk_no
    BY <1>2, SizeAssumption DEF InsertLarge, Chunk
  <2>2. \A d \in Chunk :
           /\ m_table[d] \in Entry
           /\ d > m_last_used_chunk_no =>
                 /\ m_table'[d] \in Entry
                 /\ m_table'[d].type = "unused"
                 /\ m_table'[d].num_occupied_slots = 0
                 /\ m_table'[d].slot_occupancy = {}
           /\ ~(d > m_last_used_chunk_no) => m_table'[d] = m_table[d]
    BY <2>1, <1>0, InitEntryFields
  <2>3. DirectoryTypeOK'
    BY <1>0, <2>1, <2>2 DEF DirectoryTypeOK
  <2>4. CountExact' /\ OnlySmallMarked'
    BY <2>2 DEF CountExact, OnlySmallMarked, DirectoryInv
  <2>5. SizeCoversUse'
    BY <1>0, <2>1, <2>2, SizeAssumption
       DEF SizeCoversUse, SizeIsTight, unused_chunk, DirectoryInv, Chunk
  <2>6. LargeRuns'
    <3>1. \A d \in Chunk : d > m_last_used_chunk_no => ~IsLarge(d)
      BY DEF SizeCoversUse, IsLarge, DirectoryInv
    <3> QED BY <3>1, <2>2, LargeKept DEF IsLarge
  <2> QED BY <2>3, <2>4, <2>5, <2>6 DEF DirectoryInv
<1> QED BY <1>1, <1>2, SizeAssumption DEF Chunk

-----------------------------------------------------------------------------
(* erase.                                                                  *)

\* The loop of erase() that stops at the first chunk that is not a body ends
\* exactly where the object ends, even if another large object follows.
LEMMA ErasedRunIsExtent ==
    ASSUME DirectoryInv, NEW c \in Chunk,
           m_table[c].type \in {"small_chunk", "large_chunk_head"}
    PROVE  /\ ErasedRun(c) = Extent(m_table[c].bin_no, c)
           /\ c \in ErasedRun(c)
           /\ ErasedRun(c) \subseteq Chunk
<1>1. CASE m_table[c].type = "small_chunk"
  BY <1>1 DEF ErasedRun, Extent, CountExact, DirectoryInv
<1>2. CASE m_table[c].type = "large_chunk_head"
  <2> DEFINE b == m_table[c].bin_no
             n == NumChunks[b]
  <2>1. /\ b \in LargeBins /\ n \in Nat \ {0} /\ b \notin SmallBins
        /\ c + n <= MaxNumChunks
        /\ Extent(b, c) = c .. c + n - 1
        /\ \A d \in c + 1 .. c + n - 1 : m_table[d].type = "large_chunk_body"
    <3>1. /\ b \in LargeBins /\ c + n <= MaxNumChunks
          /\ \A d \in Extent(b, c) \ {c} : m_table[d].type = "large_chunk_body"
      BY <1>2 DEF LargeRuns, DirectoryInv
    <3>2. n \in Nat \ {0} /\ b \notin SmallBins
      BY <3>1, BinAssumption
    <3>3. Extent(b, c) = c .. c + n - 1
      BY <3>2 DEF Extent
    <3>4. \A d \in c + 1 .. c + n - 1 : d \in (c .. c + n - 1) \ {c}
      BY <3>2, SizeAssumption DEF Chunk
    <3> QED BY <3>1, <3>2, <3>3, <3>4
  <2>2. ErasedRun(c) = {d \in Chunk : /\ d >= c
                                      /\ \A e \in c + 1 .. d :
                                           m_table[e].type = "large_chunk_body"}
    BY <1>2 DEF ErasedRun
  <2> HIDE DEF b, n
  <2>3. ASSUME NEW d \in Extent(b, c) PROVE d \in ErasedRun(c)
    BY <2>1, <2>2, SizeAssumption DEF Chunk
  <2>4. ASSUME NEW d \in ErasedRun(c) PROVE d \in Extent(b, c)
    <3>1. /\ d \in Chunk /\ d >= c
          /\ \A e \in c + 1 .. d : m_table[e].type = "large_chunk_body"
      BY <2>2
    <3>2. SUFFICES ASSUME d >= c + n PROVE FALSE
      BY <2>1, <3>1, SizeAssumption DEF Chunk
    <3> DEFINE e == c + n
    <3>3. e \in Chunk /\ e \in c + 1 .. d
      BY <2>1, <3>1, <3>2, SizeAssumption DEF Chunk
    <3>4. PICK h \in 0 .. e - 1 : /\ m_table[h].type = "large_chunk_head"
                                 /\ e \in Extent(m_table[h].bin_no, h)
      BY <3>1, <3>3 DEF LargeRuns, DirectoryInv
    <3>5. h \in Chunk /\ e \in Int /\ h < e
      BY <3>3, SizeAssumption DEF Chunk
    <3>6. h # c
      BY <3>4, <2>1, SizeAssumption DEF Chunk, b
    <3>7. ~(h < c)
      <4>1. SUFFICES ASSUME h < c PROVE c \in Extent(m_table[h].bin_no, h) \ {h}
        BY <1>2, <3>4, <3>5 DEF LargeRuns, DirectoryInv
      <4>2. m_table[h].bin_no \in LargeBins
        BY <3>4, <3>5 DEF LargeRuns, DirectoryInv
      <4>3. /\ Extent(m_table[h].bin_no, h) =
                  h .. h + NumChunks[m_table[h].bin_no] - 1
            /\ NumChunks[m_table[h].bin_no] \in Nat \ {0}
        BY <4>2, BinAssumption DEF Extent
      <4> QED BY <4>1, <4>3, <3>4, <3>5, <2>1, SizeAssumption DEF Chunk
    <3>8. ~(h > c)
      <4>1. SUFFICES ASSUME h > c PROVE h \in c + 1 .. c + n - 1
        BY <2>1, <3>4
      <4> QED BY <4>1, <3>5, <2>1, SizeAssumption DEF Chunk
    <3> QED BY <3>5, <3>6, <3>7, <3>8, SizeAssumption DEF Chunk
  <2>5. c \in Extent(b, c)
    BY <2>1, SizeAssumption DEF Chunk
  <2> QED BY <2>2, <2>3, <2>4, <2>5 DEF b
<1> QED BY <1>1, <1>2

\* What erase() does to the table.
LEMMA EraseEffect ==
    ASSUME DirectoryInv, NEW c \in Chunk, Erase(c),
           m_table[c].type \in {"small_chunk", "large_chunk_head"}
    PROVE  LET X == Extent(m_table[c].bin_no, c)
           IN  /\ c \in X
               /\ X \subseteq Chunk
               /\ m_table' \in [Chunk -> Entry]
               /\ \A d \in X : /\ m_table'[d].type = "unused"
                               /\ m_table'[d].num_occupied_slots = 0
                               /\ m_table'[d].slot_occupancy = {}
                               /\ m_table'[d].bin_no = m_table[d].bin_no
               /\ \A d \in Chunk : d \notin X => m_table'[d] = m_table[d]
<1> DEFINE X == Extent(m_table[c].bin_no, c)
<1>1. X = ErasedRun(c) /\ c \in X /\ X \subseteq Chunk
  BY ErasedRunIsExtent
<1>2. m_table \in [Chunk -> Entry]
  BY DEF DirectoryInv, DirectoryTypeOK
<1>3. m_table' = [d \in Chunk |-> IF d \in ErasedRun(c)
                                  THEN InitEntry(m_table[d]) ELSE m_table[d]]
  BY DEF Erase, unused_chunk
<1> HIDE DEF X
<1>4. \A d \in X : m_table'[d] = InitEntry(m_table[d]) /\ m_table[d] \in Entry
  BY <1>1, <1>2, <1>3
<1>5. \A d \in X : /\ m_table'[d] \in Entry
                   /\ m_table'[d].type = "unused"
                   /\ m_table'[d].num_occupied_slots = 0
                   /\ m_table'[d].slot_occupancy = {}
                   /\ m_table'[d].bin_no = m_table[d].bin_no
  BY <1>4, InitEntryFields
<1>6. \A d \in Chunk : d \notin X => m_table'[d] = m_table[d]
  BY <1>1, <1>3
<1>7. m_table' \in [Chunk -> Entry]
  BY ZenonT(60), <1>2, <1>3, <1>5, <1>6
<1> QED BY <1>1, <1>5, <1>6, <1>7 DEF X

\* erase() keeps the invariant.
LEMMA EraseInv ==
    ASSUME DirectoryInv, NEW c \in Chunk, c <= m_last_used_chunk_no,
           m_table[c].type # "large_chunk_body", Erase(c)
    PROVE  DirectoryInv'
<1>0. /\ m_table \in [Chunk -> Entry]
      /\ m_last_used_chunk_no \in -1 .. MaxNumChunks - 1
      /\ m_table[c].type \in ChunkType
  BY DEF DirectoryInv, DirectoryTypeOK, Entry
<1>1. CASE unused_chunk(c)
  <2>1. UNCHANGED directoryVars
    BY <1>1 DEF Erase
  <2> QED BY <2>1 DEF directoryVars, DirectoryInv, DirectoryTypeOK, CountExact,
          OnlySmallMarked, SizeCoversUse, SizeIsTight, unused_chunk, LargeRuns
<1>2. CASE ~unused_chunk(c)
  <2>1. m_table[c].type \in {"small_chunk", "large_chunk_head"}
    BY <1>0, <1>2 DEF unused_chunk, ChunkType
  <2> DEFINE X == Extent(m_table[c].bin_no, c)
             last == m_last_used_chunk_no
  <2>2. /\ c \in X
        /\ X \subseteq Chunk
        /\ m_table' \in [Chunk -> Entry]
        /\ \A d \in X : /\ m_table'[d].type = "unused"
                        /\ m_table'[d].num_occupied_slots = 0
                        /\ m_table'[d].slot_occupancy = {}
        /\ \A d \in Chunk : d \notin X => m_table'[d] = m_table[d]
    BY <2>1, EraseEffect
  <2>3. X = ErasedRun(c)
    BY <2>1, ErasedRunIsExtent
  <2>4. IF last \in X /\ last + 1 \notin X
        THEN \E l \in -1 .. last :
                IsNextUsedBackward(last, l) /\ m_last_used_chunk_no' = l
        ELSE m_last_used_chunk_no' = last
    BY <1>2, <2>3 DEF Erase
  <2> HIDE DEF X
  <2>5. DirectoryTypeOK'
    BY <1>0, <2>2, <2>4, SizeAssumption DEF DirectoryTypeOK
  <2>6. CountExact' /\ OnlySmallMarked'
    BY <2>2 DEF CountExact, OnlySmallMarked, DirectoryInv
  <2>7. SizeCoversUse'
    <3>1. SizeCoversUse
      BY DEF DirectoryInv
    <3>2. CASE last \in X /\ last + 1 \notin X
      <4>1. PICK l \in -1 .. last :
               IsNextUsedBackward(last, l) /\ m_last_used_chunk_no' = l
        BY <2>4, <3>2
      <4>2. SizeIsTight'
        BY <4>1 DEF IsNextUsedBackward, SizeIsTight, unused_chunk
      <4>3. ASSUME NEW d \in Chunk, d > l
            PROVE  /\ m_table'[d].type \in {"unused", "small_chunk"}
                   /\ m_table'[d].slot_occupancy = {}
        <5>1. CASE d <= last
          <6>1. m_table'[d].type = "unused"
            BY <5>1, <4>1, <4>3, <1>0, SizeAssumption DEF IsNextUsedBackward, Chunk
          <6> QED BY <6>1, <2>6 DEF OnlySmallMarked
        <5>2. CASE d > last
          BY <5>2, <3>1, <2>2 DEF SizeCoversUse
        <5> QED BY <5>1, <5>2, <1>0, SizeAssumption DEF Chunk
      <4> QED BY <4>1, <4>2, <4>3 DEF SizeCoversUse
    <3>3. CASE ~(last \in X /\ last + 1 \notin X)
      <4>1. m_last_used_chunk_no' = last
        BY <2>4, <3>3
      <4>2. last \notin X
        <5>1. SUFFICES ASSUME last + 1 \in X PROVE FALSE
          BY <3>3
        <5>2. last + 1 \in Chunk /\ last + 1 > last
          BY <5>1, <2>2, <1>0
        <5>3. m_table[last + 1].type \in {"unused", "small_chunk"}
          BY <5>2, <3>1 DEF SizeCoversUse
        <5>4. last + 1 # c
          BY <1>0, SizeAssumption DEF Chunk
        <5>5. last + 1 \in ErasedRun(c)
          BY <5>1, <2>3
        <5>6. m_table[c].type # "small_chunk"
          BY <5>4, <5>5 DEF ErasedRun
        <5>7. m_table[last + 1].type = "large_chunk_body"
          BY <5>5, <5>6, <5>4, <1>0, SizeAssumption DEF ErasedRun, Chunk
        <5> QED BY <5>3, <5>7
      <4>3. SizeIsTight'
        BY <4>1, <4>2, <3>1, <2>2, <1>0, SizeAssumption
           DEF SizeCoversUse, SizeIsTight, unused_chunk, Chunk
      <4> QED BY <4>1, <4>3, <3>1, <2>2 DEF SizeCoversUse
    <3> QED BY <3>2, <3>3
  <2>8. LargeRuns'
    <3>1. LargeRuns
      BY DEF DirectoryInv
    \* An object other than the erased one has no chunk in X.
    <3>2. ASSUME NEW h \in Chunk, h \notin X, m_table[h].type = "large_chunk_head"
          PROVE  Extent(m_table[h].bin_no, h) \cap X = {}
      <4>1. /\ m_table[h].bin_no \in LargeBins
            /\ h + NumChunks[m_table[h].bin_no] <= MaxNumChunks
            /\ \A d \in Extent(m_table[h].bin_no, h) \ {h} :
                  m_table[d].type = "large_chunk_body"
        BY <3>1, <3>2 DEF LargeRuns
      <4>2. /\ NumChunks[m_table[h].bin_no] \in Nat \ {0}
            /\ Extent(m_table[h].bin_no, h) =
                  h .. h + NumChunks[m_table[h].bin_no] - 1
        BY <4>1, BinAssumption DEF Extent
      <4>3. SUFFICES ASSUME NEW d \in Extent(m_table[h].bin_no, h), d \in X
                     PROVE  FALSE
        OBVIOUS
      <4>4. d # h
        BY <3>2, <4>3
      <4>5. m_table[d].type = "large_chunk_body"
        BY <4>1, <4>3, <4>4
      <4>6. d # c
        BY <4>5, <2>1
      <4>7. m_table[c].type = "large_chunk_head"
        BY <2>1, <2>3, <4>3, <4>6 DEF ErasedRun
      <4>8. /\ d \in Chunk /\ d > c
            /\ \A e \in c + 1 .. d : m_table[e].type = "large_chunk_body"
        BY <2>2, <2>3, <4>3, <4>6, <4>7, SizeAssumption DEF ErasedRun, Chunk
      <4>9. h < d
        BY <4>2, <4>3, <4>4, SizeAssumption DEF Chunk
      <4>10. CASE h > c
        BY <4>10, <4>8, <4>9, <3>2, SizeAssumption DEF Chunk
      <4>11. CASE h < c
        <5>1. c \in Extent(m_table[h].bin_no, h) \ {h}
          BY <4>11, <4>2, <4>3, <4>8, SizeAssumption DEF Chunk
        <5> QED BY <5>1, <4>1, <4>7
      <4> QED BY <4>10, <4>11, <3>2, <2>2, SizeAssumption DEF Chunk
    <3>3. ASSUME NEW h \in Chunk, m_table'[h].type = "large_chunk_head"
          PROVE  /\ m_table'[h].bin_no \in LargeBins
                 /\ h + NumChunks[m_table'[h].bin_no] <= MaxNumChunks
                 /\ \A d \in Extent(m_table'[h].bin_no, h) \ {h} :
                       m_table'[d].type = "large_chunk_body"
      <4>1. h \notin X /\ m_table'[h] = m_table[h]
        BY <3>3, <2>2
      <4>2. /\ m_table[h].bin_no \in LargeBins
            /\ h + NumChunks[m_table[h].bin_no] <= MaxNumChunks
            /\ \A d \in Extent(m_table[h].bin_no, h) \ {h} :
                  m_table[d].type = "large_chunk_body"
        BY <3>1, <3>3, <4>1 DEF LargeRuns
      <4>3. Extent(m_table[h].bin_no, h) \subseteq Chunk
        BY <4>2, BinAssumption, SizeAssumption DEF Extent, Chunk
      <4>4. Extent(m_table[h].bin_no, h) \cap X = {}
        BY <3>2, <3>3, <4>1
      <4> QED BY <4>1, <4>2, <4>3, <4>4, <2>2
    <3>4. ASSUME NEW d \in Chunk, m_table'[d].type = "large_chunk_body"
          PROVE  \E h \in 0 .. d - 1 : /\ m_table'[h].type = "large_chunk_head"
                                       /\ d \in Extent(m_table'[h].bin_no, h)
      <4>1. d \notin X /\ m_table'[d] = m_table[d]
        BY <3>4, <2>2
      <4>2. PICK h \in 0 .. d - 1 : /\ m_table[h].type = "large_chunk_head"
                                   /\ d \in Extent(m_table[h].bin_no, h)
        BY <3>1, <3>4, <4>1 DEF LargeRuns
      <4>3. h \in Chunk
        BY SizeAssumption DEF Chunk
      <4>4. h \notin X
        <5>1. SUFFICES ASSUME h \in X PROVE d \in X
          BY <4>1
        <5>2. CASE h = c
          BY <5>2, <4>2 DEF X
        <5>3. CASE h # c
          BY <5>1, <5>3, <2>3, <4>2, SizeAssumption DEF ErasedRun, Chunk
        <5> QED BY <5>2, <5>3
      <4> QED BY <4>2, <4>3, <4>4, <2>2
    <3> QED BY <3>3, <3>4 DEF LargeRuns
  <2> QED BY <2>5, <2>6, <2>7, <2>8 DEF DirectoryInv
<1> QED BY <1>1, <1>2

-----------------------------------------------------------------------------
(* Marking and unmarking slots.                                            *)

\* The marked slots of chunk c become W, and nothing else changes.
SlotChange(c, W) ==
    /\ m_table' \in [Chunk -> Entry]
    /\ \A d \in Chunk : d # c => m_table'[d] = m_table[d]
    /\ m_table'[c].type = m_table[c].type
    /\ m_table'[c].bin_no = m_table[c].bin_no
    /\ m_table'[c].slot_occupancy = W
    /\ m_table'[c].num_occupied_slots = Cardinality(W)
    /\ W \subseteq Slot(m_table[c].bin_no)
    /\ m_last_used_chunk_no' = m_last_used_chunk_no

\* Such a change keeps the invariant.
LEMMA SlotChangeInv ==
    ASSUME DirectoryInv, NEW c \in Chunk, IsSmall(c), c <= m_last_used_chunk_no,
           NEW W, SlotChange(c, W)
    PROVE  DirectoryInv'
<1> USE DEF SlotChange
<1>1. DirectoryTypeOK'
  BY DEF DirectoryInv, DirectoryTypeOK
<1>2. CountExact' /\ OnlySmallMarked'
  BY DEF DirectoryInv, CountExact, OnlySmallMarked, IsSmall
<1>3. SizeCoversUse'
  <2>1. SizeIsTight'
    BY SizeAssumption DEF DirectoryInv, DirectoryTypeOK, SizeCoversUse,
       SizeIsTight, unused_chunk, Chunk, IsSmall
  <2>2. \A d \in Chunk : d > m_last_used_chunk_no => d # c
    BY SizeAssumption DEF Chunk, DirectoryInv, DirectoryTypeOK
  <2> QED BY <2>1, <2>2 DEF DirectoryInv, SizeCoversUse
<1>4. LargeRuns'
  <2>1. \A d \in Chunk : /\ m_table'[d].type = m_table[d].type
                         /\ m_table'[d].bin_no = m_table[d].bin_no
    OBVIOUS
  <2>2. ASSUME NEW h \in Chunk, m_table[h].type = "large_chunk_head"
        PROVE  Extent(m_table[h].bin_no, h) \subseteq Chunk
    <3>1. /\ m_table[h].bin_no \in LargeBins
          /\ h + NumChunks[m_table[h].bin_no] <= MaxNumChunks
      BY <2>2 DEF DirectoryInv, LargeRuns
    <3> QED BY SMTT(20), Zenon, <3>1, BinAssumption, SizeAssumption DEF Extent, Chunk
  <2>3. \A d \in Chunk : 0 .. d - 1 \subseteq Chunk
    BY SizeAssumption DEF Chunk
  <2> QED BY <2>1, <2>2, <2>3 DEF DirectoryInv, LargeRuns
<1> QED BY <1>1, <1>2, <1>3, <1>4 DEF DirectoryInv

\* find_and_mark_slot and find_and_mark_many_slots add the slots found.
LEMMA MarkEffect ==
    ASSUME DirectoryInv, NEW c \in Chunk, IsSmall(c),
           NEW S \in SUBSET FreeSlots(c), IsFiniteSet(S), MarkSlots(c, S)
    PROVE  /\ SlotChange(c, m_table[c].slot_occupancy \cup S)
           /\ m_table'[c].num_occupied_slots =
                 m_table[c].num_occupied_slots + Cardinality(S)
<1> DEFINE e == m_table[c]
<1>1. /\ m_table \in [Chunk -> Entry]
      /\ e \in Entry
      /\ e.bin_no \in SmallBins
      /\ e.slot_occupancy \subseteq Slot(e.bin_no)
      /\ e.num_occupied_slots = Cardinality(e.slot_occupancy)
  BY DEF DirectoryInv, DirectoryTypeOK, CountExact, IsSmall
<1>2. S \subseteq Slot(e.bin_no) /\ S \cap e.slot_occupancy = {}
  BY DEF FreeSlots
<1>3. IsFiniteSet(e.slot_occupancy)
  BY <1>1, SlotsFinite, FS_Subset
<1>4. Cardinality(e.slot_occupancy \cup S) = e.num_occupied_slots + Cardinality(S)
  <2>1. Cardinality(e.slot_occupancy \cup S) =
          Cardinality(e.slot_occupancy) + Cardinality(S)
            - Cardinality(e.slot_occupancy \cap S)
    BY <1>3, FS_Union
  <2>2. e.slot_occupancy \cap S = {}
    BY <1>2
  <2>3. Cardinality(e.slot_occupancy \cap S) = 0
    BY <2>2, FS_EmptySet
  <2>4. Cardinality(e.slot_occupancy) \in Nat /\ Cardinality(S) \in Nat
    BY <1>3, FS_CardinalityType
  <2> QED BY <2>1, <2>3, <2>4, <1>1
<1>5. Cardinality(S) \in Nat
  BY FS_CardinalityType
<1>6. Slot(e.bin_no) \subseteq Nat
  BY DEF Slot
<1>7. /\ m_table' = [m_table EXCEPT
                       ![c].slot_occupancy = @ \cup S,
                       ![c].num_occupied_slots = @ + Cardinality(S)]
      /\ UNCHANGED m_last_used_chunk_no
  BY DEF MarkSlots
<1>8. /\ m_table' \in [Chunk -> Entry]
      /\ \A d \in Chunk : d # c => m_table'[d] = m_table[d]
      /\ m_table'[c].type = e.type
      /\ m_table'[c].bin_no = e.bin_no
      /\ m_table'[c].slot_occupancy = e.slot_occupancy \cup S
      /\ m_table'[c].num_occupied_slots = e.num_occupied_slots + Cardinality(S)
  <2> DEFINE n == e.num_occupied_slots + Cardinality(S)
             W == e.slot_occupancy \cup S
  <2>1. n \in Nat /\ W \in SUBSET Nat
    <3>1. e.num_occupied_slots \in Nat
      BY <1>1 DEF Entry
    <3> QED BY <3>1, <1>1, <1>2, <1>5, <1>6
  <2>2. m_table' = [m_table EXCEPT ![c].slot_occupancy = W,
                                   ![c].num_occupied_slots = n]
    BY <1>1, <1>7
  <2> HIDE DEF n, W
  <2>3. /\ m_table' \in [Chunk -> Entry]
        /\ \A d \in Chunk : d # c => m_table'[d] = m_table[d]
        /\ m_table'[c].type = e.type
        /\ m_table'[c].bin_no = e.bin_no
        /\ m_table'[c].slot_occupancy = W
        /\ m_table'[c].num_occupied_slots = n
    BY Zenon, <1>1, <2>1, <2>2 DEF Entry
  <2> QED BY <2>3 DEF n, W
<1> QED BY <1>1, <1>2, <1>4, <1>7, <1>8 DEF SlotChange

\* unmark_slot removes one slot.
LEMMA UnmarkEffect ==
    ASSUME DirectoryInv, NEW c \in Chunk, IsSmall(c),
           NEW s \in m_table[c].slot_occupancy, unmark_slot(c, s)
    PROVE  /\ SlotChange(c, m_table[c].slot_occupancy \ {s})
           /\ m_table'[c].num_occupied_slots = m_table[c].num_occupied_slots - 1
<1> DEFINE e == m_table[c]
<1>1. /\ m_table \in [Chunk -> Entry]
      /\ e \in Entry
      /\ e.bin_no \in SmallBins
      /\ e.slot_occupancy \subseteq Slot(e.bin_no)
      /\ e.num_occupied_slots = Cardinality(e.slot_occupancy)
  BY DEF DirectoryInv, DirectoryTypeOK, CountExact, IsSmall
<1>2. IsFiniteSet(e.slot_occupancy)
  BY <1>1, SlotsFinite, FS_Subset
<1>3. Cardinality(e.slot_occupancy \ {s}) = e.num_occupied_slots - 1
  BY ZenonT(60), <1>1, <1>2, FS_RemoveElement
<1>4. Cardinality(e.slot_occupancy \ {s}) \in Nat
  BY <1>2, FS_Subset, FS_CardinalityType
<1>5. /\ m_table' = [m_table EXCEPT
                       ![c].slot_occupancy = @ \ {s},
                       ![c].num_occupied_slots = @ - 1]
      /\ UNCHANGED m_last_used_chunk_no
  BY DEF unmark_slot
<1>6. /\ m_table' \in [Chunk -> Entry]
      /\ \A d \in Chunk : d # c => m_table'[d] = m_table[d]
      /\ m_table'[c].type = e.type
      /\ m_table'[c].bin_no = e.bin_no
      /\ m_table'[c].slot_occupancy = e.slot_occupancy \ {s}
      /\ m_table'[c].num_occupied_slots = e.num_occupied_slots - 1
  BY <1>1, <1>3, <1>4, <1>5 DEF Entry
<1> QED BY <1>1, <1>3, <1>5, <1>6 DEF SlotChange

-----------------------------------------------------------------------------
(* The theorems.                                                           *)

\* Every call of a directory operation that its asserts allow keeps the
\* invariant.  The allocator's proof uses this for its own steps.
LEMMA DirectoryStepInv ==
    ASSUME DirectoryInv, [DirectoryNext]_directoryVars
    PROVE  DirectoryInv'
<1>1. /\ m_last_used_chunk_no \in -1 .. MaxNumChunks - 1
      /\ 0 .. m_last_used_chunk_no \subseteq Chunk
  BY SizeAssumption DEF DirectoryInv, DirectoryTypeOK, Chunk
<1>2. CASE CallInsertSmall
  BY <1>2, InsertSmallInv, InsertSmallNoMemoryInv DEF CallInsertSmall
<1>3. CASE CallInsertLarge
  BY <1>3, InsertLargeInv DEF CallInsertLarge
<1>4. CASE CallErase
  BY <1>1, <1>4, EraseInv DEF CallErase
<1>5. CASE CallMark
  <2>1. PICK c \in 0 .. m_last_used_chunk_no :
           /\ IsSmall(c)
           /\ \E S \in SUBSET FreeSlots(c) :
                LowestFree(c, Cardinality(S), S) /\ MarkSlots(c, S)
    BY <1>5 DEF CallMark
  <2>2. PICK S \in SUBSET FreeSlots(c) : IsFiniteSet(S) /\ MarkSlots(c, S)
    BY <2>1 DEF LowestFree
  <2>3. c \in Chunk /\ c <= m_last_used_chunk_no
    BY <1>1
  <2> QED BY Zenon, <2>1, <2>2, <2>3, MarkEffect, SlotChangeInv
<1>6. CASE CallUnmark
  <2>1. PICK c \in 0 .. m_last_used_chunk_no :
           /\ IsSmall(c)
           /\ \E s \in m_table[c].slot_occupancy : unmark_slot(c, s)
    BY <1>6 DEF CallUnmark
  <2>2. c \in Chunk /\ c <= m_last_used_chunk_no
    BY <1>1
  <2> QED BY Zenon, <2>1, <2>2, UnmarkEffect, SlotChangeInv
<1>7. CASE UNCHANGED directoryVars
  BY <1>7 DEF directoryVars, DirectoryInv, DirectoryTypeOK, CountExact,
     OnlySmallMarked, SizeCoversUse, SizeIsTight, unused_chunk, LargeRuns
<1> QED BY <1>2, <1>3, <1>4, <1>5, <1>6, <1>7 DEF DirectoryNext

\* Whatever sequence of calls the directory receives, for any number of chunks
\* and any bins, its invariant holds.
THEOREM DirectoryInvariant == DirectorySpec => []DirectoryInv
<1>1. DirectoryInit => DirectoryInv
  BY DirectoryInitInv
<1>2. DirectoryInv /\ [DirectoryNext]_directoryVars => DirectoryInv'
  BY DirectoryStepInv
<1> QED BY <1>1, <1>2, PTL DEF DirectorySpec

\* num_occupied_slots always counts the marked slots.
THEOREM CounterIsExact == DirectorySpec => []CountExact
<1>1. DirectoryInv => CountExact
  BY DEF DirectoryInv
<1> QED BY <1>1, DirectoryInvariant, PTL

\* size() always covers every object, and ends at a chunk in use.
THEOREM SizeIsRight == DirectorySpec => []SizeCoversUse
<1>1. DirectoryInv => SizeCoversUse
  BY DEF DirectoryInv
<1> QED BY <1>1, DirectoryInvariant, PTL

\* A large head is always followed by the body chunks of its own object.
THEOREM LargeObjectsIntact == DirectorySpec => []LargeRuns
<1>1. DirectoryInv => LargeRuns
  BY DEF DirectoryInv
<1> QED BY <1>1, DirectoryInvariant, PTL

-----------------------------------------------------------------------------
(* A step empties at most one object.                                      *)

\* A call of erase() empties the chunks of one allocation.
LEMMA EraseEmptiesExtent ==
    ASSUME DirectoryInv, CallErase
    PROVE  EmptiesOneExtent
<1>1. /\ m_last_used_chunk_no \in -1 .. MaxNumChunks - 1
      /\ 0 .. m_last_used_chunk_no \subseteq Chunk
  BY SizeAssumption DEF DirectoryInv, DirectoryTypeOK, Chunk
<1>2. PICK c \in 0 .. m_last_used_chunk_no :
         m_table[c].type # "large_chunk_body" /\ Erase(c)
  BY DEF CallErase
<1> DEFINE emptied == {d \in 0 .. m_last_used_chunk_no :
                          ~unused_chunk(d) /\ unused_chunk(d)'}
<1>3. CASE unused_chunk(c)
  <2>1. m_table' = m_table
    BY <1>2, <1>3 DEF Erase, directoryVars
  <2>2. emptied = {}
    BY <2>1 DEF unused_chunk
  <2> QED BY <2>2 DEF EmptiesOneExtent
<1>4. CASE ~unused_chunk(c)
  <2>1. c \in Chunk /\ m_table[c] \in Entry
    BY <1>1 DEF DirectoryInv, DirectoryTypeOK
  <2>2. m_table[c].type \in {"small_chunk", "large_chunk_head"}
    BY <1>2, <1>4, <2>1 DEF Entry, ChunkType, unused_chunk
  <2> DEFINE X == Extent(m_table[c].bin_no, c)
  <2>3. /\ c \in X
        /\ X \subseteq Chunk
        /\ \A d \in X : m_table'[d].type = "unused"
        /\ \A d \in Chunk : d \notin X => m_table'[d] = m_table[d]
    BY <1>2, <2>1, <2>2, EraseEffect
  <2>4. X = ErasedRun(c)
    BY <2>1, <2>2, ErasedRunIsExtent
  <2> HIDE DEF X
  <2>5. ASSUME NEW d \in X PROVE ~unused_chunk(d) /\ d \in 0 .. m_last_used_chunk_no
    <3>1. CASE d = c
      BY <3>1, <1>4
    <3>2. CASE d # c
      <4>1. d \in Chunk /\ d \in ErasedRun(c)
        BY <2>3, <2>4, <2>5
      <4>2. m_table[d].type = "large_chunk_body"
        BY <4>1, <3>2, <2>1, SizeAssumption DEF ErasedRun, Chunk
      <4>3. ~(d > m_last_used_chunk_no)
        BY <4>1, <4>2 DEF DirectoryInv, SizeCoversUse
      <4> QED BY <4>1, <4>2, <4>3, <1>1, SizeAssumption DEF unused_chunk, Chunk
    <3> QED BY <3>1, <3>2
  <2>6. emptied = X
    BY <1>1, <2>3, <2>5 DEF unused_chunk
  <2>7. c \in emptied /\ emptied = Extent(m_table[c].bin_no, c)
    BY <2>3, <2>6 DEF X
  <2> HIDE DEF emptied
  <2>8. emptied = {} \/ \E d \in emptied : emptied = Extent(m_table[d].bin_no, d)
    BY <2>7
  <2> QED BY <2>8 DEF EmptiesOneExtent, emptied
<1> QED BY <1>3, <1>4

\* The other operations empty no chunk that was in use.
LEMMA OthersEmptyNothing ==
    ASSUME DirectoryInv,
           CallInsertSmall \/ CallInsertLarge \/ CallMark \/ CallUnmark
    PROVE  EmptiesOneExtent
<1>1. /\ m_table \in [Chunk -> Entry]
      /\ m_last_used_chunk_no \in -1 .. MaxNumChunks - 1
      /\ 0 .. m_last_used_chunk_no \subseteq Chunk
  BY SizeAssumption DEF DirectoryInv, DirectoryTypeOK, Chunk
<1>2. SUFFICES ASSUME NEW d \in 0 .. m_last_used_chunk_no, ~unused_chunk(d)
               PROVE  m_table'[d].type # "unused"
  BY DEF EmptiesOneExtent, unused_chunk
<1>3. d \in Chunk /\ ~(d > m_last_used_chunk_no) /\ m_table[d] \in Entry
  BY <1>1, <1>2, SizeAssumption DEF Chunk
<1>4. CASE CallInsertSmall
  BY <1>1, <1>2, <1>3, <1>4 DEF CallInsertSmall, InsertSmall,
     InsertSmallNoMemory, SmallEntry, directoryVars, unused_chunk
<1>5. CASE CallInsertLarge
  <2>1. PICK b \in LargeBins, c \in 0 .. MaxNumChunks : InsertLarge(b, c)
    BY <1>5 DEF CallInsertLarge
  <2>2. \/ m_table' = [e \in Chunk |-> IF e \in Extent(b, c)
                                THEN LargeEntry(b, c, e) ELSE m_table[e]]
        \/ m_table' = [e \in Chunk |-> IF e > m_last_used_chunk_no
                                THEN InitEntry(m_table[e]) ELSE m_table[e]]
    BY <2>1 DEF InsertLarge
  <2>3. LargeEntry(b, c, d).type \in {"large_chunk_head", "large_chunk_body"}
    BY <1>3 DEF LargeEntry, Entry
  <2> QED BY <1>2, <1>3, <2>2, <2>3 DEF unused_chunk
<1>6. CASE CallMark
  BY <1>1, <1>2, <1>3, <1>6 DEF CallMark, MarkSlots, unused_chunk, Entry
<1>7. CASE CallUnmark
  BY <1>1, <1>2, <1>3, <1>7 DEF CallUnmark, unmark_slot, unused_chunk, Entry
<1> QED BY <1>4, <1>5, <1>6, <1>7

\* erase(), which is given no length, frees the chunks of exactly one object.
THEOREM ErasesOneObject == DirectorySpec => EraseIsExact
<1>1. DirectoryInv /\ [DirectoryNext]_directoryVars
         => [EmptiesOneExtent]_directoryVars
  BY EraseEmptiesExtent, OthersEmptyNothing DEF DirectoryNext
<1> QED BY <1>1, DirectoryInvariant, PTL DEF DirectorySpec, EraseIsExact
=============================================================================
