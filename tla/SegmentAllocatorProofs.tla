----------------------- MODULE SegmentAllocatorProofs -----------------------
(***************************************************************************)
(* The allocator keeps AllocatorInv, for any number of threads, chunks and *)
(* bins, any batch sizes and any capacity; objects therefore never overlap *)
(* and none is lost, and the directory is used as its asserts allow.  This *)
(* holds as long as the store lives: closing writes enough, and opening    *)
(* reads it back, whatever the threads did before and however often        *)
(* opening failed.                                                         *)
(***************************************************************************)
EXTENDS AllocatorFiles, SegmentAllocatorChunks

-----------------------------------------------------------------------------
(* The lists of non-full chunks.                                           *)

In(q, c) == \E i \in DOMAIN q : q[i] = c
Once(q) == \A i, j \in DOMAIN q : q[i] = q[j] => i = j

\* bin_directory::insert puts a new number in front.
LEMMA PushFront ==
    ASSUME NEW q \in Seq(Chunk), Once(q), NEW c \in Chunk, ~In(q, c)
    PROVE  /\ Once(<<c>> \o q)
           /\ \A d : In(<<c>> \o q, d) <=> d = c \/ In(q, d)
<1> DEFINE r == <<c>> \o q
<1>1. /\ Len(q) \in Nat /\ DOMAIN q = 1 .. Len(q)
      /\ DOMAIN r = 1 .. Len(q) + 1
      /\ r[1] = c
      /\ \A i \in 2 .. Len(q) + 1 : r[i] = q[i - 1]
  OBVIOUS
<1> HIDE DEF r
<1>2. \A i \in DOMAIN r : i = 1 \/ (i \in 2 .. Len(q) + 1 /\ i - 1 \in DOMAIN q)
  BY <1>1
<1>3. \A i \in DOMAIN q : i + 1 \in DOMAIN r /\ i + 1 \in 2 .. Len(q) + 1 /\ (i + 1) - 1 = i
  BY <1>1
<1>4. Once(r)
  <2> SUFFICES ASSUME NEW i \in DOMAIN r, NEW j \in DOMAIN r, r[i] = r[j]
               PROVE  i = j
    BY Zenon DEF Once
  <2>1. i \in Int /\ j \in Int
    BY <1>1
  <2>2. CASE i # 1 /\ j # 1
    <3>1. i - 1 = j - 1
      BY ZenonT(60), <1>1, <1>2, <2>2 DEF Once
    <3> QED BY <2>1, <3>1
  <2>3. CASE i = 1 /\ j # 1
    BY ZenonT(60), <1>1, <1>2, <2>3 DEF In
  <2>4. CASE i # 1 /\ j = 1
    BY ZenonT(60), <1>1, <1>2, <2>4 DEF In
  <2> QED BY ZenonT(60), <2>2, <2>3, <2>4
<1>5. ASSUME NEW d PROVE In(r, d) <=> d = c \/ In(q, d)
  <2>1. ASSUME In(r, d) PROVE d = c \/ In(q, d)
    BY ZenonT(60), <1>1, <1>2, <2>1 DEF In
  <2>2. ASSUME In(q, d) PROVE In(r, d)
    BY <1>1, <1>3, <2>2 DEF In
  <2>3. In(r, c)
    BY <1>1 DEF In
  <2> QED BY ZenonT(60), <2>1, <2>2, <2>3
<1> QED BY ZenonT(60), <1>4, <1>5 DEF r

\* bin_directory::pop drops the number in front.
LEMMA PopFront ==
    ASSUME NEW q \in Seq(Chunk), Once(q), 1 \in DOMAIN q
    PROVE  /\ Once(Tail(q))
           /\ \A d : In(Tail(q), d) <=> In(q, d) /\ d # q[1]
<1> DEFINE r == Tail(q)
<1>1. /\ Len(q) \in Nat /\ DOMAIN q = 1 .. Len(q)
      /\ DOMAIN r = 1 .. Len(q) - 1
      /\ \A i \in 1 .. Len(q) - 1 : r[i] = q[i + 1]
  OBVIOUS
<1> HIDE DEF r
<1>2. \A i \in DOMAIN r : i + 1 \in DOMAIN q /\ i + 1 # 1 /\ r[i] = q[i + 1]
  BY <1>1
<1>3. \A i \in DOMAIN q : i # 1 => i - 1 \in DOMAIN r /\ r[i - 1] = q[i]
  BY <1>1
<1>4. Once(r)
  <2> SUFFICES ASSUME NEW i \in DOMAIN r, NEW j \in DOMAIN r, r[i] = r[j]
               PROVE  i = j
    BY Zenon DEF Once
  <2>1. i + 1 = j + 1
    BY Zenon, <1>2 DEF Once
  <2> QED BY <1>1, <2>1
<1>5. ASSUME NEW d PROVE In(r, d) <=> In(q, d) /\ d # q[1]
  <2>1. ASSUME In(r, d) PROVE In(q, d) /\ d # q[1]
    BY Zenon, <1>2, <2>1 DEF In, Once
  <2>2. ASSUME In(q, d), d # q[1] PROVE In(r, d)
    BY Zenon, <1>3, <2>2 DEF In
  <2> QED BY Zenon, <2>1, <2>2
<1> QED BY Zenon, <1>4, <1>5 DEF r

\* bin_directory::erase drops one number wherever it is.
LEMMA EraseAt ==
    ASSUME NEW q \in Seq(Chunk), Once(q), NEW k \in DOMAIN q
    PROVE  /\ Once(WithoutAt(q, k))
           /\ \A d : In(WithoutAt(q, k), d) <=> In(q, d) /\ d # q[k]
<1> DEFINE r == WithoutAt(q, k)
<1>1. /\ Len(q) \in Nat /\ DOMAIN q = 1 .. Len(q) /\ k \in 1 .. Len(q)
      /\ DOMAIN r = 1 .. Len(q) - 1
      /\ \A i \in 1 .. Len(q) - 1 : r[i] = IF i < k THEN q[i] ELSE q[i + 1]
  BY DEF WithoutAt
<1> HIDE DEF r
<1>2. \A i \in DOMAIN r :
         \/ i < k /\ i \in DOMAIN q /\ i # k /\ r[i] = q[i]
         \/ i >= k /\ i + 1 \in DOMAIN q /\ i + 1 # k /\ r[i] = q[i + 1]
  BY <1>1
<1>3. \A i \in DOMAIN q : \/ i = k
                          \/ i < k /\ i \in DOMAIN r /\ r[i] = q[i]
                          \/ i > k /\ i - 1 \in DOMAIN r /\ r[i - 1] = q[i]
  BY <1>1
<1>4. Once(r)
  <2> SUFFICES ASSUME NEW i \in DOMAIN r, NEW j \in DOMAIN r, r[i] = r[j]
               PROVE  i = j
    BY Zenon DEF Once
  <2>1. i \in Int /\ j \in Int /\ k \in Int
    BY <1>1
  <2>2. CASE i < k /\ j < k
    BY <1>2, <2>1, <2>2 DEF Once
  <2>3. CASE i >= k /\ j >= k
    <3>1. i + 1 = j + 1
      BY <1>2, <2>1, <2>3 DEF Once
    <3> QED BY <2>1, <3>1
  <2>4. CASE i < k /\ j >= k
    <3>1. i = j + 1
      BY <1>2, <2>1, <2>4 DEF Once
    <3> QED BY <2>1, <2>4, <3>1
  <2>5. CASE i >= k /\ j < k
    <3>1. i + 1 = j
      BY <1>2, <2>1, <2>5 DEF Once
    <3> QED BY <2>1, <2>5, <3>1
  <2> QED BY <2>1, <2>2, <2>3, <2>4, <2>5
<1>5. ASSUME NEW d PROVE In(r, d) <=> In(q, d) /\ d # q[k]
  <2>1. ASSUME In(r, d) PROVE In(q, d) /\ d # q[k]
    BY Zenon, <1>2, <2>1 DEF In, Once
  <2>2. ASSUME In(q, d), d # q[k] PROVE In(r, d)
    BY Zenon, <1>3, <2>2 DEF In
  <2> QED BY Zenon, <2>1, <2>2
<1> QED BY Zenon, <1>4, <1>5 DEF r

\* ListsOK for one bin, with the bin's list in full.
ListOKOf(b) ==
    LET q == m_non_full_chunk_bin[b]
    IN  /\ Once(q)
        /\ \A c \in Chunk : PartlyFull(b, c) => In(q, c)
        /\ \A c \in Chunk : In(q, c) =>
              PartlyFull(b, c) \/ \E t \in Threads : ListedFor(b, c, t)

\* The lists are right when the list of each bin is.
LEMMA ListsOKIs ==
    /\ ListsOK <=> \A b \in SmallBins : ListOKOf(b)
    /\ ListsOK' <=> \A b \in SmallBins : ListOKOf(b)'
BY Zenon DEF ListsOK, ListOKOf, ListedOnce, Listed, Once, In

\* A chunk with objects and free slots cannot be taken by an insertion.
LEMMA PartlyFullInUse ==
    ASSUME AllocatorInv, NEW b \in SmallBins, NEW c \in Chunk, PartlyFull(b, c)
    PROVE  ~Insertable(c) /\ ~unused_chunk(c)
<1>1. /\ m_table[c].type = "small_chunk"
      /\ m_table[c].num_occupied_slots \in 1 .. NumSlots[b] - 1
      /\ NumSlots[b] \in Nat
  BY Zenon, BinAssumption DEF PartlyFull
<1>2. m_table[c].num_occupied_slots # 0
  BY <1>1
<1>3. c <= m_last_used_chunk_no
  BY Zenon, <1>1, <1>2, CountTells DEF AllocatorInv
<1> QED BY <1>1, <1>3, Types, SizeAssumption DEF Insertable, unused_chunk, Chunk

\* The lists of the bins whose mutex the acting thread does not hold.
LEMMA ListKeptOthers ==
    ASSUME AllocatorInv, NEW t \in Threads, Call(t) \/ Continue(t),
           NEW b \in SmallBins, m_bin_mutex[b] # t
    PROVE  ListOKOf(b)'
<1>1. m_non_full_chunk_bin'[b] = m_non_full_chunk_bin[b]
  BY Zenon, ListsOfOthers
<1>2. pc[t] \in {"alloc", "free", "erase"} => bin[t] # b
  BY Zenon, OwnsBin DEF HoldsBinMutex
<1>3. ASSUME NEW c \in Chunk PROVE PartlyFull(b, c)' <=> PartlyFull(b, c)
  <2>1. ASSUME PartlyFull(b, c) PROVE PartlyFull(b, c)'
    <3>1. m_table'[c] = m_table[c]
      BY Zenon, <1>2, <2>1, PartlyFullInUse, EntryStep DEF PartlyFull
    <3> QED BY Zenon, <2>1, <3>1 DEF PartlyFull
  <2>2. ASSUME PartlyFull(b, c)' PROVE PartlyFull(b, c)
    <3>1. m_table'[c] = m_table[c]
      BY Zenon, <1>2, <2>2, EntryStep DEF PartlyFull
    <3> QED BY Zenon, <2>2, <3>1 DEF PartlyFull
  <2> QED BY Zenon, <2>1, <2>2
<1>4. ASSUME NEW c \in Chunk, NEW u \in Threads, ListedFor(b, c, u)
      PROVE  ListedFor(b, c, u)'
  <2>1. m_bin_mutex[b] = u /\ u # t
    BY Zenon, <1>4 DEF ListedFor
  <2>2. pc[u] \in HoldsBinMutex /\ bin[u] = b
    BY ZenonT(60), <2>1 DEF AllocatorInv, LocksOK
  <2>3. /\ pc'[u] = pc[u] /\ bin'[u] = bin[u]
        /\ todo'[u] = todo[u] /\ chunk'[u] = chunk[u]
    BY ZenonT(60), <2>1, OthersUnchanged
  <2>4. m_bin_mutex'[b] = u
    BY Zenon, <2>2, <2>3, LocksKept DEF LocksOK
  <2>5. Fresh(b, c) => Fresh(b, c)'
    BY Zenon, <2>1, <2>2, FreshKept
  <2> QED BY Zenon, <1>1, <1>4, <2>3, <2>4, <2>5 DEF ListedFor
<1>5. ListOKOf(b)
  BY Zenon, ListsOKIs DEF AllocatorInv
<1> QED BY Zenon, <1>1, <1>3, <1>4, <1>5 DEF ListOKOf

\* ListOKOf(b)' from facts about the new list and the new table.
LEMMA ListOKFrom ==
    ASSUME NEW b \in SmallBins, NEW t \in Threads, NEW q,
           m_non_full_chunk_bin'[b] = q, Once(q),
           \A c \in Chunk : PartlyFull(b, c)' => In(q, c),
           \A c \in Chunk : In(q, c) => PartlyFull(b, c)' \/ ListedFor(b, c, t)'
    PROVE  ListOKOf(b)'
BY Zenon DEF ListOKOf

\* A turn of the allocation loop keeps the list of its bin.
LEMMA ListKeptTake ==
    ASSUME AllocatorInv, NEW t \in Threads, NEW b \in SmallBins, b = bin[t],
           ListOKOf(b), AllocateFromChunk(t)
    PROVE  ListOKOf(b)'
<1>1. PICK c \in Chunk : \E S \in SUBSET FreeSlots(c) : Takes(t, c, S)
  BY Zenon, TakeEffect
<1>2. PICK S \in SUBSET FreeSlots(c) : Takes(t, c, S)
  BY Zenon, <1>1 
<1> DEFINE W == m_table[c].slot_occupancy \cup S
<1>3. /\ 1 \in DOMAIN m_non_full_chunk_bin[b]
      /\ c = m_non_full_chunk_bin[b][1]
      /\ IsSmall(c) /\ m_table[c].bin_no = b
      /\ m_table[c].num_occupied_slots < NumSlots[b]
      /\ SlotChange(c, W)
      /\ Cardinality(S) \in 1 .. todo[t]
      /\ m_table'[c].num_occupied_slots
            = m_table[c].num_occupied_slots + Cardinality(S)
      /\ IF m_table'[c].num_occupied_slots = NumSlots[b]
         THEN BinPop(b) ELSE UNCHANGED m_non_full_chunk_bin
  BY Zenon, <1>2 DEF Takes
<1> HIDE DEF W
<1>4. /\ \A d \in Chunk : d # c => m_table'[d] = m_table[d]
      /\ m_table'[c].type = "small_chunk" /\ m_table'[c].bin_no = b
      /\ m_table'[c].num_occupied_slots = Cardinality(W)
      /\ W \subseteq Slot(b)
  BY Zenon, <1>3 DEF SlotChange, IsSmall
<1>5. NumSlots[b] \in Nat \ {0, 1} /\ Cardinality(W) \in Nat /\ Cardinality(W) <= NumSlots[b]
  BY <1>4, BinAssumption, SlotsFinite, FS_Subset, FS_CardinalityType
<1>6. m_table'[c].num_occupied_slots >= 1
  <2>1. m_table[c].num_occupied_slots \in Nat /\ Cardinality(S) \in Nat /\ Cardinality(S) >= 1
    BY <1>3, CountTells, Types DEF AllocatorInv, IsSmall
  <2> QED BY <1>3, <2>1, SMTT(30)
<1>7. PartlyFull(b, c)' <=> m_table'[c].num_occupied_slots # NumSlots[b]
  BY <1>4, <1>5, <1>6 DEF PartlyFull
<1>8. \A d \in Chunk : d # c => (PartlyFull(b, d)' <=> PartlyFull(b, d))
  BY Zenon, <1>4 DEF PartlyFull
<1> DEFINE q == m_non_full_chunk_bin[b]
<1>9. pc[t] = "alloc"
  BY Zenon DEF AllocateFromChunk
<1>10. q \in Seq(Chunk) /\ Once(q) /\ In(q, c)
  BY Zenon, <1>3, Types DEF ListOKOf, In
<1>11. ASSUME NEW d \in Chunk, In(q, d), d # c PROVE PartlyFull(b, d)
  <2>1. \A u \in Threads : ListedFor(b, d, u) => u = t
    BY Zenon, OwnsBin, <1>9 DEF ListedFor, HoldsBinMutex
  <2>2. ~ListedFor(b, d, t)
    <3>1. <<d>>[1] = d
      OBVIOUS
    <3> QED BY Zenon, <1>3, <1>9, <1>11, <3>1 DEF ListedFor
  <2> QED BY Zenon, <1>11, <2>1, <2>2 DEF ListOKOf
<1>12. \A d \in Chunk : PartlyFull(b, d) => In(q, d)
  BY Zenon DEF ListOKOf
<1>13. CASE m_table'[c].num_occupied_slots = NumSlots[b]
  <2>1. m_non_full_chunk_bin'[b] = Tail(q)
    BY Zenon, <1>3, <1>13, Types DEF BinPop
  <2> HIDE DEF q
  <2>2. Once(Tail(q)) /\ \A d : In(Tail(q), d) <=> In(q, d) /\ d # c
    BY Zenon, <1>3, <1>10, PopFront DEF q
  <2>3. \A d \in Chunk : PartlyFull(b, d)' => In(Tail(q), d)
    BY Zenon, <1>7, <1>8, <1>12, <1>13, <2>2
  <2>4. \A d \in Chunk : In(Tail(q), d) => PartlyFull(b, d)'
    BY Zenon, <1>8, <1>11, <2>2
  <2> QED BY Zenon, <2>1, <2>2, <2>3, <2>4 DEF ListOKOf
<1>14. CASE m_table'[c].num_occupied_slots # NumSlots[b]
  <2>1. m_non_full_chunk_bin'[b] = q
    BY Zenon, <1>3, <1>14
  <2> HIDE DEF q
  <2>2. \A d \in Chunk : PartlyFull(b, d)' => In(q, d)
    BY Zenon, <1>8, <1>10, <1>12
  <2>3. \A d \in Chunk : In(q, d) => PartlyFull(b, d)'
    BY Zenon, <1>7, <1>8, <1>11, <1>14 
  <2> QED BY Zenon, <1>10, <2>1, <2>2, <2>3 DEF ListOKOf
<1> QED BY Zenon, <1>13, <1>14

\* A turn of the deallocation loop keeps the list of its bin.
LEMMA ListKeptFree ==
    ASSUME AllocatorInv, NEW t \in Threads, NEW b \in SmallBins, b = bin[t],
           ListOKOf(b), FreeSlot(t)
    PROVE  ListOKOf(b)'
<1>1. PICK o \in objs[t], c \in Chunk, s \in Nat : Frees(t, o, c, s)
  BY Zenon, FreeEffect 
<1> DEFINE n == m_table[c].num_occupied_slots
           q == m_non_full_chunk_bin[b]
<1>2. /\ \A d \in Chunk : d # c => m_table'[d] = m_table[d]
      /\ m_table[c].type = "small_chunk" /\ m_table[c].bin_no = b
      /\ m_table'[c].type = "small_chunk" /\ m_table'[c].bin_no = b
      /\ m_table'[c].num_occupied_slots = n - 1
      /\ n \in 1 .. NumSlots[b]
      /\ chunk' = [chunk EXCEPT ![t] = c]
      /\ \/ n = NumSlots[b] /\ BinInsert(b, c) /\ UNCHANGED pc
         \/ n = 1 /\ UNCHANGED m_non_full_chunk_bin /\ Goto(t, "erase")
         \/ n \in 2 .. NumSlots[b] - 1 /\ UNCHANGED <<m_non_full_chunk_bin, pc>>
  BY Zenon, <1>1 DEF Frees, SlotChange, IsSmall
<1>3. pc[t] = "free" /\ UNCHANGED m_bin_mutex
  BY Zenon DEF FreeSlot
<1>4. m_bin_mutex[b] = t
  BY Zenon, <1>3, OwnsBin DEF HoldsBinMutex
<1>5. NumSlots[b] \in Nat \ {0, 1}
  BY Zenon, BinAssumption
<1>6. PartlyFull(b, c) <=> n # NumSlots[b]
  BY <1>2, <1>5 DEF PartlyFull
<1>7. PartlyFull(b, c)' <=> n # 1
  BY <1>2, <1>5, SMTT(30) DEF PartlyFull
<1>8. \A d \in Chunk : d # c => (PartlyFull(b, d)' <=> PartlyFull(b, d))
  BY Zenon, <1>2 DEF PartlyFull
<1>9. \A d \in Chunk : In(q, d) <=> PartlyFull(b, d)
  BY Zenon, <1>3, <1>4 DEF ListOKOf, ListedFor
<1>10. q \in Seq(Chunk) /\ Once(q)
  BY Zenon, Types DEF ListOKOf
<1> HIDE DEF n
<1>11. CASE n = NumSlots[b] /\ BinInsert(b, c)
  <2>1. m_non_full_chunk_bin'[b] = <<c>> \o q
    BY Zenon, <1>11, Types DEF BinInsert
  <2> HIDE DEF q
  <2>2. ~In(q, c)
    BY Zenon, <1>6, <1>9, <1>11
  <2>3. Once(<<c>> \o q) /\ \A d : In(<<c>> \o q, d) <=> d = c \/ In(q, d)
    BY ZenonT(60), <1>10, <2>2, PushFront
  <2>4. \A d \in Chunk : In(<<c>> \o q, d) <=> PartlyFull(b, d)'
    BY ZenonT(60), <1>5, <1>7, <1>8, <1>9, <1>11, <2>3 
  <2> QED BY Zenon, <2>1, <2>3, <2>4 DEF ListOKOf
<1>12. CASE n = 1 /\ UNCHANGED m_non_full_chunk_bin /\ Goto(t, "erase")
  <2>1. m_non_full_chunk_bin'[b] = q
    BY Zenon, <1>12
  <2>2. ListedFor(b, c, t)'
    <3>1. pc'[t] = "erase" /\ chunk'[t] = c /\ m_bin_mutex'[b] = t
      BY ZenonT(60), <1>2, <1>3, <1>4, <1>12, Types DEF Goto
    <3> QED BY Zenon, <3>1 DEF ListedFor
  <2> HIDE DEF q
  <2>3. \A d \in Chunk : PartlyFull(b, d)' => In(q, d)
    BY ZenonT(60), <1>7, <1>8, <1>9, <1>12
  <2>4. \A d \in Chunk : In(q, d) => PartlyFull(b, d)' \/ ListedFor(b, d, t)'
    BY ZenonT(60), <1>8, <1>9, <2>2
  <2> QED BY ZenonT(60), <1>10, <2>1, <2>3, <2>4, ListOKFrom
<1>13. CASE n \in 2 .. NumSlots[b] - 1 /\ UNCHANGED <<m_non_full_chunk_bin, pc>>
  <2>1. m_non_full_chunk_bin'[b] = q
    BY Zenon, <1>13
  <2>2. n # 1 /\ n # NumSlots[b]
    BY <1>5, <1>13
  <2> HIDE DEF q
  <2>3. \A d \in Chunk : In(q, d) <=> PartlyFull(b, d)'
    BY ZenonT(60), <1>6, <1>7, <1>8, <1>9, <2>2
  <2> QED BY ZenonT(60), <1>10, <2>1, <2>3 DEF ListOKOf
<1> QED BY Zenon, <1>2, <1>11, <1>12, <1>13

\* The other steps of the thread that holds a bin's mutex keep its list.
LEMMA ListKeptOwn ==
    ASSUME AllocatorInv, NEW t \in Threads, Call(t) \/ Continue(t),
           NEW b \in SmallBins, m_bin_mutex[b] = t
    PROVE  ListOKOf(b)'
<1> PICK q : q = m_non_full_chunk_bin[b]
  OBVIOUS
<1>1. pc[t] \in HoldsBinMutex /\ bin[t] = b
  BY Zenon DEF AllocatorInv, LocksOK
<1>2. ListOKOf(b)
  BY Zenon, ListsOKIs DEF AllocatorInv
<1>3. /\ q \in Seq(Chunk) /\ Once(q)
      /\ \A c \in Chunk : PartlyFull(b, c) => In(q, c)
  BY ZenonT(60), <1>2, Types DEF ListOKOf
<1>4. \A c \in Chunk : In(q, c) => PartlyFull(b, c) \/ ListedFor(b, c, t)
  BY Zenon, <1>2 DEF ListOKOf, ListedFor
<1>5. ChunkOKOf(t)
  BY Zenon DEF AllocatorInv, ChunkOK, ChunkOKOf
<1>6. ASSUME UNCHANGED m_table, NEW c \in Chunk PROVE PartlyFull(b, c)' <=> PartlyFull(b, c)
  BY Zenon, <1>6 DEF PartlyFull
<1>7. CASE AllocateFromChunk(t)
  BY ZenonT(60), <1>1, <1>2, <1>7, ListKeptTake
<1>8. CASE FreeSlot(t)
  BY ZenonT(60), <1>1, <1>2, <1>8, ListKeptFree
<1>9. CASE InsertNewChunk(t)
  <2>1. q = <<>> /\ UNCHANGED m_non_full_chunk_bin
    BY Zenon, <1>1, <1>9 DEF InsertNewChunk
  <2>2. \A c : ~In(q, c)
    BY <2>1 DEF In
  <2>3. PICK e \in 0 .. MaxNumChunks : InsertSmall(b, e) \/ InsertSmallNoMemory(b, e)
    BY ZenonT(60), <1>1, <1>9 DEF InsertNewChunk
  <2>4. \A c \in Chunk : \/ m_table'[c] = m_table[c]
                         \/ m_table'[c].slot_occupancy = {}
    BY Zenon, <2>3, InsertSmallEffect DEF AllocatorInv
  <2>5. ASSUME NEW c \in Chunk, PartlyFull(b, c)' PROVE FALSE
    <3>1. /\ m_table'[c].type = "small_chunk"
          /\ m_table'[c].num_occupied_slots # 0
      BY <2>5, BinAssumption DEF PartlyFull
    <3>2. m_table'[c].num_occupied_slots = Cardinality(m_table'[c].slot_occupancy)
      BY Zenon, <3>1, DirectoryKept DEF DirectoryInv, CountExact
    <3>3. m_table'[c].slot_occupancy # {}
      BY Zenon, <3>1, <3>2, FS_EmptySet
    <3>4. PartlyFull(b, c)
      BY Zenon, <2>4, <2>5, <3>3 DEF PartlyFull
    <3> QED BY ZenonT(60), <1>3, <2>2, <3>4
  <2> QED BY ZenonT(60), <1>3, <2>1, <2>2, <2>5, ListOKFrom
<1>10. CASE ListNewChunk(t)
  <2> PICK c : c = chunk[t]
    OBVIOUS
  <2>1. /\ c \in Chunk /\ c # MaxNumChunks
        /\ pc[t] = "extend" /\ pc'[t] = "alloc"
        /\ BinInsert(b, c)
        /\ UNCHANGED <<directoryVars, m_bin_mutex, todo>>
    BY Zenon, <1>1, <1>10, ExtendedChunk, Types DEF ListNewChunk, Goto, locals
  <2>2. q = <<>> /\ todo[t] > 0 /\ Fresh(b, c)
    BY Zenon, <1>1, <1>5, <2>1 DEF ChunkOKOf
  <2>3. m_non_full_chunk_bin'[b] = <<c>> \o q
    BY Zenon, <2>1, Types DEF BinInsert
  <2>4. m_non_full_chunk_bin'[b] = <<c>>
    BY <2>1, <2>2, <2>3
  <2>5. \A d : ~In(q, d)
    BY <2>2 DEF In
  <2>6. Once(<<c>>) /\ \A d : In(<<c>>, d) <=> d = c
    BY DEF Once, In
  <2>7. ListedFor(b, c, t)'
    BY Zenon, <2>1, <2>2, <2>4 DEF ListedFor, Fresh, directoryVars
  <2>8. \A d \in Chunk : ~PartlyFull(b, d)'
    BY Zenon, <1>3, <1>6, <2>1, <2>5 DEF directoryVars
  <2> QED BY Zenon, <2>4, <2>6, <2>7, <2>8, ListOKFrom
<1>11. CASE FailNewChunk(t)
  <2>1. pc[t] = "extend" /\ UNCHANGED <<m_table, m_non_full_chunk_bin>>
    BY Zenon, <1>11 DEF FailNewChunk, directoryVars
  <2>2. q = <<>>
    BY Zenon, <1>1, <1>5, <2>1 DEF ChunkOKOf
  <2>3. \A c : ~In(q, c)
    BY <2>2, SMTT(30) DEF In
  <2> QED BY Zenon, <1>3, <1>6, <2>1, <2>3, ListOKFrom 
<1>12. CASE ReturnSmall(t) \/ ReturnFree(t)
  <2>1. /\ (pc[t] = "alloc" /\ todo[t] = 0) \/ pc[t] = "free"
        /\ UNCHANGED <<m_table, m_non_full_chunk_bin>>
    BY Zenon, <1>12 DEF ReturnSmall, ReturnFree, directoryVars
  <2>2. \A c : ~ListedFor(b, c, t)
    BY <2>1 DEF ListedFor
  <2> QED BY Zenon, <1>3, <1>4, <1>6, <2>1, <2>2, ListOKFrom
<1>13. CASE EraseChunk(t)
  <2>1. PICK c \in Chunk : Erases(t, c)
    BY ZenonT(60), <1>13, EraseTarget 
  <2>2. c = chunk[t] /\ Fresh(b, c)
    BY ZenonT(60), <1>1, <1>13, <2>1 DEF Erases, EraseChunk, EraseLarge, FailLarge
  <2>3. /\ pc[t] = "erase" /\ pc'[t] = "punch"
        /\ UNCHANGED <<m_non_full_chunk_bin, m_bin_mutex, chunk>>
    BY Zenon, <1>13, Types DEF EraseChunk, Goto, locals
  <2>4. Extent(b, c) = {c}
    BY Zenon DEF Extent
  <2>5. /\ m_table'[c].type = "unused"
        /\ \A d \in Chunk : d # c => m_table'[d] = m_table[d]
    BY ZenonT(60), <1>1, <2>1, <2>4, EraseLeaves DEF Erases, AllocatorInv
  <2>6. \A d \in Chunk : d # c => (PartlyFull(b, d)' <=> PartlyFull(b, d))
    BY Zenon, <2>5 DEF PartlyFull
  <2>7. ~PartlyFull(b, c)'
    BY Zenon, <2>5 DEF PartlyFull
  <2>8. \A d \in Chunk : ListedFor(b, d, t) => d = c
    BY ZenonT(60), <2>2, <2>3 DEF ListedFor
  <2>9. ListedFor(b, c, t)'
    BY ZenonT(60), <2>2, <2>3 DEF ListedFor
  <2>10. \A d \in Chunk : In(q, d) => PartlyFull(b, d)' \/ ListedFor(b, d, t)'
    BY ZenonT(60), <1>4, <2>6, <2>8, <2>9
  <2>11. \A d \in Chunk : PartlyFull(b, d)' => In(q, d)
    BY ZenonT(60), <1>3, <2>6, <2>7 
  <2> QED BY ZenonT(60), <1>3, <2>3, <2>10, <2>11, ListOKFrom 
<1>14. CASE FreeChunk(t)
  <2>1. /\ pc[t] = "punch" /\ pc'[t] = "unlist"
        /\ UNCHANGED <<m_table, m_non_full_chunk_bin, m_bin_mutex, chunk>>
    BY ZenonT(60), <1>14, Types DEF FreeChunk, Goto, locals, directoryVars
  <2>2. \A d \in Chunk : ListedFor(b, d, t) => ListedFor(b, d, t)'
    BY Zenon, <2>1 DEF ListedFor
  <2> QED BY ZenonT(60), <1>3, <1>4, <1>6, <2>1, <2>2, ListOKFrom 
<1>15. CASE UnlistChunk(t)
  <2>1. pc[t] = "unlist" /\ UNCHANGED m_table /\ BinErase(b, chunk[t])
    BY ZenonT(60), <1>1, <1>15 DEF UnlistChunk, directoryVars
  <2>2. ~PartlyFull(b, chunk[t])
    BY ZenonT(60), <1>1, <1>5, <2>1 DEF ChunkOKOf, PartlyFull
  <2>3. \A d \in Chunk : ListedFor(b, d, t) => d = chunk[t]
    BY ZenonT(60), <2>1 DEF ListedFor
  <2>4. CASE (\A i \in DOMAIN q : q[i] # chunk[t]) /\ UNCHANGED m_non_full_chunk_bin
    <3>1. ~In(q, chunk[t])
      BY Zenon, <2>4 DEF In
    <3> QED BY ZenonT(60), <1>3, <1>4, <1>6, <2>1, <2>3, <2>4, <3>1, ListOKFrom 
  <2>5. CASE \E i \in DOMAIN q :
               /\ FirstAt(q, chunk[t], i)
               /\ m_non_full_chunk_bin' =
                     [m_non_full_chunk_bin EXCEPT ![b] = WithoutAt(q, i)]
    <3>1. PICK i \in DOMAIN q :
               /\ FirstAt(q, chunk[t], i)
               /\ m_non_full_chunk_bin' =
                     [m_non_full_chunk_bin EXCEPT ![b] = WithoutAt(q, i)]
      BY Zenon, <2>5
    <3>2. q[i] = chunk[t] /\ m_non_full_chunk_bin'[b] = WithoutAt(q, i)
      BY ZenonT(60), <3>1, Types DEF FirstAt
    <3>3. /\ Once(WithoutAt(q, i))
          /\ \A d : In(WithoutAt(q, i), d) <=> In(q, d) /\ d # chunk[t]
      <4>1. q \in Seq(Chunk) /\ Once(q)
        BY Zenon, <1>3
      <4>2. i \in DOMAIN q /\ q[i] = chunk[t]
        BY Zenon, <3>2
      <4>3. /\ Once(WithoutAt(q, i))
            /\ \A d : In(WithoutAt(q, i), d) <=> In(q, d) /\ d # q[i]
        BY ZenonT(60), <4>1, <4>2, EraseAt 
      <4> QED BY ZenonT(60), <4>2, <4>3
    <3>4. \A d \in Chunk : In(WithoutAt(q, i), d) <=> PartlyFull(b, d)'
      BY ZenonT(60), <1>3, <1>4, <1>6, <2>1, <2>2, <2>3, <3>3
    <3> QED BY ZenonT(60), <3>2, <3>3, <3>4, ListOKFrom 
  <2> QED BY ZenonT(60), <2>1, <2>4, <2>5 DEF BinErase
<1> QED BY ZenonT(60), <1>1, <1>7, <1>8, <1>9, <1>10, <1>11, <1>12, <1>13, <1>14, <1>15,
     StepKinds

\* Every step keeps the lists.
LEMMA ListsKept ==
    ASSUME AllocatorInv, NEW t \in Threads, Call(t) \/ Continue(t)
    PROVE  ListsOK'
BY ZenonT(60), ListKeptOthers, ListKeptOwn, ListsOKIs

-----------------------------------------------------------------------------
(* The invariant and what follows from it.                                 *)

\* A newly created segment satisfies the invariant.
LEMMA AllocatorInitInv == Init => AllocatorInv
<1> SUFFICES ASSUME Init PROVE AllocatorInv
  OBVIOUS
<1> USE ZeroBinSmall, BinAssumption, SizeAssumption, CapacityAssumption, ThreadAssumption DEF Init
<1>1. DirectoryInv
  BY Zenon, DirectoryInitInv
<1>2. TypeOK
  <2>1. DirectoryTypeOK
    BY ZenonT(60), <1>1 DEF DirectoryInv
  <2>2. m_non_full_chunk_bin \in [SmallBins -> Seq(Chunk)]
    OBVIOUS
  <2>3. m_segment_size \in 0 .. Capacity
    OBVIOUS
  <2>4. /\ m_chunk_mutex \in Threads \cup {NoThread}
        /\ m_bin_mutex \in [SmallBins -> Threads \cup {NoThread}]
        /\ live \subseteq Bins \X Chunk \X Nat
        /\ aborted \in BOOLEAN
    BY Zenon 
  <2>5. pc \in [Threads -> PC] /\ bin \in [Threads -> Bins]
    BY Zenon DEF PC, Bins
  <2>6. /\ many \in [Threads -> BOOLEAN]
        /\ todo \in [Threads -> Nat]
        /\ chunk \in [Threads -> 0 .. MaxNumChunks]
    OBVIOUS
  <2>7. objs \in [Threads -> SUBSET (Bins \X Chunk \X Nat)]
    OBVIOUS
  <2> QED BY ZenonT(60), <2>1, <2>2, <2>3, <2>4, <2>5, <2>6, <2>7 DEF TypeOK
<1>3. LocksOK
  BY Zenon DEF LocksOK, HoldsChunkMutex, HoldsBinMutex, WorksOnLarge
<1>4. ObjsOK
  BY Zenon DEF ObjsOK
<1>5. \A c \in Chunk : m_table[c].type = "unused"
  BY Zenon DEF DirectoryInit, InitEntry, SmallEntry
<1>6. SlotsAccounted
  <2>1. \A o : o \notin Held
    BY Zenon, HeldIs 
  <2> QED BY Zenon, <1>5, <2>1 DEF SlotsAccounted
<1>7. ChunkOK
  BY Zenon DEF ChunkOK
<1>8. ListsOK
  BY <1>5 DEF ListsOK, ListedOnce, Listed, PartlyFull
<1> QED BY ZenonT(60), <1>1, <1>2, <1>3, <1>4, <1>6, <1>7, <1>8 DEF AllocatorInv

\* Every step keeps the invariant.
LEMMA AllocatorStepInv == AllocatorInv /\ [Next]_allocatorVars => AllocatorInv'
<1> SUFFICES ASSUME AllocatorInv, [Next]_allocatorVars PROVE AllocatorInv'
  OBVIOUS
<1>1. ASSUME NEW t \in Threads, Call(t) \/ Continue(t) PROVE AllocatorInv'
  BY Zenon, <1>1, TypesKept, DirectoryKept, LocksKept, ObjsKept, SlotsKept, ChunkKept,
     ListsKept DEF AllocatorInv
<1>2. CASE UNCHANGED allocatorVars
  <2> USE <1>2 DEF allocatorVars
  <2>1. DirectoryInv'
    <3>1. UNCHANGED directoryVars
      BY Zenon DEF directoryVars
    <3> QED BY ZenonT(60), <3>1, DirectoryStepInv DEF AllocatorInv
  <2>2. TypeOK'
    BY ZenonT(60) DEF AllocatorInv, TypeOK, DirectoryTypeOK
  <2>3. LocksOK' /\ ObjsOK'
    BY ZenonT(60) DEF AllocatorInv, LocksOK, ObjsOK
  <2>4. \A o : o \in Held' <=> o \in Held
    BY Zenon, HeldIs
  <2>5. SlotsAccounted'
    BY Zenon, <2>4 DEF AllocatorInv, SlotsAccounted
  <2>6. ChunkOK'
    BY ZenonT(60), <2>4 DEF AllocatorInv, ChunkOK, Fresh, unused_chunk
  <2>7. ListsOK'
    BY DEF AllocatorInv, ListsOK, ListedOnce, Listed, PartlyFull, ListedFor, Fresh
  <2> QED BY ZenonT(60), <2>1, <2>2, <2>3, <2>5, <2>6, <2>7 DEF AllocatorInv
<1> QED BY Zenon, <1>1, <1>2 DEF Next

\* AllocatorInv holds throughout, whatever the number of threads and chunks.
THEOREM AllocatorInvariant == Spec => []AllocatorInv
BY AllocatorInitInv, AllocatorStepInv, PTL DEF Spec

\* The variables keep their types.
THEOREM AllocatorTypes == Spec => []TypeOK
<1>1. AllocatorInv => TypeOK
  BY Zenon DEF AllocatorInv
<1> QED BY <1>1, AllocatorInvariant, PTL

\* The chunks of an object held are in use, as what the object is.
LEMMA ExtentInUse ==
    ASSUME AllocatorInv, NEW o \in Held, NEW d \in Extent(o[1], o[2])
    PROVE  /\ d \in Chunk
           /\ o[1] \in SmallBins => d = o[2] /\ m_table[d].type = "small_chunk"
           /\ o[1] \in LargeBins =>
                 \/ d = o[2] /\ m_table[d].type = "large_chunk_head"
                 \/ d # o[2] /\ m_table[d].type = "large_chunk_body"
<1>1. /\ o[1] \in Bins /\ o[2] \in Chunk /\ m_table[o[2]].bin_no = o[1]
      /\ o[1] \in SmallBins => m_table[o[2]].type = "small_chunk"
      /\ o[1] \in LargeBins => m_table[o[2]].type = "large_chunk_head"
  BY Zenon, HeldEntry
<1>2. CASE o[1] \in SmallBins
  BY Zenon, <1>1, <1>2, BinAssumption DEF Extent
<1>3. CASE o[1] \in LargeBins
  <2>1. /\ o[2] + NumChunks[o[1]] <= MaxNumChunks
        /\ d # o[2] => m_table[d].type = "large_chunk_body"
    BY ZenonT(60), <1>1, <1>3 DEF AllocatorInv, DirectoryInv, LargeRuns
  <2>2. d \in o[2] .. o[2] + NumChunks[o[1]] - 1 /\ NumChunks[o[1]] \in Nat
    BY Zenon, <1>3, BinAssumption DEF Extent
  <2>3. d \in Chunk
    BY <1>1, <2>1, <2>2, SizeAssumption, SMTT(30) DEF Chunk
  <2> QED BY Zenon, <1>1, <1>3, <2>1, <2>3, BinAssumption 
<1> QED BY Zenon, <1>1, <1>2, <1>3 DEF Bins

\* The invariant rules overlapping objects out.
LEMMA InvNoOverlap == AllocatorInv => NoOverlap
<1> SUFFICES ASSUME AllocatorInv PROVE NoOverlap
  OBVIOUS
<1>1. ASSUME NEW o \in Held, NEW p \in Held, o # p, Overlap(o, p) PROVE FALSE
  <2>1. PICK d \in Extent(o[1], o[2]) : d \in Extent(p[1], p[2])
    BY Zenon, <1>1 DEF Overlap
  <2>2. /\ o[1] \in Bins /\ p[1] \in Bins /\ o[2] \in Chunk /\ p[2] \in Chunk
        /\ o = <<o[1], o[2], o[3]>> /\ p = <<p[1], p[2], p[3]>>
        /\ m_table[o[2]].bin_no = o[1] /\ m_table[p[2]].bin_no = p[1]
        /\ o[1] \in LargeBins => o[3] = 0 /\ m_table[o[2]].type = "large_chunk_head"
        /\ p[1] \in LargeBins => p[3] = 0 /\ m_table[p[2]].type = "large_chunk_head"
    BY Zenon, HeldEntry
  <2>3. CASE o[1] \in SmallBins /\ p[1] \in SmallBins
    <3>1. o[2] = p[2]
      BY <2>1, <2>3, ExtentInUse
    <3> QED BY Zenon, <1>1, <2>2, <2>3, <3>1 DEF Overlap
  <2>4. CASE o[1] \in SmallBins /\ p[1] \in LargeBins
    BY Zenon, <2>1, <2>4, ExtentInUse
  <2>5. CASE o[1] \in LargeBins /\ p[1] \in SmallBins
    BY Zenon, <2>1, <2>5, ExtentInUse
  <2>6. CASE o[1] \in LargeBins /\ p[1] \in LargeBins
    <3>1. /\ d \in o[2] .. o[2] + NumChunks[o[1]] - 1 /\ NumChunks[o[1]] \in Nat
          /\ d \in p[2] .. p[2] + NumChunks[p[1]] - 1 /\ NumChunks[p[1]] \in Nat
          /\ o[2] \in Int /\ p[2] \in Int
      BY <2>1, <2>2, <2>6, BinAssumption, SizeAssumption, SMTT(30) DEF Extent, Chunk
    <3>2. CASE o[2] < p[2]
      <4>1. p[2] \in Extent(o[1], o[2]) /\ p[2] # o[2]
        BY <2>6, <3>1, <3>2, BinAssumption DEF Extent
      <4> QED BY Zenon, <2>2, <2>6, <4>1, ExtentInUse
    <3>3. CASE p[2] < o[2]
      <4>1. o[2] \in Extent(p[1], p[2]) /\ p[2] # o[2]
        BY <2>6, <3>1, <3>3, BinAssumption DEF Extent
      <4> QED BY Zenon, <2>2, <2>6, <4>1, ExtentInUse
    <3>4. CASE o[2] = p[2]
      BY Zenon, <1>1, <2>2, <2>6, <3>4
    <3> QED BY <3>1, <3>2, <3>3, <3>4
  <2> QED BY Zenon, <2>2, <2>3, <2>4, <2>5, <2>6 DEF Bins
<1>2. \A t \in Threads : /\ objs[t] \cap live = {}
                         /\ \A u \in Threads \ {t} : objs[t] \cap objs[u] = {}
  BY Zenon DEF AllocatorInv, ObjsOK
<1> QED BY Zenon, <1>1, <1>2 DEF NoOverlap

\* No two objects of the callers ever overlap, and no object has two holders.
THEOREM ObjectsNeverOverlap == Spec => []NoOverlap
BY InvNoOverlap, AllocatorInvariant, PTL

\* A slot is marked exactly when somebody holds its object, and a large object
\* held has its chunks.
THEOREM NothingLost == Spec => []SlotsAccounted
<1>1. AllocatorInv => SlotsAccounted
  BY Zenon DEF AllocatorInv
<1> QED BY <1>1, AllocatorInvariant, PTL

\* A list that nobody works on holds the partly filled chunks of its bin.
LEMMA InvListsExact == AllocatorInv => BinListsExact
BY Zenon, ThreadAssumption DEF AllocatorInv, ListsOK, BinListsExact, ListedFor

\* A chunk whose pages are given back is unused, so no object lies in it.
LEMMA InvFreedPages == AllocatorInv => FreedPagesUnused
<1> SUFFICES ASSUME AllocatorInv,
                    NEW t \in Threads, pc[t] \in {"punch", "punch_large"},
                    NEW o \in Held, NEW d \in Extent(o[1], o[2]),
                    d \in Extent(bin[t], chunk[t])
             PROVE  FALSE
  BY Zenon DEF FreedPagesUnused
<1>1. m_table[d].type = "unused"
  BY ZenonT(60) DEF AllocatorInv, ChunkOK, unused_chunk
<1>2. o[1] \in SmallBins \/ o[1] \in LargeBins
  BY Zenon, HeldEntry DEF Bins
<1> QED BY Zenon, <1>1, <1>2, ExtentInUse 

\* While nobody works on a bin its list holds exactly the partly full chunks.
THEOREM ListsAreExact == Spec => []BinListsExact
BY InvListsExact, AllocatorInvariant, PTL

\* priv_free_chunk gives back only pages that hold nobody's object.
THEOREM FreedPagesHoldNothing == Spec => []FreedPagesUnused
BY InvFreedPages, AllocatorInvariant, PTL

\* The threads together use the chunk directory as its asserts allow, so the
\* directory's theorems hold of the one inside the allocator.
THEOREM DirectoryUsedRight == Spec => UsesDirectory
<1>1. AllocatorInv /\ [Next]_allocatorVars => [DirectoryNext]_directoryVars
  <2> SUFFICES ASSUME AllocatorInv, [Next]_allocatorVars
               PROVE  [DirectoryNext]_directoryVars
    OBVIOUS
  <2>1. CASE UNCHANGED allocatorVars
    BY Zenon, <2>1 DEF allocatorVars, directoryVars
  <2> QED BY Zenon, <2>1, StepUsesDirectory DEF Next
<1> QED BY <1>1, AllocatorInvariant, PTL DEF Spec, UsesDirectory

-----------------------------------------------------------------------------
(* Objects lie inside the mapped segment.                                  *)

\* The mapped part of the segment only grows, until it is gone.
LEMMA SegmentGrows ==
    ASSUME AllocatorInv, NEW t \in Threads, Call(t) \/ Continue(t)
    PROVE  /\ m_segment_size' # 0 =>
                 m_segment_size # 0 /\ m_segment_size <= m_segment_size'
           /\ m_segment_size' # 0 /\ ListNewChunk(t) => chunk[t] < m_segment_size'
           /\ m_segment_size' # 0 /\ ReturnLarge(t) =>
                 chunk[t] + NumChunks[bin[t]] <= m_segment_size'
<1>1. /\ m_segment_size \in Nat /\ Capacity \in Nat /\ chunk[t] \in Nat
  BY Types, CapacityAssumption, SizeAssumption
<1>2. ASSUME NEW n \in Nat, ExtendSucceeds(n)
      PROVE  /\ m_segment_size' \in Nat /\ m_segment_size <= m_segment_size'
             /\ n <= m_segment_size'
             /\ m_segment_size' # 0 /\ n # 0 => m_segment_size # 0
  <2>1. CASE HasSize(n) /\ UNCHANGED m_segment_size
    BY <1>1, <2>1 DEF HasSize
  <2>2. CASE Extends(n)
    <3>1. /\ m_segment_size # 0 /\ n > m_segment_size /\ n <= Capacity
          /\ m_segment_size' = RoundUpToBlock(n)
      BY <1>1, <2>2 DEF Extends
    <3>2. RoundUpToBlock(n) \in n .. Capacity
      BY Zenon, <3>1, RoundUpInCapacity
    <3> QED BY <1>1, <3>1, <3>2
  <2> QED BY Zenon, <1>2, <2>1, <2>2 DEF ExtendSucceeds
<1>3. ASSUME NEW n \in Nat, ExtendFails(n)
      PROVE  m_segment_size' = m_segment_size \/ m_segment_size' = 0
  BY Zenon, <1>3 DEF ExtendFails
<1>4. CASE ListNewChunk(t)
  <2>1. ExtendSucceeds(chunk[t] + 1) /\ ~ReturnLarge(t)
    BY Zenon, <1>4 DEF ListNewChunk, ReturnLarge
  <2>2. chunk[t] + 1 \in Nat /\ chunk[t] + 1 # 0
    BY <1>1
  <2> QED BY <1>1, <1>2, <2>1, <2>2
<1>5. CASE FailNewChunk(t) /\ ~ListNewChunk(t)
  <2>1. ExtendFails(chunk[t] + 1) /\ ~ReturnLarge(t)
    BY Zenon, <1>5 DEF FailNewChunk, ReturnLarge
  <2>a. chunk[t] + 1 \in Nat
    BY <1>1
  <2>2. m_segment_size' = m_segment_size \/ m_segment_size' = 0
    BY Zenon, <1>3, <2>1, <2>a
  <2> QED BY <1>1, <1>5, <2>1, <2>2
<1>6. CASE ReturnLarge(t) \/ FailLarge(t)
  <2>0. bin[t] \in LargeBins
    BY Zenon, <1>6 DEF ReturnLarge, FailLarge, AllocatorInv, LocksOK, WorksOnLarge
  <2>1. NumChunks[bin[t]] \in Nat \ {0}
    BY Zenon, <2>0, BinAssumption
  <2> DEFINE n == chunk[t] + NumChunks[bin[t]]
  <2>2. n \in Nat /\ n # 0
    <3>1. \A i \in Nat, j \in Nat \ {0} : i + j \in Nat /\ i + j # 0
      BY SMTT(30)
    <3> QED BY Zenon, <1>1, <2>1, <3>1
  <2>3. ~ListNewChunk(t)
    BY Zenon, <1>6 DEF ReturnLarge, FailLarge, ListNewChunk
  <2>4. CASE ReturnLarge(t)
    <3>1. ExtendSucceeds(n)
      BY Zenon, <2>4 DEF ReturnLarge
    <3> HIDE DEF n
    <3>2. /\ m_segment_size' # 0 =>
                 m_segment_size # 0 /\ m_segment_size <= m_segment_size'
          /\ n <= m_segment_size'
      BY Zenon, <1>2, <2>2, <3>1
    <3> QED BY Zenon, <2>3, <3>2 DEF n
  <2>5. CASE FailLarge(t) /\ ~ReturnLarge(t)
    <3>1. ExtendFails(n)
      BY Zenon, <2>5 DEF FailLarge
    <3>2. m_segment_size' = m_segment_size \/ m_segment_size' = 0
      BY Zenon, <1>3, <2>2, <3>1
    <3> QED BY <1>1, <2>3, <2>5, <3>2
  <2> QED BY Zenon, <1>6, <2>4, <2>5 
<1>7. CASE ~ListNewChunk(t) /\ ~ReturnLarge(t) /\ UNCHANGED m_segment_size
  BY <1>1, <1>7
<1> QED BY Zenon, <1>4, <1>5, <1>6, <1>7, StepKinds

\* A chunk enters a list when the segment has been extended to it, or with an
\* object in it.
LEMMA NewlyListed ==
    ASSUME AllocatorInv, NEW t \in Threads, Call(t) \/ Continue(t),
           NEW b \in SmallBins, NEW c \in Chunk, Listed(b, c)', ~Listed(b, c)
    PROVE  \/ ListNewChunk(t) /\ c = chunk[t]
           \/ \E o \in Held : o[1] = b /\ o[2] = c
<1> PICK q : q = m_non_full_chunk_bin[b]
  BY Zenon 
<1>1. /\ In(m_non_full_chunk_bin'[b], c) /\ ~In(q, c)
      /\ q \in Seq(Chunk) /\ Once(q)
  BY Zenon, Types, ListsOKIs DEF Listed, In, AllocatorInv, ListOKOf
<1>2. m_bin_mutex[b] = t
  BY Zenon, <1>1, ListsOfOthers 
<1>3. pc[t] \in HoldsBinMutex /\ bin[t] = b
  BY Zenon, <1>2 DEF AllocatorInv, LocksOK
<1>4. CASE AllocateFromChunk(t)
  <2>1. BinPop(b) \/ UNCHANGED m_non_full_chunk_bin
    BY ZenonT(60), <1>3, <1>4, TakeEffect DEF Takes
  <2>a. q # <<>>
    BY ZenonT(60), <1>3, <1>4 DEF AllocateFromChunk
  <2>2. q # <<>> /\ 1 \in DOMAIN q
    BY <1>1, <2>a
  <2>3. m_non_full_chunk_bin'[b] \in {Tail(q), q}
    BY Zenon, <2>1, Types DEF BinPop
  <2> QED BY ZenonT(60), <1>1, <2>2, <2>3, PopFront
<1>5. CASE ListNewChunk(t)
  <2>1. m_non_full_chunk_bin'[b] = <<chunk[t]>> \o q
    BY ZenonT(60), <1>3, <1>5, Types DEF ListNewChunk, BinInsert
  <2>2. q = <<>>
    BY ZenonT(60), <1>3, <1>5 DEF ListNewChunk, AllocatorInv, ChunkOK
  <2>3. <<chunk[t]>> \o q = <<chunk[t]>>
    BY <2>2, Types
  <2>4. \A d : In(<<chunk[t]>>, d) => d = chunk[t]
    BY DEF In
  <2> QED BY ZenonT(60), <1>1, <1>5, <2>1, <2>3, <2>4
<1>6. CASE FreeSlot(t)
  <2>1. PICK o \in objs[t], d \in Chunk, s \in Nat : Frees(t, o, d, s)
    BY ZenonT(60), <1>6, FreeEffect 
  <2>2. o \in Held /\ o = <<b, d, s>>
        /\ (BinInsert(b, d) \/ UNCHANGED m_non_full_chunk_bin)
    BY ZenonT(60), <1>3, <2>1 DEF Frees
  <2>3. o[1] = b /\ o[2] = d
    BY Zenon, <2>2 
  <2>4. CASE c = d
    BY ZenonT(60), <2>2, <2>3, <2>4
  <2>5. CASE c # d
    <3>1. m_non_full_chunk_bin'[b] = <<d>> \o q \/ m_non_full_chunk_bin'[b] = q
      BY ZenonT(60), <2>2, Types DEF BinInsert
    <3>2. In(<<d>> \o q, c) => In(q, c)
      <4>1. /\ Len(q) \in Nat /\ DOMAIN q = 1 .. Len(q)
            /\ DOMAIN (<<d>> \o q) = 1 .. Len(q) + 1
            /\ (<<d>> \o q)[1] = d
            /\ \A i \in 2 .. Len(q) + 1 : (<<d>> \o q)[i] = q[i - 1]
        BY <1>1
      <4>2. \A i \in 1 .. Len(q) + 1 : i = 1 \/ (i \in 2 .. Len(q) + 1 /\ i - 1 \in DOMAIN q)
        BY <4>1
      <4> QED BY <2>5, <4>1, <4>2 DEF In
    <3> QED BY ZenonT(60), <1>1, <3>1, <3>2
  <2> QED BY ZenonT(60), <2>4, <2>5
<1>7. CASE UnlistChunk(t)
  <2>1. \/ m_non_full_chunk_bin'[b] = q
        \/ \E i \in DOMAIN q : m_non_full_chunk_bin'[b] = WithoutAt(q, i)
    BY Zenon, <1>3, <1>7, Types DEF UnlistChunk, BinErase
  <2> QED BY <1>1, <2>1, EraseAt, SMTT(30)
<1>8. CASE UNCHANGED m_non_full_chunk_bin
  BY Zenon, <1>1, <1>8 
<1> QED BY Zenon, <1>4, <1>5, <1>6, <1>7, <1>8, StepKinds

\* A step keeps objects and listed chunks inside the segment.
LEMMA InsideKept ==
    ASSUME AllocatorInv, InsideSegment, ListedInside,
           NEW t \in Threads, Call(t) \/ Continue(t)
    PROVE  InsideSegment' /\ ListedInside'
<1> SUFFICES ASSUME m_segment_size' # 0 PROVE InsideSegment' /\ ListedInside'
  BY Zenon DEF InsideSegment, ListedInside
<1>1. /\ m_segment_size # 0 /\ m_segment_size <= m_segment_size'
      /\ ListNewChunk(t) => chunk[t] < m_segment_size'
      /\ ReturnLarge(t) => chunk[t] + NumChunks[bin[t]] <= m_segment_size'
  BY Zenon, SegmentGrows
<1>2. m_segment_size \in Int /\ m_segment_size' \in Int /\ Chunk \subseteq Int
  BY Types, SegmentSizeKept, CapacityAssumption, SizeAssumption, SMTT(30) DEF Chunk
<1>3. ASSUME NEW o \in Held', NEW d \in Extent(o[1], o[2]) PROVE d < m_segment_size'
  <2>1. CASE o \in Held
    <3>1. d < m_segment_size
      BY Zenon, <1>1, <2>1 DEF InsideSegment
    <3>2. d \in Int
      BY Zenon, <1>2, <2>1, ExtentInUse
    <3> QED BY <1>1, <1>2, <3>1, <3>2, SMTT(30)
  <2>2. CASE o \notin Held /\ o[1] \in SmallBins /\ Listed(o[1], o[2])
    <3>1. d = o[2]
      BY Zenon, <2>2 DEF Extent
    <3>2. o[2] \in Chunk
      BY TypesKept, HeldIs DEF TypeOK
    <3>3. o[2] < m_segment_size
      BY Zenon, <1>1, <2>2, <3>2 DEF ListedInside
    <3>4. d \in Int /\ d < m_segment_size
      BY Zenon, <1>2, <3>1, <3>2, <3>3
    <3> QED BY <1>1, <1>2, <3>4
  <2>3. CASE ReturnLarge(t) /\ o = <<bin[t], chunk[t], 0>>
    <3>1. o[1] = bin[t] /\ o[2] = chunk[t]
      BY Zenon, <2>3 
    <3>2. bin[t] \in LargeBins
      BY Zenon, <2>3 DEF ReturnLarge, AllocatorInv, LocksOK, WorksOnLarge
    <3>3. d \in chunk[t] .. chunk[t] + NumChunks[bin[t]] - 1
          /\ NumChunks[bin[t]] \in Nat /\ chunk[t] \in Int
      BY <3>1, <3>2, BinAssumption, Types, SizeAssumption DEF Extent
    <3> QED BY <1>1, <1>2, <2>3, <3>3, SMTT(30)
  <2> QED BY Zenon, <2>1, <2>2, <2>3, NewlyHeld 
<1>4. ASSUME NEW b \in SmallBins, NEW c \in Chunk, Listed(b, c)'
      PROVE  c < m_segment_size'
  <2>1. CASE Listed(b, c)
    <3>1. c < m_segment_size
      BY Zenon, <1>1, <2>1 DEF ListedInside
    <3> QED BY <1>1, <1>2, <3>1
  <2>2. CASE ListNewChunk(t) /\ c = chunk[t]
    BY Zenon, <1>1, <2>2
  <2>3. CASE \E o \in Held : o[1] = b /\ o[2] = c
    <3>1. PICK o \in Held : o[1] = b /\ o[2] = c
      BY Zenon, <2>3
    <3>2. c \in Extent(o[1], o[2])
      BY Zenon, <3>1 DEF Extent
    <3>3. c < m_segment_size
      BY Zenon, <1>1, <3>2 DEF InsideSegment
    <3> QED BY <1>1, <1>2, <3>3
  <2> QED BY <1>4, <2>1, <2>2, <2>3, NewlyListed
<1> QED BY Zenon, <1>3, <1>4 DEF InsideSegment, ListedInside

\* Every object held lies inside the mapped segment.
THEOREM ObjectsInsideSegment == Spec => []InsideSegment
<1> DEFINE Inside == InsideSegment /\ ListedInside
<1>1. Init => Inside
  <2> SUFFICES ASSUME Init PROVE Inside
    OBVIOUS
  <2>1. \A o : o \notin Held
    BY Zenon, HeldIs DEF Init
  <2> QED BY <2>1 DEF Init, InsideSegment, ListedInside, Listed
<1>2. AllocatorInv /\ Inside /\ [Next]_allocatorVars => Inside'
  <2> SUFFICES ASSUME AllocatorInv, Inside, [Next]_allocatorVars PROVE Inside'
    OBVIOUS
  <2>1. CASE UNCHANGED allocatorVars
    <3>1. \A o : o \in Held' <=> o \in Held
      BY ZenonT(60), <2>1, HeldIs DEF allocatorVars
    <3> QED BY ZenonT(60), <2>1, <3>1 DEF allocatorVars, InsideSegment, ListedInside, Listed
  <2> QED BY Zenon, <2>1, InsideKept DEF Next
<1>3. Inside => InsideSegment
  OBVIOUS
<1> HIDE DEF Inside
<1> QED BY <1>1, <1>2, <1>3, AllocatorInvariant, PTL DEF Spec

-----------------------------------------------------------------------------
(* The files of the allocator (AllocatorFiles).                            *)

\* The lists that bin_directory::deserialize builds are the ones that
\* bin_directory::serialize went through.
LEMMA BinReadBack ==
    ASSUME AllocatorInv, NEW b \in SmallBins
    PROVE  LoadedBin(BinLines, b) = m_non_full_chunk_bin[b]
<1> DEFINE q == m_non_full_chunk_bin[b]
           line(i) == [bin_no |-> b, nth |-> i, chunk_no |-> q[i]]
<1>1. q \in Seq(Chunk)
  BY Zenon, Types
<1>2. q = [i \in DOMAIN q |-> q[i]]
  BY <1>1
<1>3. \A l : l \in BinLines /\ l.bin_no = b => \E i \in DOMAIN q : l = line(i)
  BY DEF BinLines
<1>4. \A i \in DOMAIN q : line(i) \in BinLines /\ line(i).bin_no = b /\ line(i).nth = i
                          /\ line(i).chunk_no = q[i]
  BY DEF BinLines
<1> HIDE DEF q, line
<1>5. {l.nth : l \in {k \in BinLines : k.bin_no = b}} = DOMAIN q
  BY <1>3, <1>4
<1>6. ASSUME NEW i \in DOMAIN q
      PROVE  (CHOOSE l \in BinLines : l.bin_no = b /\ l.nth = i).chunk_no = q[i]
  <2>1. \A l \in BinLines : l.bin_no = b /\ l.nth = i => l = line(i)
    BY <1>3, <1>4
  <2>2. (CHOOSE l \in BinLines : l.bin_no = b /\ l.nth = i) = line(i)
    BY Zenon, <1>4, <2>1
  <2> QED BY Zenon, <1>4, <2>2 
<1>7. LoadedBin(BinLines, b) = [i \in DOMAIN q |-> q[i]]
  BY ZenonT(60), <1>5, <1>6 DEF LoadedBin
<1> QED BY ZenonT(60), <1>2, <1>7 DEF q

\* An entry that is in use below size() is read back as it was; the others are
\* those of a table of zeros.
LEMMA EntryReadBack ==
    ASSUME DirectoryInv, NEW c \in Chunk
    PROVE  LoadedEntry(ChunkLines, c) =
               IF c <= m_last_used_chunk_no /\ ~unused_chunk(c) THEN m_table[c] ELSE ZeroEntry
<1>1. m_table[c] \in Entry /\ m_last_used_chunk_no \in -1 .. MaxNumChunks - 1
  BY Zenon DEF DirectoryInv, DirectoryTypeOK
<1>2. c \in DOMAIN ChunkLines <=> c <= m_last_used_chunk_no /\ ~unused_chunk(c)
  BY <1>1, SizeAssumption DEF ChunkLines, Chunk
<1>3. CASE c \notin DOMAIN ChunkLines
  BY Zenon, <1>2, <1>3 DEF LoadedEntry
<1>4. CASE c \in DOMAIN ChunkLines /\ m_table[c].type = "small_chunk"
  <2>1. ChunkLines[c] = m_table[c]
    BY Zenon, <1>4 DEF ChunkLines
  <2> QED BY Zenon, <1>2, <1>4, <2>1 DEF LoadedEntry
<1>5. CASE c \in DOMAIN ChunkLines /\ m_table[c].type # "small_chunk"
  <2>1. ChunkLines[c] = [bin_no |-> m_table[c].bin_no, type |-> m_table[c].type]
    BY ZenonT(60), <1>5 DEF ChunkLines
  <2>2. m_table[c].slot_occupancy = {} /\ m_table[c].num_occupied_slots = 0
    BY ZenonT(60), <1>5 DEF DirectoryInv, OnlySmallMarked
  <2>3. m_table[c] = [bin_no |-> m_table[c].bin_no, type |-> m_table[c].type,
                      num_occupied_slots |-> 0, slot_occupancy |-> {}]
    BY ZenonT(60), <1>1, <2>2 DEF Entry
  <2> QED BY <1>2, <1>5, <2>1, <2>3 DEF LoadedEntry
<1> QED BY Zenon, <1>3, <1>4, <1>5

\* The largest chunk number read is the one size() was computed from.
LEMMA LastReadBack ==
    ASSUME DirectoryInv, NEW l \in -1 .. MaxNumChunks - 1, IsLastLoaded(ChunkLines, l)
    PROVE  l = m_last_used_chunk_no
<1>1. m_last_used_chunk_no \in -1 .. MaxNumChunks - 1
  BY Zenon DEF DirectoryInv, DirectoryTypeOK
<1>2. DOMAIN ChunkLines = {d \in 0 .. m_last_used_chunk_no : ~unused_chunk(d)}
  BY Zenon DEF ChunkLines
<1>3. m_last_used_chunk_no # -1 => m_last_used_chunk_no \in DOMAIN ChunkLines
  BY <1>1, <1>2, SizeAssumption DEF DirectoryInv, SizeCoversUse, SizeIsTight
<1>4. m_last_used_chunk_no # -1 => m_last_used_chunk_no <= l
  BY Zenon, <1>3 DEF IsLastLoaded
<1>5. l = -1 \/ l <= m_last_used_chunk_no
  BY <1>1, <1>2, SizeAssumption DEF IsLastLoaded
<1> QED BY <1>1, <1>4, <1>5, SizeAssumption

\* What opening a store makes of the allocator that closed it.
Reloads ==
    /\ Idle
    /\ m_last_used_chunk_no' = m_last_used_chunk_no
    /\ m_table' = [c \in Chunk |->
           IF c <= m_last_used_chunk_no /\ ~unused_chunk(c) THEN m_table[c] ELSE ZeroEntry]
    /\ \E n \in 0 .. Capacity : Reopened(n) /\ m_segment_size' = n
    /\ UNCHANGED <<m_non_full_chunk_bin, m_chunk_mutex, m_bin_mutex, live, pc, locals, aborted>>

LEMMA DeserializeReloads ==
    ASSUME FilesInv, deserialize(TRUE)
    PROVE  Reloads
<1>1. /\ AllocatorInv /\ DirectoryInv /\ Idle
      /\ files.chunks = ChunkLines /\ files.bins = BinLines
  BY DEF FilesInv, deserialize, AllocatorInv
<1>2. m_non_full_chunk_bin' = m_non_full_chunk_bin
  <2>1. m_non_full_chunk_bin \in [SmallBins -> Seq(Chunk)]
    BY Zenon, <1>1, Types
  <2>2. m_non_full_chunk_bin' = [b \in SmallBins |-> LoadedBin(BinLines, b)]
    BY Zenon, <1>1 DEF deserialize
  <2> QED BY Zenon, <1>1, <2>1, <2>2, BinReadBack
<1>3. m_last_used_chunk_no' = m_last_used_chunk_no
  BY Zenon, <1>1, LastReadBack DEF deserialize
<1>4. m_table' = [c \in Chunk |->
           IF c <= m_last_used_chunk_no /\ ~unused_chunk(c) THEN m_table[c] ELSE ZeroEntry]
  <2>1. m_table' = [c \in Chunk |-> LoadedEntry(ChunkLines, c)]
    BY Zenon, <1>1 DEF deserialize
  <2> QED BY Zenon, <1>1, <2>1, EntryReadBack
<1> QED BY Zenon, <1>1, <1>2, <1>3, <1>4 DEF deserialize, Reloads

\* The entries after reloading: nothing that is in use changes, and what is
\* not in use is `unused' in the new table too.
LEMMA ReloadedEntries ==
    ASSUME AllocatorInv, Reloads
    PROVE  /\ m_table' \in [Chunk -> Entry]
           /\ \A c \in Chunk :
                 /\ m_table[c].type # "unused" /\ c <= m_last_used_chunk_no => m_table'[c] = m_table[c]
                 /\ ~(m_table[c].type # "unused" /\ c <= m_last_used_chunk_no) => m_table'[c] = ZeroEntry
           /\ \A c \in Chunk :
                 m_table[c].type \in {"large_chunk_head", "large_chunk_body"} =>
                     c <= m_last_used_chunk_no /\ m_table'[c] = m_table[c]
           /\ \A c \in Chunk :
                 m_table[c].type = "small_chunk" /\ m_table[c].slot_occupancy # {} =>
                     c <= m_last_used_chunk_no /\ m_table'[c] = m_table[c]
<1>1. /\ m_table \in [Chunk -> Entry] /\ m_last_used_chunk_no \in -1 .. MaxNumChunks - 1
      /\ DirectoryInv
  BY Zenon, Types DEF AllocatorInv
<1>2. \A c \in Chunk :
          m_table'[c] = IF c <= m_last_used_chunk_no /\ m_table[c].type # "unused"
                        THEN m_table[c] ELSE ZeroEntry
  BY Zenon DEF Reloads, unused_chunk
<1>3. ZeroEntry \in Entry
  BY Zenon, ZeroBinSmall DEF ZeroEntry, Entry, Bins, ChunkType
<1>4. m_table' \in [Chunk -> Entry]
  BY Zenon, <1>1, <1>3 DEF Reloads
<1>5. \A c \in Chunk : ~(c <= m_last_used_chunk_no) =>
          /\ m_table[c].type \in {"unused", "small_chunk"}
          /\ m_table[c].slot_occupancy = {}
  BY <1>1, SizeAssumption DEF DirectoryInv, SizeCoversUse, Chunk
<1> QED BY ZenonT(60), <1>2, <1>4, <1>5

\* The new directory is as good as the one that was written.
LEMMA ReloadedDirectory ==
    ASSUME AllocatorInv, Reloads
    PROVE  DirectoryInv'
<1>1. /\ m_table \in [Chunk -> Entry] /\ m_last_used_chunk_no \in -1 .. MaxNumChunks - 1
      /\ DirectoryInv /\ m_last_used_chunk_no' = m_last_used_chunk_no
  BY Zenon, Types DEF AllocatorInv, Reloads
<1>2. /\ ZeroEntry.type = "unused" /\ ZeroEntry.slot_occupancy = {}
      /\ ZeroEntry.num_occupied_slots = 0
  BY Zenon DEF ZeroEntry
<1>3. DirectoryTypeOK'
  BY Zenon, <1>1, ReloadedEntries DEF DirectoryTypeOK
<1>4. \A c \in Chunk : m_table'[c].type # "unused" =>
          m_table'[c] = m_table[c] /\ c <= m_last_used_chunk_no
  BY Zenon, <1>2, ReloadedEntries
<1>5. CountExact'
  <2>1. CountExact
    BY Zenon, <1>1 DEF DirectoryInv
  <2> QED BY Zenon, <1>4, <2>1 DEF CountExact
<1>6. OnlySmallMarked'
  <2>1. OnlySmallMarked
    BY Zenon, <1>1 DEF DirectoryInv
  <2> QED BY ZenonT(60), <1>2, <2>1, ReloadedEntries DEF OnlySmallMarked
<1>7. SizeCoversUse'
  <2>1. SizeIsTight'
    <3>1. m_last_used_chunk_no # -1 =>
             m_last_used_chunk_no \in Chunk /\ m_table[m_last_used_chunk_no].type # "unused"
      BY <1>1, SizeAssumption DEF DirectoryInv, SizeCoversUse, SizeIsTight, unused_chunk, Chunk
    <3>2. m_last_used_chunk_no # -1 =>
             m_table'[m_last_used_chunk_no] = m_table[m_last_used_chunk_no]
      BY <1>1, <3>1, ReloadedEntries
    <3> QED BY Zenon, <1>1, <3>1, <3>2 DEF SizeIsTight, unused_chunk
  <2>2. \A c \in Chunk : c > m_last_used_chunk_no =>
          m_table'[c].type = "unused" /\ m_table'[c].slot_occupancy = {}
    <3>1. \A c \in Chunk : c > m_last_used_chunk_no => ~(c <= m_last_used_chunk_no)
      BY <1>1, SizeAssumption DEF Chunk
    <3> QED BY Zenon, <1>2, <3>1, ReloadedEntries
  <2> QED BY Zenon, <1>1, <2>1, <2>2 DEF SizeCoversUse
<1>8. LargeRuns'
  <2>0. LargeRuns
    BY Zenon, <1>1 DEF DirectoryInv
  <2>1. ASSUME NEW c \in Chunk, m_table'[c].type = "large_chunk_head"
        PROVE  /\ m_table'[c].bin_no \in LargeBins
               /\ c + NumChunks[m_table'[c].bin_no] <= MaxNumChunks
               /\ \A d \in Extent(m_table'[c].bin_no, c) \ {c} :
                     m_table'[d].type = "large_chunk_body"
    <3>1. m_table'[c] = m_table[c] /\ m_table[c].type = "large_chunk_head"
      BY Zenon, <1>4, <2>1 
    <3>2. /\ m_table[c].bin_no \in LargeBins
          /\ c + NumChunks[m_table[c].bin_no] <= MaxNumChunks
          /\ \A d \in Extent(m_table[c].bin_no, c) \ {c} : m_table[d].type = "large_chunk_body"
      BY Zenon, <2>0, <3>1 DEF LargeRuns
    <3>3. NumChunks[m_table[c].bin_no] \in Nat \ {0} /\ m_table[c].bin_no \notin SmallBins
      BY Zenon, <3>2, BinAssumption 
    <3>4. \A d \in Extent(m_table[c].bin_no, c) : d \in Chunk
      BY <3>2, <3>3, SizeAssumption DEF Extent, Chunk
    <3> QED BY Zenon, <3>1, <3>2, <3>4, ReloadedEntries
  <2>2. ASSUME NEW d \in Chunk, m_table'[d].type = "large_chunk_body"
        PROVE  \E c \in 0 .. d - 1 : /\ m_table'[c].type = "large_chunk_head"
                                     /\ d \in Extent(m_table'[c].bin_no, c)
    <3>1. m_table[d].type = "large_chunk_body"
      BY Zenon, <1>4, <2>2
    <3>2. PICK c \in 0 .. d - 1 : /\ m_table[c].type = "large_chunk_head"
                                  /\ d \in Extent(m_table[c].bin_no, c)
      BY Zenon, <2>0, <3>1 DEF LargeRuns
    <3>3. c \in Chunk
      BY SizeAssumption DEF Chunk
    <3> QED BY Zenon, <3>2, <3>3, ReloadedEntries
  <2> QED BY Zenon, <2>1, <2>2 DEF LargeRuns, Extent
<1> QED BY Zenon, <1>3, <1>5, <1>6, <1>7, <1>8 DEF DirectoryInv

\* Objects and lists agree with the new table as they did with the old one.
LEMMA ReloadedAllocator ==
    ASSUME AllocatorInv, Reloads
    PROVE  AllocatorInv'
<1>1. /\ \A t \in Threads : pc[t] = "idle" /\ pc'[t] = "idle"
      /\ UNCHANGED <<m_non_full_chunk_bin, m_chunk_mutex, m_bin_mutex, live, pc, bin, many,
                     todo, objs, chunk, aborted>>
  BY Zenon DEF Reloads, Idle, locals
<1>2. DirectoryInv'
  BY Zenon, ReloadedDirectory
<1>3. TypeOK'
  <2>1. DirectoryTypeOK'
    BY Zenon, <1>2 DEF DirectoryInv
  <2>2. m_segment_size' \in 0 .. Capacity
    BY Zenon DEF Reloads
  <2> QED BY Zenon, <1>1, <2>1, <2>2 DEF AllocatorInv, TypeOK
<1>4. LocksOK'
  BY <1>1, SMTT(30) DEF AllocatorInv, LocksOK
<1>5. ObjsOK'
  BY Zenon, <1>1 DEF AllocatorInv, ObjsOK
<1>6. \A o : o \in Held' <=> o \in Held
  BY Zenon, <1>1, HeldIs
<1>7. SlotsAccounted'
  <2>1. ASSUME NEW o \in Held PROVE o[2] \in Chunk /\ m_table'[o[2]] = m_table[o[2]]
    <3>1. o[2] \in Chunk
      BY Zenon, HeldEntry
    <3>2. \/ m_table[o[2]].type = "small_chunk" /\ o[3] \in m_table[o[2]].slot_occupancy
          \/ m_table[o[2]].type = "large_chunk_head"
      BY Zenon DEF AllocatorInv, SlotsAccounted
    <3> QED BY Zenon, <3>1, <3>2, ReloadedEntries
  <2>2. ASSUME NEW c \in Chunk, m_table'[c].type = "small_chunk"
        PROVE  m_table'[c] = m_table[c]
    BY <2>2, ReloadedEntries DEF ZeroEntry
  <2>3. SlotsAccounted
    BY Zenon DEF AllocatorInv
  <2> QED BY ZenonT(60), <1>6, <2>1, <2>2, <2>3 DEF SlotsAccounted
<1>8. ChunkOK'
  BY Zenon, <1>1 DEF ChunkOK
<1>9. ListsOK'
  <2>1. ASSUME NEW b \in SmallBins, NEW c \in Chunk
        PROVE  PartlyFull(b, c)' <=> PartlyFull(b, c)
    <3>1. CASE m_table'[c] = m_table[c]
      BY Zenon, <3>1 DEF PartlyFull
    <3>2. CASE m_table'[c] # m_table[c]
      <4>1. m_table'[c].type = "unused"
        BY <3>2, ReloadedEntries DEF ZeroEntry
      <4>2. m_table[c].type = "small_chunk" => m_table[c].slot_occupancy = {}
        BY Zenon, <3>2, ReloadedEntries
      <4>3. m_table[c].type = "small_chunk" => m_table[c].num_occupied_slots = 0
        BY Zenon, <4>2, FS_EmptySet DEF AllocatorInv, DirectoryInv, CountExact
      <4>4. 0 \notin 1 .. NumSlots[b] - 1
        BY BinAssumption
      <4> QED BY Zenon, <4>1, <4>3, <4>4 DEF PartlyFull
    <3> QED BY Zenon, <3>1, <3>2
  <2>2. ASSUME NEW b \in SmallBins, NEW c \in Chunk, NEW t \in Threads
        PROVE  ~ListedFor(b, c, t)
    BY Zenon, <1>1 DEF ListedFor
  <2>3. \A b \in SmallBins : ListedOnce(b)' <=> ListedOnce(b)
    BY Zenon, <1>1 DEF ListedOnce
  <2>4. \A b \in SmallBins, c \in Chunk : Listed(b, c)' <=> Listed(b, c)
    BY Zenon, <1>1 DEF Listed
  <2>5. ListsOK
    BY Zenon DEF AllocatorInv
  <2> QED BY Zenon, <2>1, <2>2, <2>3, <2>4, <2>5 DEF ListsOK
<1> QED BY Zenon, <1>2, <1>3, <1>4, <1>5, <1>7, <1>8, <1>9 DEF AllocatorInv

\* The block files found at opening cover every object, also after the storage
\* of the last process broke, and with the objects the chunks of the lists.
LEMMA ReloadedInside ==
    ASSUME AllocatorInv, InsideSegment, ListedInside, Reloads
    PROVE  InsideSegment' /\ ListedInside'
<1>1. /\ \A t \in Threads : pc[t] = "idle"
      /\ UNCHANGED <<m_non_full_chunk_bin, live, objs>>
  BY Zenon DEF Reloads, Idle, locals
<1>2. \A o : (o \in Held' <=> o \in Held) /\ (o \in Held <=> o \in live)
  <2>1. \A t \in Threads : objs[t] = {}
    BY Zenon, <1>1 DEF AllocatorInv, ObjsOK
  <2> QED BY Zenon, <1>1, <2>1, HeldIs
<1>3. ASSUME NEW o \in Held, NEW c \in Extent(o[1], o[2]) PROVE c < m_segment_size'
  BY Zenon, <1>2, <1>3 DEF Reloads, Reopened, InsideSegment
<1>4. ASSUME NEW b \in SmallBins, NEW c \in Chunk, Listed(b, c) PROVE c < m_segment_size'
  <2>1. PartlyFull(b, c)
    <3>1. \A t \in Threads : ~ListedFor(b, c, t)
      BY Zenon, <1>1 DEF ListedFor
    <3> QED BY Zenon, <1>4, <3>1 DEF AllocatorInv, ListsOK
  <2>2. m_table[c].slot_occupancy # {}
    <3>1. m_table[c].num_occupied_slots # 0
      BY <2>1, BinAssumption DEF PartlyFull
    <3> QED BY Zenon, <2>1, <3>1, FS_EmptySet
             DEF AllocatorInv, DirectoryInv, CountExact, PartlyFull
  <2>3. PICK s : <<b, c, s>> \in Held
    BY Zenon, <2>1, <2>2 DEF AllocatorInv, SlotsAccounted, PartlyFull
  <2>4. c \in Extent(b, c)
    BY Zenon DEF Extent
  <2>5. <<b, c, s>>[1] = b /\ <<b, c, s>>[2] = c
    OBVIOUS
  <2> QED BY Zenon, <1>3, <2>3, <2>4, <2>5
<1>5. \A b \in SmallBins, c \in Chunk : Listed(b, c)' <=> Listed(b, c)
  BY Zenon, <1>1 DEF Listed
<1> QED BY Zenon, <1>2, <1>3, <1>4, <1>5 DEF InsideSegment, ListedInside

-----------------------------------------------------------------------------
(* The invariant and what follows from it.                                 *)

\* A new store satisfies the invariant.
LEMMA FilesInitInv == FilesInit => FilesInv
<1> SUFFICES ASSUME FilesInit PROVE FilesInv
  OBVIOUS
<1>1. AllocatorInv
  BY Zenon, AllocatorInitInv DEF FilesInit
<1>2. \A o : o \notin Held
  BY Zenon, HeldIs DEF FilesInit, Init
<1>3. InsideSegment /\ ListedInside
  BY <1>2 DEF FilesInit, Init, InsideSegment, ListedInside, Listed
<1> QED BY Zenon, <1>1, <1>3 DEF FilesInit, FilesInv

\* Steps that leave the allocator alone keep what is said of it.
LEMMA AllocatorAlone ==
    ASSUME AllocatorInv, InsideSegment, ListedInside, UNCHANGED allocatorVars
    PROVE  AllocatorInv' /\ InsideSegment' /\ ListedInside'
<1>1. AllocatorInv'
  BY Zenon, AllocatorStepInv
<1>2. \A o : o \in Held' <=> o \in Held
  BY Zenon, HeldIs DEF allocatorVars
<1> QED BY Zenon, <1>1, <1>2 DEF allocatorVars, InsideSegment, ListedInside, Listed

\* Running, closing, opening and failing to open keep the invariant.
LEMMA FilesStepInv == FilesInv /\ [FilesNext]_filesVars => FilesInv'
<1> SUFFICES ASSUME FilesInv, [FilesNext]_filesVars PROVE FilesInv'
  OBVIOUS
<1>0. /\ AllocatorInv /\ InsideSegment /\ ListedInside /\ good \in BOOLEAN
  BY Zenon DEF FilesInv
<1>1. CASE good /\ Next /\ files' = NoFile /\ UNCHANGED good
  <2>1. AllocatorInv'
    BY Zenon, <1>0, <1>1, AllocatorStepInv 
  <2>2. InsideSegment' /\ ListedInside'
    <3>1. CASE UNCHANGED allocatorVars
      BY Zenon, <1>0, <3>1, AllocatorAlone
    <3>2. CASE \E t \in Threads : Call(t) \/ Continue(t)
      BY Zenon, <1>0, <3>2, InsideKept
    <3> QED BY Zenon, <1>1, <3>1, <3>2 DEF Next
  <2> QED BY Zenon, <1>0, <1>1, <2>1, <2>2 DEF FilesInv
<1>2. CASE serialize
  <2>1. AllocatorInv' /\ InsideSegment' /\ ListedInside'
    BY Zenon, <1>0, <1>2, AllocatorAlone DEF serialize
  <2>a. Idle' = Idle /\ ChunkLines' = ChunkLines /\ BinLines' = BinLines
    BY <1>2 DEF serialize, allocatorVars, Idle, ChunkLines, BinLines, unused_chunk
  <2>2. Idle' /\ files' = [chunks |-> ChunkLines', bins |-> BinLines']
    BY Zenon, <1>2, <2>a DEF serialize
  <2> QED BY Zenon, <1>2, <2>1, <2>2 DEF serialize, FilesInv
<1>3. CASE deserialize(TRUE)
  <2>1. Reloads
    BY Zenon, <1>3, DeserializeReloads
  <2>2. AllocatorInv' /\ InsideSegment' /\ ListedInside'
    BY Zenon, <1>0, <2>1, ReloadedAllocator, ReloadedInside
  <2> QED BY Zenon, <1>3, <2>2 DEF deserialize, FilesInv
<1>4. CASE deserialize(FALSE) \/ UNCHANGED filesVars
  <2>1. UNCHANGED <<allocatorVars, files, good>>
    BY Zenon, <1>4 DEF deserialize, filesVars, allocatorVars, locals
  <2>2. AllocatorInv' /\ InsideSegment' /\ ListedInside'
    BY Zenon, <1>0, <2>1, AllocatorAlone 
  <2>3. Idle' = Idle /\ ChunkLines' = ChunkLines /\ BinLines' = BinLines
    BY <2>1 DEF allocatorVars, Idle, ChunkLines, BinLines, unused_chunk
  <2> QED BY Zenon, <1>0, <2>1, <2>2, <2>3 DEF FilesInv
<1> QED BY Zenon, <1>1, <1>2, <1>3, <1>4 DEF FilesNext

\* FilesInv holds throughout the life of a store.
THEOREM FilesInvariant == FilesSpec => []FilesInv
BY FilesInitInv, FilesStepInv, PTL DEF FilesSpec

\* An allocator that deserialize() has just loaded satisfies the whole
\* invariant, with respect to the objects that clients kept in the segment.
THEOREM ReopenedIsIntact == FilesSpec => []SurvivesReopen
<1>1. FilesInv => SurvivesReopen
  BY Zenon DEF FilesInv, SurvivesReopen
<1> QED BY <1>1, FilesInvariant, PTL

\* No two objects ever overlap, those allocated before the store was closed
\* and those allocated after it was opened again included.
THEOREM NoOverlapAcrossReopen == FilesSpec => []NoOverlap
<1>1. FilesInv => NoOverlap
  BY Zenon, InvNoOverlap DEF FilesInv
<1> QED BY <1>1, FilesInvariant, PTL

\* A slot is marked exactly when somebody holds its object, across closing.
THEOREM NothingLostAcrossReopen == FilesSpec => []SlotsAccounted
<1>1. FilesInv => SlotsAccounted
  BY Zenon DEF FilesInv, AllocatorInv
<1> QED BY <1>1, FilesInvariant, PTL

\* Objects lie inside the segment that is mapped when the store is opened.
THEOREM InsideAcrossReopen == FilesSpec => []InsideSegment
<1>1. FilesInv => InsideSegment
  BY Zenon DEF FilesInv
<1> QED BY <1>1, FilesInvariant, PTL

\* The list of a bin whose mutex is free holds the partly filled chunks of the
\* bin, also when the lists came from the file.
THEOREM ListsExactAcrossReopen == FilesSpec => []BinListsExact
<1>1. FilesInv => BinListsExact
  BY InvListsExact DEF FilesInv
<1> QED BY <1>1, FilesInvariant, PTL

\* priv_free_chunk never gives back a page of an object, one kept since before
\* the store was closed included.
THEOREM FreedPagesAcrossReopen == FilesSpec => []FreedPagesUnused
<1>1. FilesInv => FreedPagesUnused
  BY InvFreedPages DEF FilesInv
<1> QED BY <1>1, FilesInvariant, PTL
=============================================================================
