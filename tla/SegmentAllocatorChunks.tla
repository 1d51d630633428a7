----------------------- MODULE SegmentAllocatorChunks -----------------------
(***************************************************************************)
(* The steps of the allocator keep the locks, the objects' holders, the    *)
(* accounts of the marked slots and the chunks the threads have at hand,   *)
(* all but one of the parts of AllocatorInv; SegmentAllocatorProofs adds   *)
(* the lists and draws the conclusions.                                    *)
(***************************************************************************)
EXTENDS SegmentAllocatorSteps

-----------------------------------------------------------------------------
(* Locks and objects.                                                      *)

\* What a step changes of the other threads' state: nothing.
LEMMA OthersUnchanged ==
    ASSUME AllocatorInv, NEW t \in Threads, Call(t) \/ Continue(t),
           NEW u \in Threads, u # t
    PROVE  /\ pc'[u] = pc[u] /\ bin'[u] = bin[u] /\ many'[u] = many[u]
           /\ todo'[u] = todo[u] /\ objs'[u] = objs[u] /\ chunk'[u] = chunk[u]
<1> USE Types DEF Goto, Return, locals
<1>1. CASE \/ \E b \in SmallBins, n \in BatchSizes : AllocateSmall(t, b, n)
           \/ \E b \in LargeBins : AllocateLarge(t, b)
           \/ \E o \in live : Deallocate(t, o)
           \/ \E b \in SmallBins, S \in SUBSET live : DeallocateMany(t, b, S)
  BY <1>1 DEF AllocateSmall, AllocateLarge, Deallocate, DeallocateMany
<1>2. CASE AllocateFromChunk(t)
  BY ZenonT(60), <1>2 DEF AllocateFromChunk
<1>3. CASE InsertNewChunk(t) \/ ListNewChunk(t) \/ FailNewChunk(t)
  BY Zenon, <1>3 DEF InsertNewChunk, ListNewChunk, FailNewChunk
<1>4. CASE ReturnSmall(t) \/ ReturnLarge(t) \/ FailLarge(t) \/ ReturnFree(t) \/ FreeLarge(t)
  BY ZenonT(60), <1>4 DEF ReturnSmall, ReturnLarge, FailLarge, ReturnFree, FreeLarge
<1>5. CASE FreeSlot(t)
  BY <1>5 DEF FreeSlot
<1>6. CASE LockForFree(t) \/ EraseChunk(t) \/ FreeChunk(t) \/ UnlistChunk(t) \/ EraseLarge(t)
  BY ZenonT(60), <1>6 DEF LockForFree, EraseChunk, FreeChunk, UnlistChunk, EraseLarge
<1> QED BY ZenonT(60), <1>1, <1>2, <1>3, <1>4, <1>5, <1>6 DEF Call, Continue


\* The mutexes are owned by the threads that stand where they are held.
LEMMA LocksKept ==
    ASSUME AllocatorInv, NEW t \in Threads, Call(t) \/ Continue(t)
    PROVE  LocksOK'
<1> USE Types, ThreadAssumption DEF LocksOK, HoldsChunkMutex, HoldsBinMutex, WorksOnLarge
<1>0. /\ LocksOK
      /\ \A u \in Threads : u # t => pc'[u] = pc[u] /\ bin'[u] = bin[u]
      /\ \A b \in SmallBins : b \notin LargeBins
  BY OthersUnchanged, BinAssumption DEF AllocatorInv
<1>1. ASSUME NEW b \in SmallBins, NEW n \in BatchSizes, AllocateSmall(t, b, n)
      PROVE  LocksOK'
  BY <1>0, <1>1 DEF AllocateSmall, Goto
<1>2. ASSUME NEW b \in LargeBins, AllocateLarge(t, b) PROVE LocksOK'
  BY <1>0, <1>2 DEF AllocateLarge, Goto
<1>3. ASSUME NEW o \in live, Deallocate(t, o) PROVE LocksOK'
  <2>1. m_table[o[2]].bin_no \in Bins
    BY Zenon, HeldIs, HeldEntry
  <2> QED BY SMTT(20), Zenon, <1>0, <1>3, <2>1 DEF Deallocate, Goto, Bins
<1>4. ASSUME NEW b \in SmallBins, NEW S \in SUBSET live, DeallocateMany(t, b, S)
      PROVE  LocksOK'
  BY <1>0, <1>4 DEF DeallocateMany, Goto
<1>5. CASE AllocateFromChunk(t)
  BY <1>0, <1>5 DEF AllocateFromChunk
<1>6. CASE InsertNewChunk(t)
  BY <1>0, <1>6 DEF InsertNewChunk, Goto
<1>7. CASE ListNewChunk(t)
  BY <1>0, <1>7 DEF ListNewChunk, Goto, locals
<1>8. CASE FailNewChunk(t)
  BY <1>0, <1>8 DEF FailNewChunk, Goto
<1>9. CASE ReturnSmall(t)
  BY <1>0, <1>9 DEF ReturnSmall, Return, Goto
<1>10. CASE ReturnLarge(t)
  BY <1>0, <1>10 DEF ReturnLarge, Return, Goto
<1>11. CASE FailLarge(t)
  BY <1>0, <1>11 DEF FailLarge, Return, Goto
<1>12. CASE LockForFree(t)
  BY <1>0, <1>12 DEF LockForFree, Goto, locals
<1>13. CASE FreeSlot(t)
  <2>1. /\ pc[t] = "free" /\ pc'[t] \in {"free", "erase"}
        /\ UNCHANGED <<m_chunk_mutex, m_bin_mutex, bin>>
    BY ZenonT(60), <1>13 DEF FreeSlot, Goto
  <2> QED BY <1>0, <2>1
<1>14. CASE EraseChunk(t)
  BY <1>0, <1>14 DEF EraseChunk, Goto, locals
<1>15. CASE FreeChunk(t)
  BY <1>0, <1>15 DEF FreeChunk, Goto, locals
<1>16. CASE UnlistChunk(t)
  BY <1>0, <1>16 DEF UnlistChunk, Goto, locals
<1>17. CASE ReturnFree(t)
  BY <1>0, <1>17 DEF ReturnFree, Return, Goto
<1>18. CASE EraseLarge(t)
  BY <1>0, <1>18 DEF EraseLarge, Goto
<1>19. CASE FreeLarge(t)
  BY <1>0, <1>19 DEF FreeLarge, Return, Goto
<1> QED BY ZenonT(60), <1>1, <1>2, <1>3, <1>4, <1>5, <1>6, <1>7, <1>8, <1>9, <1>10, <1>11,
     <1>12, <1>13, <1>14, <1>15, <1>16, <1>17, <1>18, <1>19 DEF Call, Continue

\* The objects a turn of the allocation loop takes were nobody's.
LEMMA TakenAreNew ==
    ASSUME AllocatorInv, NEW t \in Threads, NEW c \in Chunk,
           NEW S \in SUBSET FreeSlots(c), Takes(t, c, S), NEW s \in S
    PROVE  <<bin[t], c, s>> \notin Held
<1>1. /\ bin[t] \in SmallBins
      /\ s \notin m_table[c].slot_occupancy
  BY Zenon DEF Takes, FreeSlots
<1> DEFINE o == <<bin[t], c, s>>
<1>2. o[1] = bin[t] /\ o[2] = c /\ o[3] = s
  OBVIOUS
<1>3. o \in Held => s \in m_table[c].slot_occupancy
  BY Zenon, <1>1, <1>2, HeldEntry
<1> QED BY Zenon, <1>1, <1>3

\* Objects that move to thread t or to its client were no other thread's.
LEMMA ObjsMoved ==
    ASSUME ObjsOK, NEW t \in Threads,
           \A u \in Threads : u # t => /\ pc'[u] = pc[u] /\ bin'[u] = bin[u]
                                       /\ objs'[u] = objs[u],
           pc'[t] \in {"idle", "extend_large", "punch_large"} => objs'[t] = {},
           \A o \in objs'[t] : /\ o[1] = bin'[t] /\ o \notin live'
                               /\ \A u \in Threads : u # t => o \notin objs[u],
           \A o \in live' : \/ o \in live
                            \/ \A u \in Threads : u # t => o \notin objs[u]
    PROVE  ObjsOK'
<1>1. ASSUME NEW u \in Threads, u # t
      PROVE  /\ pc'[u] \in {"idle", "extend_large", "punch_large"} => objs'[u] = {}
             /\ \A o \in objs'[u] : /\ o[1] = bin'[u] /\ o \notin live'
                                    /\ \A v \in Threads \ {u} : o \notin objs'[v]
  BY <1>1 DEF ObjsOK
<1> QED BY <1>1 DEF ObjsOK

\* A thread's objects are of its bin and nobody else's.
LEMMA ObjsKept ==
    ASSUME AllocatorInv, NEW t \in Threads, Call(t) \/ Continue(t)
    PROVE  ObjsOK'
<1>0. /\ ObjsOK
      /\ \A u \in Threads : u # t => /\ pc'[u] = pc[u] /\ bin'[u] = bin[u]
                                     /\ objs'[u] = objs[u]
  BY ZenonT(60), OthersUnchanged DEF AllocatorInv
<1>1. ASSUME NEW b \in SmallBins, NEW n \in BatchSizes, AllocateSmall(t, b, n)
      PROVE  ObjsOK'
  BY <1>0, <1>1, Types DEF ObjsOK, AllocateSmall, Goto
<1>2. ASSUME NEW b \in LargeBins, AllocateLarge(t, b) PROVE ObjsOK'
  BY <1>0, <1>2, Types DEF ObjsOK, AllocateLarge, Goto
<1>3. ASSUME NEW o \in live, Deallocate(t, o) PROVE ObjsOK'
  <2>1. m_table[o[2]].bin_no = o[1]
    BY Zenon, HeldIs, HeldEntry
  <2>2. objs'[t] = {o} /\ live' = live \ {o} /\ bin'[t] = o[1]
        /\ pc'[t] \in {"free_lock", "free_large"}
    BY Zenon, <1>3, <2>1, Types DEF Deallocate, Goto
  <2>3. \A u \in Threads : o \notin objs[u]
    BY Zenon, <1>0 DEF ObjsOK
  <2> QED BY ZenonT(60), <1>0, <2>2, <2>3, ObjsMoved
<1>4. ASSUME NEW b \in SmallBins, NEW S \in SUBSET live,
             \A o \in S : o[1] = b, DeallocateMany(t, b, S)
      PROVE  ObjsOK'
  <2>1. objs'[t] = S /\ live' = live \ S /\ bin'[t] = b /\ pc'[t] = "free_lock"
    BY Zenon, <1>4, Types DEF DeallocateMany, Goto
  <2>2. \A o \in S, u \in Threads : o \notin objs[u]
    BY Zenon, <1>0 DEF ObjsOK
  <2> QED BY ZenonT(60), <1>0, <1>4, <2>1, <2>2, ObjsMoved
<1>5. CASE AllocateFromChunk(t)
  <2>1. PICK c \in Chunk : \E S \in SUBSET FreeSlots(c) : Takes(t, c, S)
    BY Zenon, <1>5, TakeEffect
  <2>2. PICK S \in SUBSET FreeSlots(c) : Takes(t, c, S)
    BY Zenon, <2>1
  <2> DEFINE N == {<<bin[t], c, s>> : s \in S}
  <2>3. \A o \in N : o \notin Held
    <3> TAKE o \in N
    <3>1. PICK s \in S : o = <<bin[t], c, s>>
      OBVIOUS
    <3> QED BY Zenon, <2>2, <3>1, TakenAreNew
  <2>4. \A o \in N : o[1] = bin[t]
    OBVIOUS
  <2>5. objs'[t] = objs[t] \cup N
    BY ZenonT(60), <2>2, Types DEF Takes
  <2>6. UNCHANGED <<live, bin, pc>> /\ pc[t] = "alloc"
    BY Zenon, <1>5 DEF AllocateFromChunk
  <2> HIDE DEF N
  <2>7. \A o \in N : o \notin live /\ \A u \in Threads : o \notin objs[u]
    BY Zenon, <2>3, HeldIs
  <2>8. \A o \in objs'[t] : /\ o[1] = bin'[t] /\ o \notin live'
                            /\ \A u \in Threads : u # t => o \notin objs[u]
    BY ZenonT(60), <1>0, <2>4, <2>5, <2>6, <2>7 DEF ObjsOK
  <2> QED BY Zenon, <1>0, <2>6, <2>8, ObjsMoved
<1>6. CASE InsertNewChunk(t)
  BY ZenonT(60), <1>0, <1>6, Types DEF ObjsOK, InsertNewChunk, Goto
<1>7. CASE ListNewChunk(t)
  BY ZenonT(60), <1>0, <1>7, Types DEF ObjsOK, ListNewChunk, Goto, locals
<1>8. CASE FailNewChunk(t)
  BY ZenonT(60), <1>0, <1>8, Types DEF ObjsOK, FailNewChunk, Goto
<1>9. CASE ReturnSmall(t)
  BY <1>0, <1>9, Types DEF ObjsOK, ReturnSmall, Return, Goto
<1>10. CASE ReturnLarge(t)
  <2>1. <<bin[t], chunk[t], 0>> \notin Held
    BY Zenon, <1>10, ExtendedChunk DEF ReturnLarge, AllocatorInv, ChunkOK
  <2>2. \A u \in Threads : <<bin[t], chunk[t], 0>> \notin objs[u]
    BY Zenon, <2>1, HeldIs
  <2>3. /\ live' = live \cup {<<bin[t], chunk[t], 0>>}
        /\ objs'[t] = {}
    BY Zenon, <1>10, Types DEF ReturnLarge, Return
  <2> QED BY <1>0, <2>2, <2>3, ObjsMoved
<1>11. CASE FailLarge(t)
  BY <1>0, <1>11, Types DEF ObjsOK, FailLarge, Return, Goto
<1>12. CASE LockForFree(t)
  BY ZenonT(60), <1>0, <1>12, Types DEF ObjsOK, LockForFree, Goto, locals
<1>13. CASE FreeSlot(t)
  <2>1. PICK o \in objs[t], c \in Chunk, s \in Nat : Frees(t, o, c, s)
    BY Zenon, <1>13, FreeEffect
  <2>2. objs'[t] = objs[t] \ {o}
    BY Zenon, <2>1, Types DEF Frees
  <2>3. /\ pc[t] = "free" /\ pc'[t] \in {"free", "erase"}
        /\ UNCHANGED <<live, bin>>
    BY ZenonT(60), <1>13, Types DEF FreeSlot, Goto
  <2> QED BY <1>0, <2>2, <2>3 DEF ObjsOK
<1>14. CASE EraseChunk(t)
  BY ZenonT(60), <1>0, <1>14, Types DEF ObjsOK, EraseChunk, Goto, locals
<1>15. CASE FreeChunk(t)
  BY ZenonT(60), <1>0, <1>15, Types DEF ObjsOK, FreeChunk, Goto, locals
<1>16. CASE UnlistChunk(t)
  BY ZenonT(60), <1>0, <1>16, Types DEF ObjsOK, UnlistChunk, Goto, locals
<1>17. CASE ReturnFree(t)
  BY <1>0, <1>17, Types DEF ObjsOK, ReturnFree, Return, Goto
<1>18. CASE EraseLarge(t)
  BY <1>0, <1>18, Types DEF ObjsOK, EraseLarge, Goto
<1>19. CASE FreeLarge(t)
  BY <1>0, <1>19, Types DEF ObjsOK, FreeLarge, Return, Goto
<1> QED BY ZenonT(60), <1>1, <1>2, <1>3, <1>4, <1>5, <1>6, <1>7, <1>8, <1>9, <1>10, <1>11,
     <1>12, <1>13, <1>14, <1>15, <1>16, <1>17, <1>18, <1>19 DEF Call, Continue

-----------------------------------------------------------------------------
(* No object is lost and none is handed out twice.                         *)

\* The steps that neither touch the directory nor change who holds which
\* object, but for moving objects between a thread and its client.
LEMMA HeldUnchanged ==
    ASSUME AllocatorInv, NEW t \in Threads, Call(t) \/ Continue(t),
           ~AllocateFromChunk(t), ~FreeSlot(t), ~ReturnLarge(t), ~EraseLarge(t)
    PROVE  \A o : o \in Held' <=> o \in Held
<1> USE Types
<1>0. \A u \in Threads : u # t => objs'[u] = objs[u]
  BY Zenon, OthersUnchanged
<1>1. pc[t] \in {"idle", "extend_large", "punch_large"} => objs[t] = {}
  BY Zenon DEF AllocatorInv, ObjsOK
<1>2. CASE \E b \in SmallBins, n \in BatchSizes : AllocateSmall(t, b, n)
  BY ZenonT(60), <1>0, <1>1, <1>2, HeldIs DEF AllocateSmall
<1>3. CASE \E o \in live : Deallocate(t, o)
  BY <1>0, <1>1, <1>3, HeldIs DEF Deallocate
<1>4. CASE \E b \in SmallBins, S \in SUBSET live : DeallocateMany(t, b, S)
  BY <1>0, <1>1, <1>4, HeldIs DEF DeallocateMany
<1>5. CASE ReturnSmall(t)
  BY Zenon, <1>0, <1>1, <1>5, HeldIs DEF ReturnSmall, Return
<1>6. CASE FailLarge(t) \/ ReturnFree(t) \/ FreeLarge(t)
  BY Zenon, <1>0, <1>1, <1>6, HeldIs DEF FailLarge, ReturnFree, FreeLarge, Return
<1>7. CASE UNCHANGED <<live, objs>>
  BY Zenon, <1>7, HeldIs
<1> QED BY ZenonT(60), <1>2, <1>3, <1>4, <1>5, <1>6, <1>7, StepKinds

\* The chunks erase() empties hold no object but the one being erased.
LEMMA EraseSpares ==
    ASSUME AllocatorInv, NEW t \in Threads, NEW c \in Chunk, Erases(t, c),
           NEW o \in Held, o[2] \in Extent(bin[t], c)
    PROVE  EraseLarge(t) /\ o = <<bin[t], c, 0>>
<1>1. /\ o[1] \in Bins /\ o[2] \in Chunk
      /\ o = <<o[1], o[2], o[3]>>
      /\ m_table[o[2]].bin_no = o[1]
      /\ o[1] \in SmallBins => /\ m_table[o[2]].type = "small_chunk"
                               /\ o[3] \in m_table[o[2]].slot_occupancy
      /\ o[1] \in LargeBins => /\ m_table[o[2]].type = "large_chunk_head"
                               /\ o[3] = 0
  BY ZenonT(60), HeldEntry
<1>2. m_table[c].bin_no = bin[t]
  BY Zenon DEF Erases
<1>3. CASE m_table[c].type = "small_chunk"
  <2>1. EraseChunk(t) /\ Fresh(bin[t], c) /\ bin[t] \in SmallBins
    BY Zenon, <1>3 DEF Erases
  <2>2. o[2] = c
    BY Zenon, <2>1 DEF Extent
  <2>3. m_table[c].slot_occupancy = {}
    BY Zenon, <2>1 DEF Fresh
  <2> QED BY Zenon, <1>1, <1>2, <2>1, <2>2, <2>3
<1>4. CASE m_table[c].type = "large_chunk_head"
  <2>1. /\ bin[t] \in LargeBins
        /\ EraseLarge(t) \/ <<bin[t], c, 0>> \notin Held
    BY Zenon, <1>4 DEF Erases
  <2>2. \A d \in Extent(bin[t], c) \ {c} : m_table[d].type = "large_chunk_body"
    BY ZenonT(60), <1>2, <1>4 DEF AllocatorInv, DirectoryInv, LargeRuns
  <2>3. o[2] = c
    BY Zenon, <1>1, <2>2 DEF Bins
  <2>4. o = <<bin[t], c, 0>>
    BY ZenonT(60), <1>1, <1>2, <2>1, <2>3
  <2> QED BY Zenon, <2>1, <2>4
<1> QED BY Zenon, <1>3, <1>4 DEF Erases

\* A step that leaves the entries of the objects held alone and makes no entry
\* a small chunk with marked slots keeps the accounts.
LEMMA SlotsCarried ==
    ASSUME AllocatorInv,
           \A o \in Held' : o \in Held /\ m_table'[o[2]] = m_table[o[2]],
           \A o \in Held : o[1] \in SmallBins => o \in Held',
           \A c \in Chunk : m_table'[c].type = "small_chunk" =>
              m_table'[c] = m_table[c] \/ m_table'[c].slot_occupancy = {}
    PROVE  SlotsAccounted'
<1>1. SlotsAccounted
  BY Zenon DEF AllocatorInv
<1>2. \A o \in Held' :
          /\ m_table'[o[2]].bin_no = o[1]
          /\ \/ /\ m_table'[o[2]].type = "small_chunk"
                /\ o[3] \in m_table'[o[2]].slot_occupancy
             \/ m_table'[o[2]].type = "large_chunk_head" /\ o[3] = 0
  BY ZenonT(60), <1>1 DEF SlotsAccounted
<1>3. ASSUME NEW c \in Chunk, m_table'[c].type = "small_chunk",
             NEW s \in m_table'[c].slot_occupancy
      PROVE  <<m_table'[c].bin_no, c, s>> \in Held'
  <2>1. m_table'[c] = m_table[c]
    BY Zenon, <1>3
  <2> DEFINE o == <<m_table[c].bin_no, c, s>>
  <2>2. o \in Held
    BY ZenonT(60), <1>1, <1>3, <2>1 DEF SlotsAccounted
  <2>3. m_table[c].bin_no \in SmallBins
    BY Zenon, <1>3, <2>1 DEF AllocatorInv, DirectoryInv, CountExact
  <2>4. o[1] = m_table[c].bin_no
    OBVIOUS
  <2> QED BY Zenon, <2>1, <2>2, <2>3, <2>4
<1> QED BY Zenon, <1>2, <1>3 DEF SlotsAccounted

\* Insertions and erasures keep the accounts.
LEMMA SlotsInsertErase ==
    ASSUME AllocatorInv, NEW t \in Threads,
           \/ InsertNewChunk(t) \/ \E b \in LargeBins : AllocateLarge(t, b)
           \/ EraseChunk(t) \/ EraseLarge(t) \/ (FailLarge(t) /\ chunk[t] \in Chunk)
    PROVE  SlotsAccounted'
<1>1. CASE InsertNewChunk(t)
  <2>1. bin[t] \in SmallBins
    BY Zenon, <1>1, OwnsBin DEF InsertNewChunk, HoldsBinMutex
  <2>2. PICK c \in 0 .. MaxNumChunks :
           InsertSmall(bin[t], c) \/ InsertSmallNoMemory(bin[t], c)
    BY Zenon, <1>1 DEF InsertNewChunk
  <2>3. /\ \A d \in Chunk : ~Insertable(d) => m_table'[d] = m_table[d]
        /\ \A d \in Chunk : \/ m_table'[d] = m_table[d]
                            \/ m_table'[d].slot_occupancy = {}
    BY Zenon, <2>1, <2>2, InsertSmallEffect DEF AllocatorInv
  <2>4. \A o : o \in Held' <=> o \in Held
    BY Zenon, <1>1, HeldIs DEF InsertNewChunk
  <2>5. \A o \in Held' : o \in Held /\ m_table'[o[2]] = m_table[o[2]]
    BY Zenon, <2>3, <2>4, HeldEntry
  <2> QED BY ZenonT(60), <2>3, <2>4, <2>5, SlotsCarried
<1>2. CASE \E b \in LargeBins : AllocateLarge(t, b)
  <2>1. PICK b \in LargeBins : AllocateLarge(t, b)
    BY ZenonT(60), <1>2
  <2>2. PICK c \in 0 .. MaxNumChunks : InsertLarge(b, c)
    BY Zenon, <2>1 DEF AllocateLarge
  <2>3. /\ \A d \in Chunk : ~Insertable(d) => m_table'[d] = m_table[d]
        /\ \A d \in Chunk : \/ m_table'[d] = m_table[d]
                            \/ m_table'[d].type # "small_chunk"
    BY Zenon, <2>2, InsertLargeEffect DEF AllocatorInv
  <2>4. \A o : o \in Held' <=> o \in Held
    BY Zenon, <2>1, HeldIs DEF AllocateLarge
  <2>5. \A o \in Held' : o \in Held /\ m_table'[o[2]] = m_table[o[2]]
    BY Zenon, <2>3, <2>4, HeldEntry
  <2> QED BY ZenonT(60), <2>3, <2>4, <2>5, SlotsCarried
<1>3. CASE EraseChunk(t) \/ EraseLarge(t) \/ (FailLarge(t) /\ chunk[t] \in Chunk)
  <2>1. PICK c \in Chunk : Erases(t, c)
    BY Zenon, <1>3, EraseTarget
  <2> DEFINE X == Extent(bin[t], c)
  <2>2. /\ \A d \in X : m_table'[d].type = "unused"
        /\ \A d \in Chunk : d \notin X => m_table'[d] = m_table[d]
    BY Zenon, <2>1, EraseLeaves DEF Erases, AllocatorInv
  <2>3. \A o \in Held : o[2] \in Chunk
    BY Zenon, HeldEntry
  <2>4. CASE ~EraseLarge(t)
    <3>1. \A o : o \in Held' <=> o \in Held
      <4>1. CASE EraseChunk(t)
        BY Zenon, <4>1, HeldIs DEF EraseChunk, locals
      <4>2. CASE FailLarge(t)
        <5>1. pc[t] = "extend_large" /\ live' = live
              /\ objs' = [objs EXCEPT ![t] = {}]
          BY Zenon, <4>2 DEF FailLarge, Return
        <5>2. objs' = objs
          BY Zenon, <5>1, Types DEF AllocatorInv, ObjsOK
        <5> QED BY ZenonT(60), <5>1, <5>2, HeldIs
      <4> QED BY ZenonT(60), <1>3, <2>4, <4>1, <4>2
    <3>2. \A o \in Held : o[2] \notin X
      BY ZenonT(60), <2>1, <2>4, EraseSpares
    <3> HIDE DEF X
    <3>3. \A o \in Held' : o \in Held /\ m_table'[o[2]] = m_table[o[2]]
      BY ZenonT(60), <2>2, <2>3, <3>1, <3>2
    <3> QED BY ZenonT(60), <2>2, <3>1, <3>3, SlotsCarried
  <2>5. CASE EraseLarge(t)
    <3>1. /\ UNCHANGED live
          /\ objs' = [objs EXCEPT ![t] = {}]
          /\ bin[t] \in LargeBins
          /\ <<bin[t], c, 0>> \in objs[t]
      BY ZenonT(60), <2>1, <2>5 DEF EraseLarge, Erases, EraseChunk, FailLarge
    <3>2. \A o \in objs[t] : /\ o[1] = bin[t] /\ o \notin live
                             /\ \A u \in Threads \ {t} : o \notin objs[u]
      BY Zenon DEF AllocatorInv, ObjsOK
    <3>3. \A o : o \in Held' <=> o \in Held /\ o \notin objs[t]
      BY ZenonT(60), <3>1, <3>2, HeldIs, Types
    <3>4. \A o \in Held' : o[2] \notin X
      BY ZenonT(60), <2>1, <3>1, <3>3, EraseSpares
    <3>5. \A o \in Held : o[1] \in SmallBins => o \in Held'
      BY ZenonT(60), <3>1, <3>2, <3>3, BinAssumption
    <3> HIDE DEF X
    <3>6. \A o \in Held' : o \in Held /\ m_table'[o[2]] = m_table[o[2]]
      BY ZenonT(60), <2>2, <2>3, <3>3, <3>4
    <3> QED BY ZenonT(60), <2>2, <3>5, <3>6, SlotsCarried
  <2> QED BY Zenon, <2>4, <2>5
<1> QED BY Zenon, <1>1, <1>2, <1>3

\* Marking slots and taking the objects they stand for keeps the accounts.
LEMMA SlotsTake ==
    ASSUME AllocatorInv, NEW t \in Threads, AllocateFromChunk(t)
    PROVE  SlotsAccounted'
<1>1. PICK c \in Chunk : \E S \in SUBSET FreeSlots(c) : Takes(t, c, S)
  BY Zenon, TakeEffect
<1>2. PICK S \in SUBSET FreeSlots(c) : Takes(t, c, S)
  BY Zenon, <1>1
<1> DEFINE b == bin[t]
           N == {<<b, c, s>> : s \in S}
<1>3. /\ b \in SmallBins /\ m_table[c].bin_no = b /\ IsSmall(c)
      /\ m_table'[c].type = "small_chunk" /\ m_table'[c].bin_no = b
      /\ m_table'[c].slot_occupancy = m_table[c].slot_occupancy \cup S
      /\ \A d \in Chunk : d # c => m_table'[d] = m_table[d]
      /\ objs' = [objs EXCEPT ![t] = @ \cup N]
  BY Zenon, <1>2 DEF Takes, SlotChange, IsSmall
<1>4. UNCHANGED live
  BY Zenon DEF AllocateFromChunk
<1> HIDE DEF N, b
<1>5. \A o : o \in Held' <=> o \in Held \/ o \in N
  BY ZenonT(60), <1>3, <1>4, HeldIs, Types
<1>6. \A o \in N : o[1] = b /\ o[2] = c /\ o[3] \in S
  BY DEF N
<1>7. \A s \in S : <<b, c, s>> \in N
  BY Zenon DEF N
<1>8. ASSUME NEW o \in Held'
      PROVE  /\ m_table'[o[2]].bin_no = o[1]
             /\ \/ /\ m_table'[o[2]].type = "small_chunk"
                   /\ o[3] \in m_table'[o[2]].slot_occupancy
                \/ m_table'[o[2]].type = "large_chunk_head" /\ o[3] = 0
  <2>1. CASE o \in N
    BY Zenon, <1>3, <1>6, <2>1
  <2>2. CASE o \in Held
    <3>1. o[2] \in Chunk
      BY Zenon, <2>2, HeldEntry
    <3>2. /\ m_table[o[2]].bin_no = o[1]
          /\ \/ /\ m_table[o[2]].type = "small_chunk"
                /\ o[3] \in m_table[o[2]].slot_occupancy
             \/ m_table[o[2]].type = "large_chunk_head" /\ o[3] = 0
      BY Zenon, <2>2 DEF AllocatorInv, SlotsAccounted
    <3> QED BY Zenon, <1>3, <3>1, <3>2 DEF IsSmall
  <2> QED BY Zenon, <1>5, <2>1, <2>2
<1>9. ASSUME NEW d \in Chunk, m_table'[d].type = "small_chunk",
             NEW s \in m_table'[d].slot_occupancy
      PROVE  <<m_table'[d].bin_no, d, s>> \in Held'
  <2>1. CASE d = c /\ s \in S
    BY ZenonT(60), <1>3, <1>5, <1>7, <2>1
  <2>2. CASE m_table[d].type = "small_chunk" /\ s \in m_table[d].slot_occupancy
             /\ m_table'[d].bin_no = m_table[d].bin_no
    <3>1. <<m_table[d].bin_no, d, s>> \in Held
      BY Zenon, <2>2 DEF AllocatorInv, SlotsAccounted
    <3> QED BY Zenon, <1>5, <2>2, <3>1
  <2> QED BY Zenon, <1>3, <1>9, <2>1, <2>2 DEF IsSmall
<1> QED BY Zenon, <1>8, <1>9 DEF SlotsAccounted

\* Unmarking the slot of an object given up keeps the accounts: no other
\* object held is that slot.
LEMMA SlotsFree ==
    ASSUME AllocatorInv, NEW t \in Threads, FreeSlot(t)
    PROVE  SlotsAccounted'
<1>1. PICK p \in objs[t], c \in Chunk, r \in Nat : Frees(t, p, c, r)
  BY Zenon, FreeEffect
<1> DEFINE b == bin[t]
<1>2. /\ b \in SmallBins /\ m_table[c].bin_no = b /\ IsSmall(c)
      /\ p = <<b, c, r>>
      /\ m_table'[c].type = "small_chunk" /\ m_table'[c].bin_no = b
      /\ m_table'[c].slot_occupancy = m_table[c].slot_occupancy \ {r}
      /\ \A d \in Chunk : d # c => m_table'[d] = m_table[d]
      /\ objs' = [objs EXCEPT ![t] = @ \ {p}]
  BY Zenon, <1>1 DEF Frees, SlotChange, IsSmall
<1>3. UNCHANGED live
  BY Zenon DEF FreeSlot
<1>4. p \notin live /\ \A u \in Threads \ {t} : p \notin objs[u]
  BY Zenon DEF AllocatorInv, ObjsOK
<1> HIDE DEF b
<1>5. \A o : o \in Held' <=> o \in Held /\ o # p
  BY ZenonT(60), <1>2, <1>3, <1>4, HeldIs, Types
<1>6. ASSUME NEW o \in Held'
      PROVE  /\ m_table'[o[2]].bin_no = o[1]
             /\ \/ /\ m_table'[o[2]].type = "small_chunk"
                   /\ o[3] \in m_table'[o[2]].slot_occupancy
                \/ m_table'[o[2]].type = "large_chunk_head" /\ o[3] = 0
  <2>1. o \in Held /\ o # p
    BY Zenon, <1>5
  <2>2. o[2] \in Chunk /\ o = <<o[1], o[2], o[3]>>
    BY Zenon, <2>1, HeldEntry
  <2>3. /\ m_table[o[2]].bin_no = o[1]
        /\ \/ /\ m_table[o[2]].type = "small_chunk"
              /\ o[3] \in m_table[o[2]].slot_occupancy
           \/ m_table[o[2]].type = "large_chunk_head" /\ o[3] = 0
    BY Zenon, <2>1 DEF AllocatorInv, SlotsAccounted
  <2>4. o[2] = c => o[3] # r
    BY ZenonT(60), <1>2, <2>1, <2>2, <2>3
  <2> QED BY ZenonT(60), <1>2, <2>2, <2>3, <2>4 DEF IsSmall
<1>7. ASSUME NEW d \in Chunk, m_table'[d].type = "small_chunk",
             NEW s \in m_table'[d].slot_occupancy
      PROVE  <<m_table'[d].bin_no, d, s>> \in Held'
  <2>1. /\ m_table[d].type = "small_chunk" /\ s \in m_table[d].slot_occupancy
        /\ m_table'[d].bin_no = m_table[d].bin_no
        /\ ~(d = c /\ s = r)
    BY Zenon, <1>2, <1>7 DEF IsSmall
  <2>2. <<m_table[d].bin_no, d, s>> \in Held
    BY Zenon, <2>1 DEF AllocatorInv, SlotsAccounted
  <2>3. <<m_table[d].bin_no, d, s>> # p
    BY Zenon, <1>2, <2>1
  <2> QED BY Zenon, <1>5, <2>1, <2>2, <2>3
<1> QED BY Zenon, <1>6, <1>7 DEF SlotsAccounted

\* Every step keeps the accounts.
LEMMA SlotsKept ==
    ASSUME AllocatorInv, NEW t \in Threads, Call(t) \/ Continue(t)
    PROVE  SlotsAccounted'
<1>1. CASE \/ InsertNewChunk(t) \/ \E b \in LargeBins : AllocateLarge(t, b)
           \/ EraseChunk(t) \/ EraseLarge(t) \/ (FailLarge(t) /\ chunk[t] \in Chunk)
  BY Zenon, <1>1, SlotsInsertErase
<1>2. CASE AllocateFromChunk(t)
  BY Zenon, <1>2, SlotsTake
<1>3. CASE FreeSlot(t)
  BY <1>3, SlotsFree
<1>4. CASE ReturnLarge(t)
  <2> DEFINE p == <<bin[t], chunk[t], 0>>
  <2>1. /\ pc[t] = "extend_large" /\ UNCHANGED directoryVars
        /\ live' = live \cup {p}
        /\ objs' = [objs EXCEPT ![t] = {}]
    BY Zenon, <1>4 DEF ReturnLarge, Return
  <2>2. objs[t] = {}
    BY Zenon, <2>1 DEF AllocatorInv, ObjsOK
  <2>3. p[1] = bin[t] /\ p[2] = chunk[t] /\ p[3] = 0
    OBVIOUS
  <2>4. /\ m_table[chunk[t]].type = "large_chunk_head"
        /\ m_table[chunk[t]].bin_no = bin[t]
    BY ZenonT(60), <1>4, <2>1, ExtendedChunk DEF AllocatorInv, ChunkOK
  <2> HIDE DEF p
  <2>5. \A o : o \in Held' <=> o \in Held \/ o = p
    BY Zenon, <2>1, <2>2, HeldIs, Types
  <2>6. m_table' = m_table
    BY Zenon, <2>1 DEF directoryVars
  <2> QED BY ZenonT(60), <2>3, <2>4, <2>5, <2>6 DEF AllocatorInv, SlotsAccounted
<1>5. CASE /\ ~AllocateFromChunk(t) /\ ~FreeSlot(t) /\ ~ReturnLarge(t)
           /\ ~EraseLarge(t)
           /\ UNCHANGED m_table
  <2>1. \A o : o \in Held' <=> o \in Held
    BY Zenon, <1>5, HeldUnchanged
  <2> QED BY Zenon, <1>5, <2>1 DEF AllocatorInv, SlotsAccounted
<1>6. CASE FailLarge(t) /\ chunk[t] \notin Chunk
  <2>1. UNCHANGED m_table
    BY ZenonT(60), <1>6 DEF FailLarge, directoryVars
  <2> QED BY ZenonT(60), <1>1, <1>2, <1>3, <1>4, <1>5, <2>1
<1>7. CASE UNCHANGED directoryVars
  <2>1. UNCHANGED m_table
    BY Zenon, <1>7 DEF directoryVars
  <2> QED BY Zenon, <1>1, <1>2, <1>3, <1>4, <1>5, <2>1
<1> QED BY ZenonT(60), <1>1, <1>2, <1>3, <1>4, <1>6, <1>7, StepKinds

-----------------------------------------------------------------------------
(* The chunk a thread has at hand.                                         *)

\* How a step of thread t may change an entry, and when.
LEMMA EntryStep ==
    ASSUME AllocatorInv, NEW t \in Threads, Call(t) \/ Continue(t), NEW d \in Chunk
    PROVE  /\ \/ m_table'[d] = m_table[d]
              \/ /\ Insertable(d)
                 /\ m_chunk_mutex = NoThread
                 /\ \/ m_table'[d].type # "small_chunk"
                    \/ m_table'[d].bin_no = bin[t] /\ pc[t] = "alloc"
              \/ /\ pc[t] \in {"alloc", "free"}
                 /\ m_table[d].type = "small_chunk"
                 /\ m_table[d].bin_no = bin[t]
                 /\ m_table'[d].type = "small_chunk"
                 /\ m_table'[d].bin_no = bin[t]
              \/ /\ m_table'[d].type = "unused"
                 /\ m_chunk_mutex \in {NoThread, t}
                 /\ \/ /\ pc[t] = "erase"
                       /\ m_table[d].type = "small_chunk"
                       /\ m_table[d].bin_no = bin[t]
                    \/ m_table[d].type \in {"large_chunk_head", "large_chunk_body"}
           /\ d <= m_last_used_chunk_no /\ ~unused_chunk(d)
                 /\ m_table'[d] = m_table[d] => d <= m_last_used_chunk_no'
<1>0. d \in Int /\ m_last_used_chunk_no \in Int
  BY Types, SizeAssumption DEF Chunk
<1>1. CASE AllocateFromChunk(t)
  <2>1. PICK c \in Chunk : \E S \in SUBSET FreeSlots(c) : Takes(t, c, S)
    BY Zenon, <1>1, TakeEffect
  <2>2. PICK S \in SUBSET FreeSlots(c) : Takes(t, c, S)
    BY Zenon, <2>1
  <2> QED BY ZenonT(60), <1>1, <2>2 DEF AllocateFromChunk, Takes, SlotChange, IsSmall
<1>2. CASE FreeSlot(t)
  <2>1. PICK o \in objs[t], c \in Chunk, s \in Nat : Frees(t, o, c, s)
    BY Zenon, <1>2, FreeEffect
  <2> QED BY Zenon, <1>2, <2>1 DEF FreeSlot, Frees, SlotChange, IsSmall
<1>3. CASE InsertNewChunk(t)
  <2>1. bin[t] \in SmallBins /\ pc[t] = "alloc" /\ m_chunk_mutex = NoThread
    BY Zenon, <1>3, OwnsBin DEF InsertNewChunk, HoldsBinMutex
  <2>2. PICK c \in 0 .. MaxNumChunks :
           InsertSmall(bin[t], c) \/ InsertSmallNoMemory(bin[t], c)
    BY Zenon, <1>3 DEF InsertNewChunk
  <2>3. /\ ~Insertable(d) => m_table'[d] = m_table[d]
        /\ m_table'[d] = m_table[d] \/ m_table'[d].bin_no = bin[t]
        /\ m_last_used_chunk_no' \in Int
        /\ m_last_used_chunk_no <= m_last_used_chunk_no'
    BY ZenonT(60), <2>1, <2>2, InsertSmallEffect DEF AllocatorInv
  <2>4. d <= m_last_used_chunk_no => d <= m_last_used_chunk_no'
    BY <1>0, <2>3
  <2> QED BY ZenonT(60), <2>1, <2>3, <2>4
<1>4. CASE \E b \in LargeBins : AllocateLarge(t, b)
  <2>1. PICK b \in LargeBins : AllocateLarge(t, b)
    BY Zenon, <1>4
  <2>2. PICK c \in 0 .. MaxNumChunks : InsertLarge(b, c)
    BY Zenon, <2>1 DEF AllocateLarge
  <2>3. /\ ~Insertable(d) => m_table'[d] = m_table[d]
        /\ m_table'[d] = m_table[d] \/ m_table'[d].type # "small_chunk"
        /\ m_last_used_chunk_no' \in Int
        /\ m_last_used_chunk_no <= m_last_used_chunk_no'
    BY Zenon, <2>2, InsertLargeEffect DEF AllocatorInv
  <2>4. m_chunk_mutex = NoThread
    BY Zenon, <2>1 DEF AllocateLarge
  <2>5. d <= m_last_used_chunk_no => d <= m_last_used_chunk_no'
    BY <1>0, <2>3
  <2> QED BY ZenonT(60), <2>3, <2>4, <2>5
<1>5. CASE EraseChunk(t) \/ EraseLarge(t) \/ (FailLarge(t) /\ chunk[t] \in Chunk)
  <2>1. PICK c \in Chunk : Erases(t, c)
    BY Zenon, <1>5, EraseTarget
  <2> DEFINE X == Extent(bin[t], c)
  <2>2. /\ \A e \in X : m_table'[e].type = "unused"
        /\ d \notin X => m_table'[d] = m_table[d]
        /\ d \notin X /\ d <= m_last_used_chunk_no /\ ~unused_chunk(d)
              => d <= m_last_used_chunk_no'
    BY ZenonT(60), <2>1, EraseLeaves DEF Erases, AllocatorInv
  <2>3. m_chunk_mutex \in {NoThread, t}
    BY ZenonT(60), <1>5 DEF EraseChunk, EraseLarge, FailLarge, AllocatorInv, LocksOK, HoldsChunkMutex
  <2>4. CASE m_table[c].type = "small_chunk"
    <3>1. EraseChunk(t) /\ bin[t] \in SmallBins /\ m_table[c].bin_no = bin[t]
      BY Zenon, <2>1, <2>4 DEF Erases
    <3>2. X = {c} /\ pc[t] = "erase"
      BY Zenon, <3>1 DEF Extent, EraseChunk
    <3> QED BY ZenonT(60), <2>2, <2>3, <2>4, <3>1, <3>2 DEF unused_chunk
  <2>5. CASE m_table[c].type = "large_chunk_head"
    <3>1. \A e \in X \ {c} : m_table[e].type = "large_chunk_body"
      BY ZenonT(60), <2>1, <2>5 DEF Erases, AllocatorInv, DirectoryInv, LargeRuns
    <3>2. d \in X => m_table[d].type \in {"large_chunk_head", "large_chunk_body"}
      BY Zenon, <2>5, <3>1
    <3> HIDE DEF X
    <3> QED BY ZenonT(60), <2>2, <2>3, <3>2 DEF unused_chunk
  <2> QED BY ZenonT(60), <2>1, <2>4, <2>5 DEF Erases
<1>6. CASE UNCHANGED directoryVars
  BY Zenon, <1>6 DEF directoryVars
<1>7. CASE FailLarge(t) /\ chunk[t] \notin Chunk
  BY Zenon, <1>6, <1>7 DEF FailLarge
<1> QED BY ZenonT(60), <1>1, <1>2, <1>3, <1>4, <1>5, <1>6, <1>7, StepKinds

\* A step changes no list but the one of the bin whose mutex its thread holds.
LEMMA ListsOfOthers ==
    ASSUME AllocatorInv, NEW t \in Threads, Call(t) \/ Continue(t),
           NEW b \in SmallBins, m_bin_mutex[b] # t
    PROVE  m_non_full_chunk_bin'[b] = m_non_full_chunk_bin[b]
<1>1. pc[t] \in HoldsBinMutex => bin[t] # b
  BY Zenon, OwnsBin
<1>2. CASE AllocateFromChunk(t)
  <2>1. BinPop(bin[t]) \/ UNCHANGED m_non_full_chunk_bin
    BY ZenonT(60), <1>2, TakeEffect DEF Takes
  <2> QED BY ZenonT(60), <1>1, <1>2, <2>1, Types DEF AllocateFromChunk, BinPop, HoldsBinMutex
<1>3. CASE ListNewChunk(t)
  BY ZenonT(60), <1>1, <1>3, Types DEF ListNewChunk, BinInsert, HoldsBinMutex
<1>4. CASE FreeSlot(t)
  <2>1. \E c \in Chunk : BinInsert(bin[t], c) \/ UNCHANGED m_non_full_chunk_bin
    BY ZenonT(60), <1>4, FreeEffect DEF Frees
  <2> QED BY ZenonT(60), <1>1, <1>4, <2>1, Types DEF FreeSlot, BinInsert, HoldsBinMutex
<1>5. CASE UnlistChunk(t)
  BY Zenon, <1>1, <1>5, Types DEF UnlistChunk, BinErase, HoldsBinMutex
<1>6. CASE UNCHANGED m_non_full_chunk_bin
  BY Zenon, <1>6
<1> QED BY ZenonT(60), <1>2, <1>3, <1>4, <1>5, <1>6, StepKinds

\* Where an object that a step adds to the ones held comes from.
LEMMA NewlyHeld ==
    ASSUME AllocatorInv, NEW t \in Threads, Call(t) \/ Continue(t),
           NEW o \in Held', o \notin Held
    PROVE  \/ o[1] \in SmallBins /\ Listed(o[1], o[2])
           \/ ReturnLarge(t) /\ o = <<bin[t], chunk[t], 0>>
<1>1. CASE AllocateFromChunk(t)
  <2>1. PICK c \in Chunk : \E S \in SUBSET FreeSlots(c) : Takes(t, c, S)
    BY ZenonT(60), <1>1, TakeEffect
  <2>2. PICK S \in SUBSET FreeSlots(c) : Takes(t, c, S)
    BY Zenon, <2>1
  <2>3. objs' = [objs EXCEPT ![t] = @ \cup {<<bin[t], c, s>> : s \in S}]
        /\ bin[t] \in SmallBins /\ UNCHANGED live
    BY ZenonT(60), <1>1, <2>2 DEF Takes, AllocateFromChunk
  <2>4. o \in {<<bin[t], c, s>> : s \in S}
    BY ZenonT(60), <2>3, HeldIs, Types
  <2>5. o[1] = bin[t] /\ o[2] = c
    BY <2>4
  <2>6. Listed(bin[t], c)
    BY Zenon, <2>2 DEF Takes, Listed
  <2> QED BY ZenonT(60), <2>3, <2>5, <2>6
<1>2. CASE FreeSlot(t)
  <2>1. PICK p \in objs[t], c \in Chunk, s \in Nat : Frees(t, p, c, s)
    BY ZenonT(60), <1>2, FreeEffect
  <2>2. objs' = [objs EXCEPT ![t] = @ \ {p}] /\ UNCHANGED live
    BY ZenonT(60), <1>2, <2>1 DEF Frees, FreeSlot
  <2> QED BY ZenonT(60), <2>2, HeldIs, Types
<1>3. CASE EraseLarge(t)
  BY ZenonT(60), <1>3, HeldIs, Types DEF EraseLarge
<1>4. CASE ReturnLarge(t)
  <2>1. /\ live' = live \cup {<<bin[t], chunk[t], 0>>}
        /\ objs' = [objs EXCEPT ![t] = {}]
    BY Zenon, <1>4 DEF ReturnLarge, Return
  <2> QED BY ZenonT(60), <1>4, <2>1, HeldIs, Types
<1>5. CASE ~AllocateFromChunk(t) /\ ~FreeSlot(t) /\ ~ReturnLarge(t) /\ ~EraseLarge(t)
  BY Zenon, <1>5, HeldUnchanged
<1> QED BY ZenonT(60), <1>1, <1>2, <1>3, <1>4, <1>5

\* What ChunkOK says of one thread.
ChunkOKOf(u) ==
    /\ pc[u] = "extend" /\ chunk[u] # MaxNumChunks => Fresh(bin[u], chunk[u])
    /\ pc[u] = "extend" => m_non_full_chunk_bin[bin[u]] = <<>> /\ todo[u] > 0
    /\ pc[u] = "extend_large" /\ chunk[u] # MaxNumChunks =>
          /\ m_table[chunk[u]].type = "large_chunk_head"
          /\ m_table[chunk[u]].bin_no = bin[u]
          /\ <<bin[u], chunk[u], 0>> \notin Held
    /\ pc[u] = "erase" => Fresh(bin[u], chunk[u])
    /\ pc[u] \in {"punch", "punch_large"} =>
          \A d \in Extent(bin[u], chunk[u]) : d \in Chunk /\ unused_chunk(d)
    /\ pc[u] \in {"punch", "unlist"} =>
          /\ chunk[u] \in Chunk
          /\ ~(/\ m_table[chunk[u]].type = "small_chunk"
               /\ m_table[chunk[u]].bin_no = bin[u])

\* A fresh chunk of a bin whose mutex another thread holds stays fresh.
LEMMA FreshKept ==
    ASSUME AllocatorInv, NEW t \in Threads, Call(t) \/ Continue(t),
           NEW u \in Threads, u # t, pc[u] \in HoldsBinMutex,
           NEW b, NEW c, b = bin[u], Fresh(b, c)
    PROVE  Fresh(b, c)'
<1>1. /\ c \in Chunk /\ c <= m_last_used_chunk_no
      /\ m_table[c].type = "small_chunk" /\ m_table[c].bin_no = b
      /\ m_table[c].slot_occupancy = {}
  BY Zenon DEF Fresh
<1>2. c \in Int /\ m_last_used_chunk_no \in Int
  BY <1>1, Types, SizeAssumption DEF Chunk
<1>3. ~Insertable(c) /\ ~unused_chunk(c)
  BY <1>1, <1>2 DEF Insertable, unused_chunk
<1>4. pc[t] \in {"alloc", "free", "erase"} => bin[t] # b
  BY Zenon, OwnsBin DEF HoldsBinMutex
<1>5. m_table'[c] = m_table[c] /\ c <= m_last_used_chunk_no'
  BY ZenonT(60), <1>1, <1>3, <1>4, EntryStep
<1> QED BY Zenon, <1>1, <1>5 DEF Fresh, Chunk

\* The other threads' chunks at hand are not disturbed.
LEMMA ChunkKeptOthers ==
    ASSUME AllocatorInv, NEW t \in Threads, Call(t) \/ Continue(t),
           NEW u \in Threads, u # t
    PROVE  ChunkOKOf(u)'
<1> PICK b, c : b = bin[u] /\ c = chunk[u]
  OBVIOUS
<1>0. /\ pc'[u] = pc[u] /\ bin'[u] = b /\ todo'[u] = todo[u] /\ chunk'[u] = c
  BY Zenon, OthersUnchanged
<1>1. ChunkOKOf(u)
  BY Zenon DEF AllocatorInv, ChunkOK, ChunkOKOf
<1>2. /\ pc[u] \in HoldsBinMutex => b \in SmallBins /\ m_bin_mutex[b] = u
      /\ pc[u] \in HoldsBinMutex /\ pc[t] \in HoldsBinMutex => bin[t] # b
      /\ pc[u] \in HoldsChunkMutex => m_chunk_mutex = u
      /\ pc[u] \in WorksOnLarge => b \in LargeBins
      /\ NoThread # u
  BY ZenonT(60), OwnsBin, ThreadAssumption DEF AllocatorInv, LocksOK
<1>3. c # MaxNumChunks => c \in Chunk
  BY Types, SizeAssumption DEF Chunk
<1>4. CASE pc[u] = "extend"
  <2>1. c # MaxNumChunks => Fresh(b, c)
    BY Zenon, <1>1, <1>4 DEF ChunkOKOf
  <2>2. c # MaxNumChunks => Fresh(b, c)'
    BY ZenonT(60), <1>4, <2>1, FreshKept DEF HoldsBinMutex
  <2>3. m_non_full_chunk_bin'[b] = m_non_full_chunk_bin[b]
    BY Zenon, <1>2, <1>4, ListsOfOthers DEF HoldsBinMutex
  <2>4. m_non_full_chunk_bin[b] = <<>> /\ todo[u] > 0
    BY Zenon, <1>1, <1>4 DEF ChunkOKOf
  <2> QED BY ZenonT(60), <1>0, <1>4, <2>2, <2>3, <2>4 DEF ChunkOKOf, Fresh
<1>5. CASE pc[u] = "extend_large"
  <2>1. ASSUME c # MaxNumChunks
        PROVE  /\ m_table'[c].type = "large_chunk_head"
               /\ m_table'[c].bin_no = b
               /\ <<b, c, 0>> \notin Held'
    <3>1. /\ m_table[c].type = "large_chunk_head"
          /\ m_table[c].bin_no = b
          /\ <<b, c, 0>> \notin Held
      BY ZenonT(60), <1>1, <1>5, <2>1 DEF ChunkOKOf
    <3>2. m_table'[c] = m_table[c]
      BY ZenonT(60), <1>2, <1>3, <1>5, <2>1, <3>1, EntryStep DEF HoldsChunkMutex
    <3>3. ~ReturnLarge(t)
      BY ZenonT(60), <1>2, <1>5 DEF ReturnLarge, AllocatorInv, LocksOK, HoldsChunkMutex
    <3>4. <<b, c, 0>>[1] = b /\ b \notin SmallBins
      BY ZenonT(60), <1>2, <1>5, BinAssumption DEF WorksOnLarge
    <3>5. <<b, c, 0>> \notin Held'
      BY ZenonT(60), <3>1, <3>3, <3>4, NewlyHeld
    <3> QED BY ZenonT(60), <3>1, <3>2, <3>5
  <2> QED BY Zenon, <1>0, <1>5, <2>1 DEF ChunkOKOf
<1>6. CASE pc[u] = "erase"
  <2>1. Fresh(b, c)
    BY ZenonT(60), <1>1, <1>6 DEF ChunkOKOf
  <2>2. Fresh(b, c)'
    BY ZenonT(60), <1>6, <2>1, FreshKept DEF HoldsBinMutex
  <2> QED BY ZenonT(60), <1>0, <1>6, <2>2 DEF ChunkOKOf, Fresh
<1>7. ASSUME pc[u] \in {"punch", "punch_large"}, NEW d \in Extent(b, c)
      PROVE  d \in Chunk /\ m_table'[d].type = "unused"
  <2>1. d \in Chunk /\ m_table[d].type = "unused"
    BY ZenonT(60), <1>1, <1>7 DEF ChunkOKOf, unused_chunk
  <2>2. m_table'[d] = m_table[d]
    BY ZenonT(60), <1>2, <1>7, <2>1, EntryStep DEF HoldsChunkMutex
  <2> QED BY Zenon, <2>1, <2>2
<1>8. ASSUME pc[u] \in {"punch", "unlist"}
      PROVE  c \in Chunk /\ ~(m_table'[c].type = "small_chunk" /\ m_table'[c].bin_no = b)
  <2>1. c \in Chunk /\ ~(m_table[c].type = "small_chunk" /\ m_table[c].bin_no = b)
    BY Zenon, <1>1, <1>8 DEF ChunkOKOf
  <2>2. pc[t] \in {"alloc", "free"} => bin[t] # b
    BY ZenonT(60), <1>2, <1>8 DEF HoldsBinMutex
  <2> QED BY ZenonT(60), <2>1, <2>2, EntryStep
<1>9. CASE pc[u] \in {"punch", "punch_large", "unlist"}
  <2>1. pc[u] \in {"punch", "punch_large"} =>
          \A d \in Extent(b, c) : d \in Chunk /\ m_table'[d].type = "unused"
    BY ZenonT(60), <1>7
  <2> QED BY ZenonT(60), <1>0, <1>8, <1>9, <2>1 DEF ChunkOKOf, unused_chunk, Extent, Chunk
<1>10. CASE pc[u] \notin {"extend", "extend_large", "erase", "punch",
                          "punch_large", "unlist"}
  BY ZenonT(60), <1>0, <1>10 DEF ChunkOKOf
<1> QED BY ZenonT(60), <1>4, <1>5, <1>6, <1>9, <1>10

\* The acting thread's own chunk is what the next part of its call needs.
LEMMA ChunkKeptSelf ==
    ASSUME AllocatorInv, NEW t \in Threads, Call(t) \/ Continue(t)
    PROVE  ChunkOKOf(t)'
<1>1. CASE InsertNewChunk(t)
  <2>1. /\ bin[t] \in SmallBins /\ todo[t] > 0
        /\ m_non_full_chunk_bin[bin[t]] = <<>>
        /\ UNCHANGED <<bin, todo, m_non_full_chunk_bin>>
        /\ pc'[t] = "extend"
    BY ZenonT(60), <1>1, OwnsBin, Types DEF InsertNewChunk, HoldsBinMutex, Goto
  <2>2. PICK c \in 0 .. MaxNumChunks :
           /\ InsertSmall(bin[t], c) \/ InsertSmallNoMemory(bin[t], c)
           /\ chunk' = [chunk EXCEPT ![t] = c]
    BY Zenon, <1>1 DEF InsertNewChunk
  <2>3. c # MaxNumChunks => Fresh(bin[t], c)'
    BY ZenonT(60), <2>1, <2>2, InsertSmallEffect DEF AllocatorInv
  <2>4. chunk'[t] = c
    BY Zenon, <2>2, Types
  <2> QED BY ZenonT(60), <2>1, <2>3, <2>4 DEF ChunkOKOf, Fresh
<1>2. CASE \E b \in LargeBins : AllocateLarge(t, b)
  <2>1. PICK b \in LargeBins : AllocateLarge(t, b)
    BY Zenon, <1>2
  <2>2. PICK c \in 0 .. MaxNumChunks :
           InsertLarge(b, c) /\ chunk' = [chunk EXCEPT ![t] = c]
    BY Zenon, <2>1 DEF AllocateLarge
  <2>3. pc'[t] = "extend_large" /\ bin'[t] = b /\ chunk'[t] = c
    BY ZenonT(60), <2>1, <2>2, Types DEF AllocateLarge, Goto
  <2>4. c # MaxNumChunks => /\ Insertable(c)
                            /\ m_table'[c].type = "large_chunk_head"
                            /\ m_table'[c].bin_no = b
    BY ZenonT(60), <2>2, InsertLargeEffect DEF AllocatorInv
  <2>5. \A o \in Held : ~Insertable(o[2])
    BY Zenon, HeldEntry
  <2>6. <<b, c, 0>>[2] = c
    OBVIOUS
  <2>7. c # MaxNumChunks => <<b, c, 0>> \notin Held
    BY ZenonT(60), <2>4, <2>5, <2>6
  <2>8. \A o : o \in Held' <=> o \in Held
    BY ZenonT(60), <2>1, HeldIs DEF AllocateLarge
  <2> QED BY ZenonT(60), <2>3, <2>4, <2>7, <2>8 DEF ChunkOKOf
<1>3. CASE FreeSlot(t)
  <2>1. PICK o \in objs[t], c \in Chunk, s \in Nat : Frees(t, o, c, s)
    BY <1>3, FreeEffect
  <2>2. pc[t] = "free" /\ UNCHANGED bin
    BY Zenon, <1>3 DEF FreeSlot
  <2>3. CASE UNCHANGED pc
    BY ZenonT(60), <2>2, <2>3 DEF ChunkOKOf
  <2>4. CASE m_table[c].num_occupied_slots = 1 /\ Goto(t, "erase")
    <3> DEFINE W == m_table[c].slot_occupancy \ {s}
    <3>1. /\ SlotChange(c, W)
          /\ m_table'[c].num_occupied_slots = m_table[c].num_occupied_slots - 1
          /\ m_table[c].type = "small_chunk" /\ m_table[c].bin_no = bin[t]
          /\ bin[t] \in SmallBins
          /\ c <= m_last_used_chunk_no
          /\ chunk' = [chunk EXCEPT ![t] = c]
      BY Zenon, <2>1 DEF Frees, IsSmall
    <3> HIDE DEF W
    <3>a. /\ m_table'[c].type = m_table[c].type
          /\ m_table'[c].bin_no = m_table[c].bin_no
          /\ m_table'[c].slot_occupancy = W
          /\ m_table'[c].num_occupied_slots = Cardinality(W)
          /\ W \subseteq Slot(m_table[c].bin_no)
          /\ m_last_used_chunk_no' = m_last_used_chunk_no
      BY Zenon, <3>1 DEF SlotChange
    <3>b. 1 - 1 = 0
      OBVIOUS
    <3>2. /\ m_table'[c].type = "small_chunk" /\ m_table'[c].bin_no = bin[t]
          /\ m_table'[c].slot_occupancy = W
          /\ Cardinality(W) = 0
          /\ W \subseteq Slot(bin[t])
          /\ m_last_used_chunk_no' = m_last_used_chunk_no
      BY ZenonT(60), <2>4, <3>1, <3>a, <3>b
    <3>3. W = {}
      BY ZenonT(60), <3>1, <3>2, SlotsFinite, FS_Subset, FS_EmptySet
    <3>4. pc'[t] = "erase" /\ chunk'[t] = c /\ bin'[t] = bin[t]
      BY ZenonT(60), <2>2, <2>4, <3>1, Types DEF Goto
    <3> QED BY ZenonT(60), <3>1, <3>2, <3>3, <3>4 DEF ChunkOKOf, Fresh, Chunk
  <2> QED BY ZenonT(60), <2>1, <2>3, <2>4 DEF Frees
<1>4. CASE EraseChunk(t)
  <2>1. PICK c \in Chunk : Erases(t, c)
    BY ZenonT(60), <1>4, EraseTarget
  <2>2. bin[t] \in SmallBins /\ c = chunk[t]
    BY ZenonT(60), <1>4, <2>1 DEF Erases, EraseChunk, EraseLarge, FailLarge
  <2>3. m_table'[c].type = "unused"
    BY Zenon, <2>1, EraseLeaves DEF Erases, AllocatorInv
  <2>4. pc'[t] = "punch" /\ UNCHANGED <<bin, chunk>>
    BY Zenon, <1>4, Types DEF EraseChunk, Goto, locals
  <2> QED BY ZenonT(60), <2>2, <2>3, <2>4 DEF ChunkOKOf, Extent, unused_chunk, Chunk
<1>5. CASE EraseLarge(t)
  <2>1. PICK c \in Chunk : Erases(t, c)
    BY ZenonT(60), <1>5, EraseTarget
  <2>2. chunk'[t] = c
    BY ZenonT(60), <1>5, <2>1 DEF Erases, EraseChunk, EraseLarge, FailLarge
  <2> DEFINE X == Extent(bin[t], c)
  <2>3. X \subseteq Chunk /\ \A d \in X : m_table'[d].type = "unused"
    BY ZenonT(60), <2>1, EraseLeaves DEF Erases, AllocatorInv
  <2>4. pc'[t] = "punch_large" /\ UNCHANGED bin
    BY ZenonT(60), <1>5, Types DEF EraseLarge, Goto
  <2> QED BY ZenonT(60), <2>2, <2>3, <2>4 DEF ChunkOKOf, Extent, unused_chunk, Chunk
<1>6. CASE FreeChunk(t)
  <2>1. /\ pc[t] = "punch" /\ pc'[t] = "unlist"
        /\ UNCHANGED <<m_table, bin, chunk>>
    BY ZenonT(60), <1>6, Types DEF FreeChunk, Goto, locals, directoryVars
  <2>2. /\ chunk[t] \in Chunk
        /\ ~(m_table[chunk[t]].type = "small_chunk" /\ m_table[chunk[t]].bin_no = bin[t])
    BY ZenonT(60), <2>1 DEF AllocatorInv, ChunkOK
  <2> QED BY ZenonT(60), <2>1, <2>2 DEF ChunkOKOf, Chunk
<1>7. CASE pc'[t] \in {"idle", "alloc", "free_lock", "free", "free_large"}
  BY Zenon, <1>7 DEF ChunkOKOf
<1>8. CASE AllocateFromChunk(t) \/ ListNewChunk(t) \/ FailNewChunk(t)
           \/ LockForFree(t) \/ UnlistChunk(t)
  BY ZenonT(60), <1>7, <1>8, Types DEF AllocateFromChunk, ListNewChunk, FailNewChunk,
     LockForFree, UnlistChunk, Goto
<1>9. CASE \/ \E b \in SmallBins, n \in BatchSizes : AllocateSmall(t, b, n)
           \/ \E o \in live : Deallocate(t, o)
           \/ \E b \in SmallBins, S \in SUBSET live : DeallocateMany(t, b, S)
  BY ZenonT(60), <1>7, <1>9, Types DEF AllocateSmall, Deallocate, DeallocateMany, Goto
<1>10. CASE ReturnSmall(t) \/ ReturnLarge(t) \/ FailLarge(t) \/ ReturnFree(t) \/ FreeLarge(t)
  BY ZenonT(60), <1>7, <1>10, Types DEF ReturnSmall, ReturnLarge, FailLarge, ReturnFree,
     FreeLarge, Return, Goto
<1> QED BY ZenonT(60), <1>1, <1>2, <1>3, <1>4, <1>5, <1>6, <1>8, <1>9, <1>10 DEF Call, Continue

\* Every step keeps ChunkOK.
LEMMA ChunkKept ==
    ASSUME AllocatorInv, NEW t \in Threads, Call(t) \/ Continue(t)
    PROVE  ChunkOK'
<1>1. \A u \in Threads : ChunkOKOf(u)'
  BY Zenon, ChunkKeptOthers, ChunkKeptSelf
<1> QED BY Zenon, <1>1 DEF ChunkOK, ChunkOKOf
=============================================================================
