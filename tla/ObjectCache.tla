---------------------------- MODULE ObjectCache ----------------------------
(***************************************************************************)
(* The caches of small objects, src/include/metall/kernel/object_cache.hpp.*)
(*                                                                         *)
(* A cache owns NumBlocks blocks.  A block holds objects of one bin and is *)
(* in two doubly linked lists, of all blocks by age and of its bin's       *)
(* blocks, or in the list of free blocks.  A call runs under the mutex of  *)
(* its cache; other caches run between its calls of the global allocator,  *)
(* which is modelled by the set of its free objects.                       *)
(***************************************************************************)
EXTENDS Integers, Sequences, Functions

CONSTANTS
    Caches,        \* cache numbers (several per CPU)
    Bins,          \* the bins that are cached, 0 .. k_max_bin_no
    Object,        \* the objects of the global allocator
    BinOf,         \* BinOf[o]: the bin of an object
    ObjectSize,    \* ObjectSize[b]: size of its objects
    BatchSize,     \* BatchSize[b]: comp_chunk_size, objects fetched at once
    k_capacity,    \* entries of a block
    NumBlocks,     \* k_num_blocks_per_cache
    MaxCacheSize,  \* k_max_per_cpu_cache_size
    NullOffset     \* k_null_offset, what a failed allocation returns

\* comp_chunk_size gives a batch that fits a block, and comp_max_bin_no leaves
\* out the bins of which two batches do not fit a cache (one is all the cache
\* relies on).  A cache has a block (the assertion of free_blocks_list).
ASSUME CacheAssumption ==
    /\ NumBlocks \in Nat \ {0}
    /\ k_capacity \in Nat \ {0}
    /\ MaxCacheSize \in Nat
    /\ 0 \in Bins
    /\ NullOffset \notin Object
    /\ BinOf \in [Object -> Bins]
    /\ ObjectSize \in [Bins -> Nat \ {0}]
    /\ BatchSize \in [Bins -> 1 .. k_capacity]
    /\ \A b \in Bins : BatchSize[b] * ObjectSize[b] <= MaxCacheSize

VARIABLES
    cache,   \* the contents of every cache
    op,      \* the call in progress in every cache
    free,    \* objects the global allocator has
    live     \* objects that clients have

vars == <<cache, op, free, live>>

Block == 1 .. NumBlocks
Nil == 0                               \* nullptr
Idle == [name |-> "idle"]

ObjectsOf(b) == {o \in Object : BinOf[o] = b}

-----------------------------------------------------------------------------
(* Blocks and their lists. *)

\* What the entries of a block without objects hold.  The code leaves old
\* offsets behind the last object, and never reads them; here they are null.
NoEntries == [i \in 1 .. k_capacity |-> NullOffset]

\* cache_block::clear.
clear(blk, b) == [blk EXCEPT !.bin_no = b, !.older = Nil, !.newer = Nil,
                             !.bin_older = Nil, !.bin_newer = Nil]

\* Mutant: the block's own bin list is forgotten.
DisconnectAgeOnly(B, k) ==
    [x \in Block |->
       [B[x] EXCEPT !.older = IF x = B[k].newer THEN B[k].older ELSE @,
                    !.newer = IF x = B[k].older THEN B[k].newer ELSE @]]

\* cache_block::disconnect: take block k out of both lists.
disconnect(B, k) ==
    [x \in Block |->
       [B[x] EXCEPT
          !.older = IF x = B[k].newer THEN B[k].older ELSE @,
          !.newer = IF x = B[k].older THEN B[k].newer ELSE @,
          !.bin_older = IF x = B[k].bin_newer THEN B[k].bin_older ELSE @,
          !.bin_newer = IF x = B[k].bin_older THEN B[k].bin_newer ELSE @]]

\* cache_block::link_to_older: put block k before `block' and `bin_block'.
link_to_older(B, k, block, bin_block) ==
    [x \in Block |->
       [B[x] EXCEPT !.older = IF x = k THEN block ELSE @,
                    !.newer = IF x = block THEN k ELSE @,
                    !.bin_older = IF x = k THEN bin_block ELSE @,
                    !.bin_newer = IF x = bin_block THEN k ELSE @]]

\* cache_header::unregister and register_new_block.
unregister(K, k) ==
    [K EXCEPT !.newest = IF @ = k THEN K.blocks[k].older ELSE @,
              !.oldest = IF @ = k THEN K.blocks[k].newer ELSE @]

register_new_block(K, k) ==
    [K EXCEPT !.newest = k, !.oldest = IF @ = Nil THEN k ELSE @]

\* free_blocks_list: blocks that were used, then the ones never touched.
NoFreeBlock(K) == K.m_blocks = Nil /\ K.uninit_top = Nil

FreeBlock(K) == IF K.m_blocks # Nil THEN K.m_blocks ELSE K.uninit_top

PopFreeBlock(K) ==
    IF K.m_blocks # Nil
    THEN [K EXCEPT !.m_blocks = K.blocks[@].older]
    ELSE [K EXCEPT !.uninit_top = IF @ = NumBlocks THEN Nil ELSE @ + 1]

PushFreeBlock(K, k) ==
    [K EXCEPT !.blocks[k].older = K.m_blocks, !.blocks[k].cache = NoEntries,
              !.m_blocks = k]

\* Unregister, disconnect and free a block.
DropBlock(K, k) ==
    LET U == unregister(K, k)
    IN  PushFreeBlock([U EXCEPT !.blocks = disconnect(U.blocks, k)], k)

\* A free block becomes the newest one, and the active one of bin b with n
\* entries.
AddBlock(K, b, n) ==
    LET k == FreeBlock(K)
        P == PopFreeBlock(K)
        B == [P.blocks EXCEPT ![k] = clear(@, b)]
        L == [P EXCEPT !.blocks = link_to_older(B, k, P.newest, P.bins[b].active)]
    IN  [register_new_block(L, k) EXCEPT !.bins[b] = [active |-> k, size |-> n]]

NoActive == [active |-> Nil, size |-> 0]

\* bin_header::move_to_next_active_block: older blocks are full.
move_to_next_active_block(K, b) ==
    LET next == K.blocks[K.bins[b].active].bin_older
    IN  [K EXCEPT !.bins[b] = [active |-> next,
                               size |-> IF next = Nil THEN 0 ELSE k_capacity]]

\* What block k holds: up to the size of its bin's header if it is active.
NumObjects(K, k) ==
    LET h == K.bins[K.blocks[k].bin_no]
    IN  IF h.active = k THEN h.size ELSE k_capacity

Entries(K, k) == {K.blocks[k].cache[i] : i \in 1 .. NumObjects(K, k)} \ {NullOffset}

-----------------------------------------------------------------------------
(* Calls. *)

EmptyCache(B) ==
    [blocks |-> B, m_blocks |-> Nil, uninit_top |-> 1, total |-> 0,
     oldest |-> Nil, newest |-> Nil,
     bins |-> [b \in Bins |-> NoActive]]

\* The blocks are not initialized; nothing reads them before clear().
RawBlock == [bin_no |-> 0, older |-> Nil, newer |-> Nil, bin_older |-> Nil,
             bin_newer |-> Nil, cache |-> NoEntries]

Init ==
    /\ cache = [c \in Caches |-> EmptyCache([k \in Block |-> RawBlock])]
    /\ op = [c \in Caches |-> Idle]
    /\ free = Object
    /\ live = {}

\* The condition of the loop in priv_make_room_for_new_blocks.
NeedsRoom(K, size) == K.total + size > MaxCacheSize \/ NoFreeBlock(K)

\* Pop the last entry of the active block of bin b.
PopEntry(c, K, b) ==
    LET h == K.bins[b]
        o == K.blocks[h.active].cache[h.size]
    IN  /\ cache' = [cache EXCEPT ![c] =
                       [K EXCEPT !.blocks[h.active].cache[h.size] = NullOffset,
                                 !.bins[b].size = @ - 1,
                                 !.total = @ - ObjectSize[b]]]
        /\ live' = live \cup ({o} \ {NullOffset})
        /\ op' = [op EXCEPT ![c] = Idle]

\* priv_pop, up to the point where it needs new objects.
Pop(c, b) ==
    LET K == cache[c]
        h == K.bins[b]
        D == IF h.size = 0 /\ h.active # Nil
             THEN DropBlock(move_to_next_active_block(K, b), h.active)
             ELSE K
    IN  /\ op[c] = Idle
        /\ IF D.bins[b].size = 0
           THEN /\ cache' = [cache EXCEPT ![c] = D]
                /\ op' = [op EXCEPT ![c] = [name |-> "fill", bin |-> b]]
                /\ UNCHANGED live
           ELSE PopEntry(c, D, b)
        /\ UNCHANGED free

\* How much room the call in progress asks for.
NewSize(c) == IF op[c].name = "fill"
              THEN BatchSize[op[c].bin] * ObjectSize[op[c].bin]
              ELSE ObjectSize[op[c].bin]

\* Mutant: the round that is to make room frees nothing.
EvictNothing(c) ==
    /\ op[c].name \in {"fill", "push"}
    /\ NeedsRoom(cache[c], NewSize(c))
    /\ UNCHANGED vars

\* One round of priv_make_room_for_new_blocks: the oldest block's objects are
\* deallocated, null entries are skipped by the allocator.
Evict(c) ==
    LET K == cache[c]
        k == K.oldest
        b == K.blocks[k].bin_no
        T == [K EXCEPT !.total = @ - NumObjects(K, k) * ObjectSize[b],
                       !.bins[b] = IF @.active = k THEN NoActive ELSE @]
    IN  /\ op[c].name \in {"fill", "push"}
        /\ NeedsRoom(K, NewSize(c))
        /\ free' = free \cup Entries(K, k)
        /\ cache' = [cache EXCEPT ![c] = DropBlock(T, k)]
        /\ UNCHANGED <<op, live>>

\* The allocator's answers to a request for a batch: the objects it could get,
\* in any order (the entries behind them are null).
Batches(b) ==
    {s \in UNION {[1 .. n -> free \cap ObjectsOf(b)] : n \in 0 .. BatchSize[b]} :
        \A i, j \in DOMAIN s : s[i] = s[j] => i = j}

BatchBytes(b) == BatchSize[b] * ObjectSize[b]

\* The rest of priv_pop: a batch of objects is allocated into a free block and
\* the last entry is popped.
Fill(c, s) ==
    LET b == op[c].bin
        A == AddBlock(cache[c], b, BatchSize[b])
        F == [A EXCEPT !.blocks[A.newest].cache =
                          [i \in 1 .. k_capacity |->
                             IF i \in DOMAIN s THEN s[i] ELSE NullOffset],
                       !.total = @ + BatchBytes(b)]
    IN  /\ ~NeedsRoom(cache[c], NewSize(c))
        /\ free' = free \ Range(s)
        /\ PopEntry(c, F, b)

\* priv_push: the object leaves its owner ...
Push(c, o) ==
    /\ op[c] = Idle
    /\ live' = live \ {o}
    /\ op' = [op EXCEPT ![c] = [name |-> "push", bin |-> BinOf[o], obj |-> o]]
    /\ UNCHANGED <<cache, free>>

NeedsBlock(h) == h.active = Nil \/ h.size = k_capacity

\* ... and is stored in the active block once there is room.
StorePushed(c) ==
    LET b == op[c].bin
        K == cache[c]
        A == IF NeedsBlock(K.bins[b]) THEN AddBlock(K, b, 0) ELSE K
        h == A.bins[b]
    IN  /\ op[c].name = "push"
        /\ ~NeedsRoom(K, NewSize(c))
        /\ cache' = [cache EXCEPT ![c] =
                       [A EXCEPT !.blocks[h.active].cache[h.size + 1] = op[c].obj,
                                 !.bins[b].size = h.size + 1,
                                 !.total = @ + ObjectSize[b]]]
        /\ op' = [op EXCEPT ![c] = Idle]
        /\ UNCHANGED <<free, live>>

-----------------------------------------------------------------------------
(* Walks over the blocks of a bin: clear() and the iterator.               *)

\* A walk goes on to the next block if there is one.
Onward(first, next, s) ==
    LET k == IF s = <<>> THEN first ELSE next[s[Len(s)]]
    IN  IF k = Nil THEN s ELSE Append(s, k)

\* The blocks from `first' on along `next', at most NumBlocks of them.
Walk(first, next) ==
    LET walk[n \in 0 .. NumBlocks] ==
          IF n = 0 THEN <<>> ELSE Onward(first, next, walk[n - 1])
    IN  walk[NumBlocks]

\* The blocks of a bin from the active one on.
BinBlocks(K, b) == Walk(K.bins[b].active, [k \in Block |-> K.blocks[k].bin_older])

\* Mutant: only the active blocks are cleared.
ClearedActive(K) ==
    UNION {Entries(K, K.bins[b].active) : b \in {x \in Bins : K.bins[x].active # Nil}}

\* The objects clear() deallocates.
Cleared(K) ==
    UNION {Entries(K, k) : k \in UNION {Range(BinBlocks(K, b)) : b \in Bins}}

\* clear(): called by serialize() and profile(), without a lock and while no
\* call is in progress.
Clear ==
    /\ \A c \in Caches : op[c] = Idle
    /\ free' = free \cup UNION {Cleared(cache[c]) : c \in Caches}
    /\ cache' = [c \in Caches |-> EmptyCache([k \in Block |-> RawBlock])]
    /\ UNCHANGED <<op, live>>

\* The places that begin() .. end() visit, in all caches and bins: those of the
\* objects in the bin's blocks, none in an active block that is empty.
Visited ==
    {e \in Caches \X Block \X (1 .. k_capacity) :
        /\ \E b \in Bins : e[2] \in Range(BinBlocks(cache[e[1]], b))
        /\ e[3] <= NumObjects(cache[e[1]], e[2])}

At(e) == cache[e[1]].blocks[e[2]].cache[e[3]]

\* Mutant: marked slots that are not cached are not looked for.
AllCachedAreMarked == \A e \in Visited : At(e) \in Object \ free

\* priv_check_all_small_allocations_are_cached_without_lock: every cached entry
\* must be a marked slot not seen before, and none may be left over.
AllSmallAllocationsCached ==
    /\ \A e \in Visited : At(e) \in Object \ free
    /\ \A e, f \in Visited : At(e) = At(f) => e = f
    /\ Object \ free \subseteq {At(e) : e \in Visited}

\* all_memory_deallocated; the chunk directory is empty when no slot is marked.
all_memory_deallocated == free = Object \/ AllSmallAllocationsCached

Step(c) ==
    \/ Evict(c)
    \/ op[c].name = "fill" /\ \E s \in Batches(op[c].bin) : Fill(c, s)
    \/ StorePushed(c)

Next ==
    \/ \E c \in Caches : \/ \E b \in Bins : Pop(c, b)
                         \/ \E o \in live : Push(c, o)
                         \/ Step(c)
    \/ Clear

Spec == Init /\ [][Next]_vars

-----------------------------------------------------------------------------
(* Properties. *)

\* The blocks in use by age, from the newest one along `older', and the free
\* ones that were in use.
ByAge(K) == Walk(K.newest, [k \in Block |-> K.blocks[k].older])

FreeList(K) == Walk(K.m_blocks, [k \in Block |-> K.blocks[k].older])

Untouched(K) == IF K.uninit_top = Nil THEN {} ELSE K.uninit_top .. NumBlocks

InUse(K) == Range(ByAge(K))

CachedIn(c) == UNION {Entries(cache[c], k) : k \in InUse(cache[c])}

\* Where a walk meets each block once.
NoCycle(s) == \A i, j \in DOMAIN s : s[i] = s[j] => i = j

\* The lists of a cache: a block is in the age list, in the free list or
\* untouched; both directions of the age list and of the bins' lists agree; the
\* bins' lists partition the age list and are ordered by age.
Intact(K) ==
    LET age == ByAge(K)
        fl == FreeList(K)
    IN  /\ NoCycle(age) /\ NoCycle(fl)
        /\ Range(age) \cap Range(fl) = {}
        /\ Range(age) \cup Range(fl) = Block \ Untouched(K)
        /\ K.oldest = (IF age = <<>> THEN Nil ELSE age[Len(age)])
        /\ \A i \in DOMAIN age :
              K.blocks[age[i]].newer = (IF i = 1 THEN Nil ELSE age[i - 1])
        /\ \A b \in Bins :
              LET bl == BinBlocks(K, b)
              IN  /\ Range(bl) = {k \in Range(age) : K.blocks[k].bin_no = b}
                  /\ \A i, j \in DOMAIN age, m, n \in DOMAIN bl :
                        age[i] = bl[m] /\ age[j] = bl[n] => (i < j <=> m < n)
                  /\ \A i \in DOMAIN bl :
                        K.blocks[bl[i]].bin_newer = (IF i = 1 THEN Nil ELSE bl[i - 1])

\* The pointers of every cache form such lists (disconnect, link_to_older,
\* unregister, free_blocks_list).
ListsIntact == \A c \in Caches : Intact(cache[c])

\* The bytes of a block's objects, and of all blocks up to one.
Bytes(K, k) == IF k \in InUse(K)
               THEN NumObjects(K, k) * ObjectSize[K.blocks[k].bin_no]
               ELSE 0

Total(w) ==
    LET sum[n \in 0 .. NumBlocks] == IF n = 0 THEN 0 ELSE sum[n - 1] + w[n]
    IN  sum[NumBlocks]

\* total_size_byte() is the size of all entries, and the limit of a cache is
\* kept (the assertions in priv_pop and priv_push).
SizeExact ==
    \A c \in Caches :
       LET K == cache[c]
       IN  K.total = Total([k \in Block |-> Bytes(K, k)]) /\ K.total <= MaxCacheSize

\* Both hold after every batch, eviction and clear().
CacheExact == ListsIntact /\ SizeExact

\* The caches implement the pool: no object is lost, none is handed out twice,
\* across evictions, failed batches and clear().  An object on its way into a
\* cache still counts as its owner's.
Pool == INSTANCE ObjectPool WITH
           cached <- UNION {CachedIn(c) : c \in Caches},
           live <- live \cup {op[c].obj : c \in {d \in Caches : op[d].name = "push"}}

ImplementsPool == Pool!PoolSpec

\* Making room ends: every pop and push returns (the loop of
\* priv_make_room_for_new_blocks has a block to free as long as it needs room).
CallsReturn == \A c \in Caches : op[c] # Idle ~> op[c] = Idle

\* When all_memory_deallocated says yes, between calls, no client holds a
\* small object: what is cached does not hide what is in use.
DeallocatedMeansUnused ==
    (\A c \in Caches : op[c] = Idle) /\ all_memory_deallocated => live = {}
=============================================================================
